------------------------------- MODULE DriveC -------------------------------
(***************************************************************************)
(* Drive C: from the browser's database to the machine and back: the chunk *)
(* store and the sparse image of web/store.ts, and the worker's handlers   *)
(* that load, build, flush, import into and wipe the drive.                *)
(*                                                                         *)
(* A handler is an async function.  It runs without interruption up to an  *)
(* await; there the other handlers, the machine and the flush timer go on. *)
(* The database (IndexedDB, not part of the code) runs transactions whose  *)
(* scopes overlap in the order they were created; each takes effect as a   *)
(* whole or fails, and those still waiting when the page goes away are     *)
(* lost.  A failure at commit time aborts a transaction without an error   *)
(* event, and then the promises of store.ts never settle.                  *)
(*                                                                         *)
(* The content of a chunk is the number of the write that made it, 0 for a *)
(* chunk that was never written.                                           *)
(***************************************************************************)
EXTENDS Naturals, Sequences, SequencesExt

CONSTANTS
    Chunks,       \* the 64 KB chunks of the drive
    Sys,          \* the one with the system: boot sector, FAT, CONFIG.SYS
    MaxWrites,    \* bound: chunk writes in all
    MaxOpens,     \* bound: how often the page is opened
    MaxFailures,  \* bound: database transactions that fail
    CloseEarly,   \* may the page go away before the machine has started?
    UserEarly,    \* may the user wipe or import before the machine has started?
    BadImports    \* may an import fail half way (disk full, a corrupt archive)?

ASSUME SysAssumption == Sys \in Chunks
ASSUME BoundsAssumption == MaxWrites \in Nat /\ MaxOpens \in Nat /\ MaxFailures \in Nat
ASSUME SwitchAssumption == {CloseEarly, UserEarly, BadImports} \subseteq BOOLEAN

VARIABLES
    opens,     \* how often the page was opened
    flow,      \* where each async handler is: boot, import, wipe
    settled,   \* what each handler's awaited promise did
    machine,   \* running and flushTimer
    image,     \* the SparseImage: chunks, dirty; and whether images has it
    disk,      \* the database: the drive's meta record and its chunks
    txs,       \* transactions created and not finished, oldest first
    answer,    \* the database as the last finished read of boot saw it
    clock,     \* writes so far
    wipedAt,   \* the last write before the last acknowledged wipe
    lost,      \* chunks whose last write went down with a failed transaction
    failures   \* failed transactions so far

vars == <<opens, flow, settled, machine, image, disk, txs, answer, clock, wipedAt, lost, failures>>

Flows == {"boot", "import", "wipe"}
Blank == [c \in Chunks |-> 0]

NoFlow == [boot |-> "closed", import |-> "idle", wipe |-> "idle"]
Waiting == [f \in Flows |-> "pending"]
Stopped == [running |-> FALSE, timer |-> FALSE]
NoImage == [chunks |-> Blank, dirty |-> {}, attached |-> FALSE]
EmptyDisk == [meta |-> FALSE, chunks |-> Blank]

Init ==
    /\ opens = 0 /\ flow = NoFlow /\ settled = Waiting /\ machine = Stopped
    /\ image = NoImage /\ disk = EmptyDisk /\ txs = << >> /\ answer = EmptyDisk
    /\ clock = 0 /\ wipedAt = 0 /\ lost = {} /\ failures = 0

Open == flow.boot # "closed"

----------------------------------------------------------------------------
(* The database.                                                           *)

Scope(t) == CASE t.op \in {"getMeta", "putMeta"} -> {"meta"}
              [] t.op \in {"loadChunks", "putChunks"} -> {"chunks"}
              [] t.op = "deleteDisk" -> {"meta", "chunks"}

NoData == [c \in {} |-> 0]
Tx(op, by, data) == [op |-> op, by |-> by, data |-> data]

\* A transaction starts when every earlier one of overlapping scope has finished.
MayRun(i) == \A j \in 1..(i - 1) : Scope(txs[j]) \intersect Scope(txs[i]) = {}

\* What a transaction makes of the database.
Applied(t) ==
    CASE t.op = "putMeta"    -> [disk EXCEPT !.meta = TRUE]
      [] t.op = "putChunks"  -> [disk EXCEPT !.chunks =
                                    [c \in Chunks |-> IF c \in DOMAIN t.data THEN t.data[c] ELSE @[c]]]
      [] t.op = "deleteDisk" -> EmptyDisk
      [] OTHER               -> disk

Settle(t, outcome) ==
    settled' = IF t.by \in Flows THEN [settled EXCEPT ![t.by] = outcome] ELSE settled

Commit(i) ==
    /\ MayRun(i)
    /\ disk' = Applied(txs[i])
    /\ answer' = IF txs[i].op \in {"getMeta", "loadChunks"} THEN disk ELSE answer
    /\ Settle(txs[i], "ok")
    /\ txs' = RemoveAt(txs, i)
    /\ UNCHANGED <<opens, flow, machine, image, clock, wipedAt, lost, failures>>

\* The bug of queueing a failed write again behind newer ones.
FailRetries(i) ==
    /\ failures < MaxFailures
    /\ failures' = failures + 1
    /\ txs[i].op \in {"putMeta", "putChunks", "deleteDisk"}
    /\ MayRun(i)
    /\ txs' = Append(RemoveAt(txs, i), txs[i])
    /\ UNCHANGED <<opens, flow, settled, machine, image, disk, answer, clock, wipedAt, lost>>

\* A write fails: the request reports an error and the promise is rejected, or
\* the commit fails and the promise stays pending for ever.
Fail(i) ==
    /\ failures < MaxFailures
    /\ failures' = failures + 1
    /\ txs[i].op \in {"putMeta", "putChunks", "deleteDisk"}
    /\ MayRun(i)
    /\ \/ Settle(txs[i], "error")
       \/ UNCHANGED settled
    /\ lost' = lost \union (DOMAIN txs[i].data \ image.dirty)
    /\ txs' = RemoveAt(txs, i)
    /\ UNCHANGED <<opens, flow, machine, image, disk, answer, clock, wipedAt>>

----------------------------------------------------------------------------
(* The sparse image.                                                       *)

\* The bug of marking a chunk only when it is created.
WrittenIfNew(img, c) ==
    [img EXCEPT !.chunks[c] = clock + 1,
                !.dirty = IF img.chunks[c] = 0 THEN @ \union {c} ELSE @]

\* SparseImage.write to chunk c, and the note that its content is new.
Written(img, c) == [img EXCEPT !.chunks[c] = clock + 1, !.dirty = @ \union {c}]

\* takeDirty empties the set before the database has seen the chunks.
TakeDirty(img) == [img EXCEPT !.dirty = {}]
DirtyData(img) == [c \in img.dirty |-> img.chunks[c]]

\* flush(), its drive C: part, of an image that the same handler made out of the
\* current one.  It runs up to putChunks without an await.
FlushOf(img, by) ==
    IF img.attached /\ img.dirty # {}
    THEN /\ image' = TakeDirty(img)
         /\ txs' = Append(txs, Tx("putChunks", by, DirtyData(img)))
    ELSE image' = img /\ UNCHANGED txs

\* A handler begins to wait for the transaction it creates, or goes on after one
\* that ended well or badly.
Await(f, op, data) ==
    /\ txs' = Append(txs, Tx(op, f, data))
    /\ settled' = [settled EXCEPT ![f] = "pending"]
Resumes(f, outcome) == settled[f] = outcome

----------------------------------------------------------------------------
(* Starting: the init message and ensureHdd.                               *)

OpenPage ==
    /\ ~Open /\ opens < MaxOpens
    /\ opens' = opens + 1
    /\ flow' = [flow EXCEPT !.boot = "getMeta"]
    /\ Await("boot", "getMeta", NoData)
    /\ UNCHANGED <<machine, image, disk, answer, clock, wipedAt, lost, failures>>

\* The drive exists, or its files have to be fetched first.
GotMeta ==
    /\ flow.boot = "getMeta" /\ Resumes("boot", "ok")
    /\ IF answer.meta
       THEN flow' = [flow EXCEPT !.boot = "load"] /\ Await("boot", "loadChunks", NoData)
       ELSE flow' = [flow EXCEPT !.boot = "fetch"] /\ UNCHANGED <<txs, settled>>
    /\ UNCHANGED <<opens, machine, image, disk, answer, clock, wipedAt, lost, failures>>

\* The image is the stored chunks; an old CONFIG.SYS is rewritten and stored at
\* once.  A drive without a file system makes that attempt throw, and the
\* exception is ignored.
Loaded ==
    /\ flow.boot = "load" /\ Resumes("boot", "ok")
    /\ lost' = {}
    /\ LET img == [chunks |-> answer.chunks, dirty |-> {}, attached |-> TRUE]
       IN  \/ /\ image' = img
              /\ flow' = [flow EXCEPT !.boot = "mount"]
              /\ UNCHANGED <<txs, settled, clock>>
           \/ /\ img.chunks[Sys] # 0 /\ clock < MaxWrites
              /\ clock' = clock + 1
              /\ image' = TakeDirty(Written(img, Sys))
              /\ flow' = [flow EXCEPT !.boot = "upgrade"]
              /\ Await("boot", "putChunks", DirtyData(Written(img, Sys)))
    /\ UNCHANGED <<opens, machine, disk, answer, wipedAt, failures>>

\* The rewritten CONFIG.SYS is stored, or the error is ignored.
Upgraded ==
    /\ flow.boot = "upgrade" /\ settled["boot"] \in {"ok", "error"}
    /\ flow' = [flow EXCEPT !.boot = "mount"]
    /\ UNCHANGED <<opens, settled, machine, image, disk, txs, answer, clock, wipedAt, lost, failures>>

\* buildSystemDisk fills a blank image; its meta record is stored first.
Build ==
    /\ flow.boot = "fetch" /\ clock < MaxWrites
    /\ clock' = clock + 1 /\ lost' = {}
    /\ image' = [Written(NoImage, Sys) EXCEPT !.attached = TRUE]
    /\ flow' = [flow EXCEPT !.boot = "putMeta"]
    /\ Await("boot", "putMeta", NoData)
    /\ UNCHANGED <<opens, machine, disk, answer, wipedAt, failures>>

\* The chunks follow once the meta record is stored.
MetaPut ==
    /\ flow.boot = "putMeta" /\ Resumes("boot", "ok")
    /\ flow' = [flow EXCEPT !.boot = "putChunks"]
    /\ image' = TakeDirty(image)
    /\ Await("boot", "putChunks", DirtyData(image))
    /\ UNCHANGED <<opens, machine, disk, answer, clock, wipedAt, lost, failures>>

ChunksPut ==
    /\ flow.boot = "putChunks" /\ Resumes("boot", "ok")
    /\ flow' = [flow EXCEPT !.boot = "mount"]
    /\ UNCHANGED <<opens, settled, machine, image, disk, txs, answer, clock, wipedAt, lost, failures>>

\* The init handler throws: the page shows the error and nothing runs.
BootFails ==
    /\ \/ flow.boot \in {"putMeta", "putChunks"} /\ Resumes("boot", "error")
       \/ flow.boot = "fetch"
    /\ flow' = [flow EXCEPT !.boot = "failed"]
    /\ UNCHANGED <<opens, settled, machine, image, disk, txs, answer, clock, wipedAt, lost, failures>>

\* The local folder has been dealt with: the machine starts, and the flush timer.
Start ==
    /\ flow.boot = "mount"
    /\ flow' = [flow EXCEPT !.boot = "done"]
    /\ machine' = [running |-> TRUE, timer |-> TRUE]
    /\ UNCHANGED <<opens, settled, image, disk, txs, answer, clock, wipedAt, lost, failures>>

----------------------------------------------------------------------------
(* Running.                                                                *)

\* The guest writes a sector through INT 13h.
GuestWrite(c) ==
    /\ machine.running /\ image.attached /\ clock < MaxWrites
    /\ clock' = clock + 1
    /\ image' = Written(image, c)
    /\ lost' = lost \ {c}
    /\ UNCHANGED <<opens, flow, settled, machine, disk, txs, answer, wipedAt, failures>>

\* The three-second timer.
TimerFlush ==
    /\ machine.timer
    /\ FlushOf(image, "timer")
    /\ UNCHANGED <<opens, flow, settled, machine, disk, answer, clock, wipedAt, lost, failures>>

\* The page is hidden and sends "flush", at any time.
FlushMessage ==
    /\ Open
    /\ FlushOf(image, "message")
    /\ UNCHANGED <<opens, flow, settled, machine, disk, answer, clock, wipedAt, lost, failures>>

\* importInto, once the archive is read: the files are written, the drive is
\* flushed, and the handler waits for that.
Import(c) ==
    /\ flow.import = "idle" /\ (UserEarly \/ flow.boot = "done")
    /\ image.attached /\ clock < MaxWrites
    /\ clock' = clock + 1
    /\ machine' = [machine EXCEPT !.running = FALSE]
    /\ flow' = [flow EXCEPT !.import = "flushing"]
    /\ FlushOf(Written(image, c), "import")
    /\ settled' = [settled EXCEPT !["import"] = "pending"]
    /\ lost' = lost \ {c}
    /\ UNCHANGED <<opens, disk, answer, wipedAt, failures>>

\* importInto throws half way: what it wrote stays in the image, the drive is not
\* flushed, and nothing restarts the machine.
ImportThrows(c) ==
    /\ BadImports
    /\ flow.import = "idle" /\ (UserEarly \/ flow.boot = "done")
    /\ image.attached /\ clock < MaxWrites
    /\ clock' = clock + 1
    /\ machine' = [machine EXCEPT !.running = FALSE]
    /\ flow' = [flow EXCEPT !.import = "failed"]
    /\ image' = Written(image, c)
    /\ lost' = lost \ {c}
    /\ UNCHANGED <<opens, settled, disk, txs, answer, wipedAt, failures>>

\* The bug of an import that leaves the machine as it stopped it.
ImportedStaysStopped ==
    /\ flow.import = "flushing" /\ Resumes("import", "ok")
    /\ flow' = [flow EXCEPT !.import = "idle"]
    /\ UNCHANGED <<opens, settled, machine, image, disk, txs, answer, clock, wipedAt, lost, failures>>

\* The imported files are stored and the machine is rebooted.
Imported ==
    /\ flow.import = "flushing" /\ Resumes("import", "ok")
    /\ flow' = [flow EXCEPT !.import = "idle"]
    /\ machine' = [machine EXCEPT !.running = TRUE]
    /\ UNCHANGED <<opens, settled, image, disk, txs, answer, clock, wipedAt, lost, failures>>

\* flush() was rejected: importInto throws.
ImportNotStored ==
    /\ flow.import = "flushing" /\ Resumes("import", "error")
    /\ flow' = [flow EXCEPT !.import = "failed"]
    /\ UNCHANGED <<opens, settled, machine, image, disk, txs, answer, clock, wipedAt, lost, failures>>

\* The user resets the machine, which also starts a stopped one.
UserReset ==
    /\ flow.boot = "done"
    /\ machine' = [machine EXCEPT !.running = TRUE]
    /\ flow' = [flow EXCEPT !.import = IF @ = "failed" THEN "idle" ELSE @]
    /\ UNCHANGED <<opens, settled, image, disk, txs, answer, clock, wipedAt, lost, failures>>

----------------------------------------------------------------------------
(* Wiping and leaving.                                                     *)

\* The bug of acknowledging a wipe before the delete has committed.
WipeEarlyAck ==
    /\ Open /\ flow.wipe = "idle"
    /\ UserEarly \/ flow.boot = "done"
    /\ machine' = Stopped
    /\ image' = [image EXCEPT !.attached = FALSE]
    /\ flow' = [flow EXCEPT !.wipe = "acked"]
    /\ Await("wipe", "deleteDisk", NoData)
    /\ UNCHANGED <<opens, disk, answer, clock, wipedAt, lost, failures>>

\* wipeDisk stops the machine and its timer, forgets the image and waits for the
\* delete.
Wipe ==
    /\ Open /\ flow.wipe = "idle"
    /\ UserEarly \/ flow.boot = "done"
    /\ machine' = Stopped
    /\ image' = [image EXCEPT !.attached = FALSE]
    /\ flow' = [flow EXCEPT !.wipe = "deleting"]
    /\ Await("wipe", "deleteDisk", NoData)
    /\ UNCHANGED <<opens, disk, answer, clock, wipedAt, lost, failures>>

\* The worker posts "wiped"; the page reloads when it gets round to it.
Wiped ==
    /\ flow.wipe = "deleting" /\ Resumes("wipe", "ok")
    /\ flow' = [flow EXCEPT !.wipe = "acked"]
    /\ wipedAt' = clock
    /\ UNCHANGED <<opens, settled, machine, image, disk, txs, answer, clock, lost, failures>>

\* The page goes away: closed, reloaded or killed.  Only the database stays.
ClosePage ==
    /\ Open
    /\ CloseEarly \/ flow.boot \in {"done", "failed"} \/ flow.wipe = "acked"
    /\ flow' = NoFlow /\ settled' = Waiting /\ machine' = Stopped
    /\ image' = NoImage /\ txs' = << >> /\ answer' = EmptyDisk /\ lost' = {}
    /\ UNCHANGED <<opens, disk, clock, wipedAt, failures>>

----------------------------------------------------------------------------
Database ==
    \/ \E i \in 1..Len(txs) : Commit(i)
    \/ \E i \in 1..Len(txs) : Fail(i)

Boot == GotMeta \/ Loaded \/ Upgraded \/ Build \/ MetaPut \/ ChunksPut \/ BootFails \/ Start

Next ==
    \/ Database \/ OpenPage \/ Boot
    \/ \E c \in Chunks : GuestWrite(c) \/ Import(c) \/ ImportThrows(c)
    \/ TimerFlush \/ FlushMessage \/ Imported \/ ImportNotStored \/ UserReset
    \/ Wipe \/ Wiped \/ ClosePage

\* Handlers run on, transactions finish and the timer fires for as long as the
\* page is open; the user owes nothing.
Fairness ==
    /\ WF_vars(Database) /\ WF_vars(Boot)
    /\ WF_vars(Imported) /\ WF_vars(ImportNotStored) /\ WF_vars(Wiped)
    /\ WF_vars(TimerFlush)

Spec == Init /\ [][Next]_vars /\ Fairness

----------------------------------------------------------------------------
BootSteps == {"closed", "getMeta", "load", "upgrade", "fetch", "putMeta", "putChunks",
              "mount", "done", "failed"}
Contents == [Chunks -> 0..MaxWrites]

TypeOK ==
    /\ opens \in 0..MaxOpens
    /\ flow \in [boot : BootSteps, import : {"idle", "flushing", "failed"},
                 wipe : {"idle", "deleting", "acked"}]
    /\ settled \in [Flows -> {"pending", "ok", "error"}]
    /\ machine \in [running : BOOLEAN, timer : BOOLEAN]
    /\ image \in [chunks : Contents, dirty : SUBSET Chunks, attached : BOOLEAN]
    /\ disk \in [meta : BOOLEAN, chunks : Contents]
    /\ answer \in [meta : BOOLEAN, chunks : Contents]
    /\ clock \in 0..MaxWrites /\ wipedAt \in 0..clock
    /\ lost \in SUBSET Chunks /\ failures \in 0..MaxFailures

\* The content a chunk will have once every waiting transaction has committed.
Pending(c) == {i \in 1..Len(txs) : c \in DOMAIN txs[i].data}
Settling(c) ==
    IF Pending(c) = {} THEN disk.chunks[c]
    ELSE txs[CHOOSE i \in Pending(c) : \A j \in Pending(c) : j <= i].data[c]

\* A chunk that is not marked dirty is saved or on its way: once the waiting
\* transactions have committed the database holds its newest content, however the
\* timer's flushes, the page's and an import's overlap.  The only exception is a
\* chunk whose transaction failed: takeDirty has forgotten it by then.
CleanIsSaved ==
    image.attached =>
        \A c \in Chunks \ (image.dirty \union lost) : Settling(c) = image.chunks[c]

\* What DOS has written never goes back to something older in the database,
\* except when the user wipes the drive.
StoreNeverRegresses ==
    [][\A c \in Chunks : disk'.chunks[c] < disk.chunks[c] => disk' = EmptyDisk]_vars

\* The page learns that the drive is wiped only when nothing of it is left.
AckMeansWiped == flow.wipe = "acked" => disk = EmptyDisk

\* Everything on a wiped drive is lost: whatever the machine runs with afterwards
\* was written after the wipe, however the wipe falls between flushes and imports.
NoOldDrive ==
    image.attached => \A c \in Chunks : image.chunks[c] \in {0} \union (wipedAt + 1)..clock

\* The variables have their types, and a wipe that the page was told of was one.
Consistent == TypeOK /\ AckMeansWiped /\ NoOldDrive

\* MS-DOS boots from a drive that is created on the first run: a running machine
\* has the system on its drive C:.
SystemIsThere == machine.running /\ image.attached => image.chunks[Sys] # 0

\* What DOS writes is stored within a few flushes, unless the page goes away, the
\* drive is wiped first, or the very transaction that held it fails.
WritesAreSaved ==
    \A c \in Chunks, v \in 1..MaxWrites :
        (machine.timer /\ image.attached /\ image.chunks[c] = v)
            ~> (disk.chunks[c] >= v \/ ~Open \/ ~image.attached \/ c \in lost)

\* An import that could write its files ends with the machine running again, unless
\* the page goes away, the drive is wiped first or the database has failed.
ImportEndsRunning ==
    (flow.import = "flushing")
        ~> (machine.running \/ ~Open \/ flow.wipe # "idle" \/ failures > 0)
=============================================================================
