----------------------------- MODULE GamesDrive -----------------------------
(***************************************************************************)
(* The games folder as a hard disk: web/localdrive.ts, which loads blocks  *)
(* of the folder's files when they are first read and keeps what DOS       *)
(* writes in an overlay of sectors, under core/disk.c and the INT 13h of   *)
(* core/bios_disk.c, which halts while a block is on its way and executes  *)
(* the call again after the next interrupt.  The handler of that interrupt *)
(* may call INT 13h itself.                                                *)
(*                                                                         *)
(* A sector contains the number of the write that made it, 0 for what the  *)
(* folder or the formatted metadata contains.                              *)
(***************************************************************************)
EXTENDS Naturals, Sequences, FiniteSets, SequencesExt, Functions

CONSTANTS
    NSectors,      \* the disk's sectors are 0 .. NSectors - 1
    Files,         \* the intervals of the disk that are files' data: records of
                   \* the first sector and the number of sectors, s0 and len
    BlockSectors,  \* sectors to a block (BLOCK)
    ReadAhead,     \* blocks fetched beyond one that is read (READ_AHEAD)
    CacheBlocks,   \* blocks that stay in memory (CACHE_BLOCKS)
    Requests,      \* the sets of sectors that DOS reads or writes
    MaxVersions,   \* bound: writes
    MaxErrors,     \* bound: reads of the folder that fail
    MaxNesting     \* bound: calls of INT 13h that interrupt one another

ASSUME DriveSizes ==
    /\ NSectors \in Nat /\ BlockSectors \in Nat \ {0} /\ ReadAhead \in Nat
    /\ CacheBlocks \in Nat \ {0} /\ MaxVersions \in Nat /\ MaxErrors \in Nat /\ MaxNesting \in Nat
ASSUME FilesAssumption ==
    /\ \A f \in Files : f.s0 \in Nat /\ f.len \in Nat \ {0} /\ f.s0 + f.len <= NSectors
    /\ \A f, g \in Files : f # g => f.s0 + f.len <= g.s0 \/ g.s0 + g.len <= f.s0
ASSUME RequestsAssumption == \A r \in Requests : r \subseteq Nat /\ r # {}

VARIABLES
    overlay,  \* the last write of each sector, 0 for none
    cache,    \* the blocks in memory, the least recently used one first
    pending,  \* blocks being read from the folder
    errors,   \* blocks that could not be read
    calls,    \* the reads that wait, each made by a handler that interrupts the one before
    cpu,      \* "halted" in the last of them, or it "runs" a program or the handler
              \* of an interrupt, which "returns" when it has called INT 13h
    reply     \* what the last answered call returned

driveVars == <<overlay, cache, pending, errors, calls, cpu, reply>>

Sectors == 0..(NSectors - 1)

\* findInterval: the file that a sector belongs to, and the block of it.
FileOf == [s \in {t \in Sectors : \E f \in Files : f.s0 <= t /\ t < f.s0 + f.len} |->
              CHOOSE f \in Files : f.s0 <= s /\ s < f.s0 + f.len]
BlockOf == [s \in DOMAIN FileOf |-> [file |-> FileOf[s], idx |-> (s - FileOf[s].s0) \div BlockSectors]]
AllBlocks == {BlockOf[s] : s \in DOMAIN BlockOf}

\* What a call leaves with its caller.
Reply(r, how, data) == [sectors |-> r, how |-> how, data |-> data]
NoData == [s \in {} |-> 0]
NoReply == Reply({}, "none", NoData)

DriveInit ==
    /\ overlay = [s \in Sectors |-> 0]
    /\ cache = << >> /\ pending = {} /\ errors = {}
    /\ calls = << >> /\ cpu = "runs" /\ reply = NoReply

Cached == ToSet(cache)

----------------------------------------------------------------------------
(* localdrive.ts.                                                          *)

\* The blocks that LocalFatDrive.read looks for: those of file sectors that DOS
\* has not written.
Needed(r) == {BlockOf[s] : s \in {t \in r \intersect DOMAIN BlockOf : overlay[t] = 0}}

\* A block that is read, or about to be, brings the next ones with it.
Ahead(b) == {a \in AllBlocks : a.file = b.file /\ a.idx \in (b.idx + 1)..(b.idx + ReadAhead)}

\* The bug of fetching what is cached or failed already.
FetchAlways(bs) == pending \union bs

\* fetch: not what is here, on its way, or known to fail.
Fetch(bs) == pending \union (bs \ (Cached \union errors))

\* The LRU touch of a block that is there.
Touched(c, b) == IF b \in ToSet(c) THEN Append(RemoveFirst(c, b), b) ELSE c

\* Of some blocks the one with the last sectors.
StartOf(b) == b.file.s0 + b.idx * BlockSectors
Latest(bs) == CHOOSE b \in bs : \A other \in bs : StartOf(other) <= StartOf(b)

\* The cache when these blocks are touched in the order of their sectors.
AllTouched(bs) == MapThenFoldSet(LAMBDA b, c : Touched(c, b), cache, LAMBDA b : b, Latest, bs)

\* What LocalFatDrive.read returns.
Status(r) ==
    IF ~ r \subseteq Sectors \/ Needed(r) \intersect errors # {} THEN "error"
    ELSE IF Needed(r) \subseteq Cached THEN "done" ELSE "pending"

Unfilled == MaxVersions + 1

\* The bug of a block that covers what DOS has written into it.
DataFolderFirst(r) ==
    [s \in r |-> IF s \in DOMAIN BlockOf /\ BlockOf[s] \in Cached THEN 0
                 ELSE IF overlay[s] # 0 \/ s \notin DOMAIN BlockOf THEN overlay[s] ELSE Unfilled]

\* What a read copies to the caller: the overlay, or else what the folder has.
Data(r) ==
    [s \in r |-> IF overlay[s] # 0 \/ s \notin DOMAIN BlockOf THEN overlay[s]
                 ELSE IF BlockOf[s] \in Cached THEN 0 ELSE Unfilled]

\* LocalFatDrive.read: touches and fetches, whatever it returns.
LocalRead(r) ==
    IF r \subseteq Sectors
    THEN LET found == Needed(r) \ errors
         IN  /\ cache' = AllTouched(Needed(r))
             /\ pending' = Fetch(found \union UNION {Ahead(b) : b \in found})
    ELSE UNCHANGED <<cache, pending>>

\* The cache keeps the blocks used last.
KeptBlocks(c) == SubSeq(c, IF Len(c) > CacheBlocks THEN Len(c) - CacheBlocks + 1 ELSE 1, Len(c))

\* The bug of remembering a fetch for ever.
ArrivesStaysPending(b) ==
    /\ b \in pending
    /\ cache' = KeptBlocks(Append(cache, b))
    /\ UNCHANGED <<overlay, pending, errors, calls, cpu, reply>>

\* A block arrives from the folder.
Arrives(b) ==
    /\ b \in pending
    /\ pending' = pending \ {b}
    /\ cache' = KeptBlocks(Append(cache, b))
    /\ UNCHANGED <<overlay, errors, calls, cpu, reply>>

\* The folder cannot be read: the block is never asked for again.
ReadFails(b) ==
    /\ b \in pending /\ Cardinality(errors) < MaxErrors
    /\ pending' = pending \ {b}
    /\ errors' = errors \union {b}
    /\ UNCHANGED <<overlay, cache, calls, cpu, reply>>

----------------------------------------------------------------------------
(* INT 13h.                                                                *)

\* The call goes on when nothing is missing, and otherwise halts where it is,
\* with interrupts enabled.  The calls it interrupts are waiting.  Bound: a
\* handler makes one call.
Int13Read(r, waiting) ==
    /\ LocalRead(r)
    /\ IF Status(r) = "pending"
       THEN calls' = Append(waiting, r) /\ cpu' = "halted" /\ UNCHANGED reply
       ELSE /\ calls' = waiting
            /\ cpu' = IF waiting = << >> THEN "runs" ELSE "returns"
            /\ reply' = IF Status(r) = "done" THEN Reply(r, "read", Data(r))
                                               ELSE Reply(r, "error", NoData)
    /\ UNCHANGED <<overlay, errors>>

\* A program, or the handler of an interrupt, reads.
Read(r) ==
    /\ cpu = "runs" /\ Len(calls) < MaxNesting
    /\ Int13Read(r, calls)

\* It writes, and version v is newer than every other: the overlay takes every
\* sector, whatever is cached or on its way.
Write(r, v) ==
    /\ cpu = "runs" /\ \A s \in Sectors : overlay[s] < v
    /\ IF r \subseteq Sectors
       THEN /\ overlay' = [s \in Sectors |-> IF s \in r THEN v ELSE overlay[s]]
            /\ reply' = Reply(r, "written", NoData)
       ELSE reply' = Reply(r, "error", NoData) /\ UNCHANGED overlay
    /\ cpu' = IF calls = << >> THEN "runs" ELSE "returns"
    /\ UNCHANGED <<cache, pending, errors, calls>>

\* An interrupt, the timer's at the latest, ends the halt: its handler runs.
Wake ==
    /\ cpu = "halted"
    /\ cpu' = "runs"
    /\ UNCHANGED <<overlay, cache, pending, errors, calls, reply>>

\* The handler returns to the call, which is executed again.
Retry ==
    /\ cpu # "halted" /\ calls # << >>
    /\ Int13Read(Last(calls), Front(calls))

\* A reset abandons the calls; what is on its way arrives all the same.
ResetCalls ==
    /\ calls' = << >> /\ cpu' = "runs"
    /\ UNCHANGED <<overlay, cache, pending, errors, reply>>

DriveNext ==
    \/ \E r \in Requests : Read(r) \/ \E v \in 1..MaxVersions : Write(r, v)
    \/ Wake \/ Retry \/ ResetCalls
    \/ \E b \in AllBlocks : Arrives(b) \/ ReadFails(b)

\* The folder answers every read, some interrupt comes, and a handler returns.
DriveFairness ==
    /\ \A b \in AllBlocks : WF_driveVars(Arrives(b) \/ ReadFails(b))
    /\ WF_driveVars(Wake) /\ WF_driveVars(Retry)

DriveSpec == DriveInit /\ [][DriveNext]_driveVars /\ DriveFairness

----------------------------------------------------------------------------
DriveTypeOK ==
    /\ overlay \in [Sectors -> 0..MaxVersions]
    /\ cache \in Seq(AllBlocks) /\ Len(cache) <= CacheBlocks
    /\ pending \subseteq AllBlocks /\ errors \subseteq AllBlocks
    /\ calls \in Seq(Requests) /\ Len(calls) <= MaxNesting
    /\ cpu \in {"runs", "returns", "halted"} /\ (cpu # "runs" => calls # << >>)
    /\ reply.sectors \in Requests \union {{}} /\ reply.how \in {"none", "read", "written", "error"}
    /\ reply.data \in {NoData} \union [reply.sectors -> 0..MaxVersions]

\* A block is in one place: cached once, on its way or failed.  Otherwise it would
\* be read from the folder twice, or count twice against the cache's limit.
OnePlace ==
    /\ IsInjective(cache)
    /\ Cached \intersect (pending \union errors) = {} /\ pending \intersect errors = {}

\* The cache keeps within its limit, and each block to its place: the types, and
\* OnePlace.
DriveConsistent == DriveTypeOK /\ OnePlace

\* The sectors that have gone bad: those of failed blocks that DOS has not written.
Bad == {s \in DOMAIN BlockOf : overlay[s] = 0 /\ BlockOf[s] \in errors}

\* The games folder is a disk: however fetches, read-ahead, eviction, writes and
\* interrupting calls fall, a read answers with the newest content of every
\* sector, all at one moment, and fails only where the folder failed.
Disk == INSTANCE Blocks WITH
            Version <- 0..MaxVersions,
            content <- overlay,
            bad <- Bad
ImplementsDisk == Disk!Spec

\* Every call of INT 13h is answered at last, though a block may be evicted before
\* the call that waits for it is tried again.
CallsReturn == \A d \in 1..MaxNesting : (Len(calls) >= d) ~> (Len(calls) < d)
=============================================================================
