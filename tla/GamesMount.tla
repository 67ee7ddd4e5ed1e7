----------------------------- MODULE GamesMount -----------------------------
(***************************************************************************)
(* Connecting, disconnecting and flushing the games folder: the handlers   *)
(* of web/worker.ts that attach a folder as hard disks, keep what DOS      *)
(* writes there in overlays in the browser's database, one for every disk  *)
(* of every folder, and stop and restart the machine around it.            *)
(*                                                                         *)
(* A handler runs without interruption from one await to the next.  The    *)
(* database (IndexedDB, external) finishes transactions of overlapping     *)
(* scope in the order they were created, and a handler goes on when its    *)
(* transaction has finished.  When the page goes away the transactions     *)
(* that have not finished are lost; a folder whose files change is another *)
(* folder, as its signature is another one.                                *)
(*                                                                         *)
(* A transaction may also fail, and then has no effect.  One that reads    *)
(* rejects; one that writes rejects, or is aborted when it is committed,   *)
(* for which store.ts has no handler: the handler then waits for ever, and *)
(* is taken out of the state.                                              *)
(*                                                                         *)
(* What DOS wrote to a disk is the number of the last write: a disk stands *)
(* for one of its sectors, which are taken and saved each by itself.       *)
(***************************************************************************)
EXTENDS Naturals, Sequences, FiniteSets, SequencesExt

CONSTANTS
    Folders,    \* the folders, each by its signature
    None,       \* no folder
    NDisks,     \* synthetic hard disks of a folder
    Connects,   \* the connect messages that may be handled at the same time
    MaxWrites,  \* bound: writes in all
    MaxOpens,   \* bound: how often the page is opened
    MaxUser,    \* bound: what the user does in all: connect, disconnect, reset
    MaxFailures,\* bound: transactions that fail, and starts
    Impatient   \* may the user connect a folder while another handler is at work, or while
                \* one is attached of which the page was not told?

ASSUME NoneAssumption == None \notin Folders
ASSUME SizesAssumption == NDisks \in Nat \ {0} /\ {MaxWrites, MaxOpens, MaxUser, MaxFailures} \subseteq Nat
ASSUME ConnectsAssumption == Connects # {} /\ {"boot", "disconnect", "flush"} \intersect Connects = {}
ASSUME ImpatientAssumption == Impatient \in BOOLEAN

VARIABLES
    open,     \* is the page open, and how often was it opened
    at,       \* where each handler is: its step, its folder, its disk, its drive's overlay
    drive,    \* disks.local, localOverlayId and whether the disks are attached; and its
              \* disks whose last write went down with a failed transaction
    machine,  \* running, flushTimer, and how many ticks are scheduled; and whether a
              \* handler that failed, or waits for ever, has left it stopped
    page,     \* what the page knows of the folder: "none" or "mounted"
    store,    \* the database: the folder of the last mount, and the overlays
    txs,      \* transactions that have not finished, oldest first
    writer,   \* the folder of every write so far
    user,     \* what the user has done so far
    failures  \* what has failed so far

vars == <<open, at, drive, machine, page, store, txs, writer, user, failures>>

Disks == 0..(NDisks - 1)
Blank == [d \in Disks |-> 0]
Mounts == Connects \union {"boot"}
Handlers == Mounts \union {"disconnect", "flush"}

Idle == [step |-> "idle", folder |-> None, disk |-> 0, overlay |-> Blank]
NoDrive == [folder |-> None, overlay |-> Blank, dirty |-> {}, id |-> None, attached |-> FALSE,
            lost |-> {}]
Stopped == [running |-> FALSE, timer |-> FALSE, ticks |-> 0, stranded |-> FALSE]
EmptyStore == [meta |-> None, overlays |-> [f \in Folders |-> Blank]]

Init ==
    /\ open = [now |-> FALSE, times |-> 0]
    /\ at = [h \in Handlers |-> Idle]
    /\ drive = NoDrive /\ machine = Stopped /\ page = "none"
    /\ store = EmptyStore /\ txs = << >> /\ writer = << >> /\ user = 0 /\ failures = 0

Clock == Len(writer)

----------------------------------------------------------------------------
(* The database.                                                           *)

Tx(op, by, folder, d, data) == [op |-> op, by |-> by, folder |-> folder, disk |-> d, data |-> data]

Scope(t) == CASE t.op \in {"getMeta", "putMeta"} -> {"meta"}
              [] t.op \in {"load", "put"}        -> {"chunks"}
              [] OTHER                           -> {"meta", "chunks"}

Applied(t, s) ==
    CASE t.op = "putMeta"    -> [s EXCEPT !.meta = t.folder]
      [] t.op = "put"        -> [s EXCEPT !.overlays[t.folder][t.disk] = t.data]
      [] t.op = "delete"     -> [s EXCEPT !.overlays[t.folder][t.disk] = 0]
      [] t.op = "deleteMeta" -> [s EXCEPT !.meta = None]
      [] OTHER               -> s

\* The transaction that handler h waits for, once every earlier one of overlapping
\* scope has finished.
Finishing(h, op, i) ==
    /\ txs[i].by = h /\ txs[i].op = op
    /\ \A j \in 1..(i - 1) : Scope(txs[j]) \intersect Scope(txs[i]) = {}

\* The transactions after the i-th has finished, and the one its handler creates.
Replaced(i, new) == RemoveAt(txs, i) \o new

----------------------------------------------------------------------------
(* mountLocal, for the folder of the last visit or one the user connects.  *)

Busy(h) == at[h].step \notin {"idle", "acked"}
Quiet == \A h \in Mounts \union {"disconnect"} : ~Busy(h)

\* Every handler that stopped the machine, or init, ends with this.
Restarted(h) ==
    [running |-> TRUE, timer |-> machine.timer \/ h = "boot", ticks |-> machine.ticks + 1,
     stranded |-> FALSE]

\* The page is opened: init prepares drive C:, which is not part of this.
OpenPage ==
    /\ ~open.now /\ open.times < MaxOpens
    /\ open' = [now |-> TRUE, times |-> open.times + 1]
    /\ at' = [at EXCEPT !["boot"].step = "start"]
    /\ UNCHANGED <<drive, machine, page, store, txs, writer, user, failures>>

\* init finds the folder of the last mount and may still read it, changed or not,
\* or goes on without.
RemountOrStart ==
    /\ at["boot"].step = "start"
    /\ \/ /\ store.meta # None
          /\ \E f \in Folders : at' = [at EXCEPT !["boot"] = [Idle EXCEPT !.step = "scan", !.folder = f]]
          /\ UNCHANGED machine
       \/ /\ at' = [at EXCEPT !["boot"] = Idle]
          /\ machine' = Restarted("boot")
    /\ UNCHANGED <<open, drive, page, store, txs, writer, user, failures>>

\* connectLocalFolder stops the machine; the page offers it while nothing is mounted.
Connect(h, f) ==
    /\ machine.timer /\ at[h].step = "idle" /\ user < MaxUser
    /\ Impatient \/ (Quiet /\ page = "none" /\ ~drive.attached)
    /\ user' = user + 1
    /\ machine' = [machine EXCEPT !.running = FALSE, !.stranded = FALSE]
    /\ at' = [at EXCEPT ![h] = [Idle EXCEPT !.step = "scan", !.folder = f],
                        !["disconnect"] = IF Busy("disconnect") THEN @ ELSE Idle]
    /\ UNCHANGED <<open, drive, page, store, txs, writer, failures>>

\* The files are listed.
Scanned(h) ==
    /\ at[h].step = "scan"
    /\ at' = [at EXCEPT ![h].step = "getMeta"]
    /\ txs' = Append(txs, Tx("getMeta", h, None, 0, 0))
    /\ UNCHANGED <<open, drive, machine, page, store, writer, user, failures>>

\* They cannot be, or the folder is refused: the machine goes on without it.
ScanFails(h) ==
    /\ at[h].step = "scan"
    /\ at' = [at EXCEPT ![h] = Idle]
    /\ machine' = Restarted(h)
    /\ UNCHANGED <<open, drive, page, store, txs, writer, user, failures>>

\* The overlay's id is set before its first disk is loaded.
StartLoading(h, i) ==
    /\ drive' = [drive EXCEPT !.id = at[h].folder]
    /\ at' = [at EXCEPT ![h].step = "load", ![h].disk = 0]
    /\ txs' = Replaced(i, <<Tx("load", h, at[h].folder, 0, 0)>>)

\* The overlay of another folder, or of this one before it changed, goes first.
GotMeta(h) ==
    /\ \E i \in 1..Len(txs) :
        /\ Finishing(h, "getMeta", i)
        /\ IF store.meta \in {None, at[h].folder}
           THEN StartLoading(h, i)
           ELSE /\ at' = [at EXCEPT ![h].step = "delete", ![h].disk = 0]
                /\ txs' = Replaced(i, <<Tx("delete", h, store.meta, 0, 0)>>)
                /\ UNCHANGED drive
    /\ UNCHANGED <<open, machine, page, store, writer, user, failures>>

\* The old folder's overlays are deleted disk by disk, then the new one's are loaded.
OldDeleted(h) ==
    /\ \E i \in 1..Len(txs) :
        /\ Finishing(h, "delete", i)
        /\ store' = Applied(txs[i], store)
        /\ LET next == txs[i].disk + 1
           IN  IF next < NDisks
               THEN /\ at' = [at EXCEPT ![h].disk = next]
                    /\ txs' = Replaced(i, <<Tx("delete", h, txs[i].folder, next, 0)>>)
                    /\ UNCHANGED drive
               ELSE StartLoading(h, i)
    /\ UNCHANGED <<open, machine, page, writer, user, failures>>

\* The bug of mounting without what was saved for the later disks.
LoadedFirstOnly(h) ==
    /\ \E i \in 1..Len(txs) :
        /\ Finishing(h, "load", i)
        /\ drive' = [drive EXCEPT !.folder = at[h].folder, !.dirty = {}, !.lost = {},
                         !.overlay = [Blank EXCEPT ![0] = store.overlays[at[h].folder][0]]]
        /\ at' = [at EXCEPT ![h].step = "putMeta"]
        /\ txs' = Replaced(i, <<Tx("putMeta", h, at[h].folder, 0, 0)>>)
    /\ UNCHANGED <<open, machine, page, store, writer, user, failures>>

\* After the last disk the drive takes the place of the old one.
Loaded(h) ==
    /\ \E i \in 1..Len(txs) :
        /\ Finishing(h, "load", i)
        /\ LET d == at[h].disk
               f == at[h].folder
               overlay == [at[h].overlay EXCEPT ![d] = store.overlays[f][d]]
           IN  IF d + 1 < NDisks
               THEN /\ at' = [at EXCEPT ![h].disk = d + 1, ![h].overlay = overlay]
                    /\ txs' = Replaced(i, <<Tx("load", h, f, d + 1, 0)>>)
                    /\ UNCHANGED drive
               ELSE /\ drive' = [drive EXCEPT !.folder = f, !.overlay = overlay,
                                               !.dirty = {}, !.lost = {}]
                    /\ at' = [at EXCEPT ![h].step = "putMeta"]
                    /\ txs' = Replaced(i, <<Tx("putMeta", h, f, 0, 0)>>)
    /\ UNCHANGED <<open, machine, page, store, writer, user, failures>>

\* The mount is noted, the disks are attached and the machine runs again.
Mounted(h) ==
    /\ \E i \in 1..Len(txs) :
        /\ Finishing(h, "putMeta", i)
        /\ store' = Applied(txs[i], store)
        /\ txs' = Replaced(i, << >>)
    /\ drive' = [drive EXCEPT !.attached = TRUE]
    /\ page' = "mounted"
    /\ at' = [at EXCEPT ![h] = Idle]
    /\ machine' = Restarted(h)
    /\ UNCHANGED <<open, writer, user, failures>>

\* A handler is at an end or waits for ever, and the machine stays as it is.
Stranded == machine' = [machine EXCEPT !.stranded = ~machine.running]

\* A step fails that the bound allows to fail.
Failing ==
    /\ failures < MaxFailures
    /\ failures' = failures + 1

\* init fails before it looks at the folder: no machine is started.
StartFails ==
    /\ at["boot"].step = "start" /\ Failing
    /\ at' = [at EXCEPT !["boot"] = Idle]
    /\ Stranded
    /\ UNCHANGED <<open, drive, page, store, txs, writer, user>>

\* The bug of a failed mount that leaves the machine as it stopped it.
MountFailsStaysStopped(h) ==
    /\ Failing
    /\ \E i \in 1..Len(txs), op \in {"getMeta", "delete", "load", "putMeta"} :
        /\ Finishing(h, op, i)
        /\ txs' = Replaced(i, << >>)
    /\ at' = [at EXCEPT ![h] = Idle]
    /\ UNCHANGED <<open, drive, machine, page, store, writer, user>>

\* A transaction of mountLocal fails: overlay id and drive stay as far as they are
\* changed, the page is told nothing.  If it rejects, the machine runs again without the
\* folder; only init attaches whatever drive there is.
MountFails(h) ==
    /\ Failing
    /\ \E i \in 1..Len(txs), op \in {"getMeta", "delete", "load", "putMeta"} :
        /\ Finishing(h, op, i)
        /\ txs' = Replaced(i, << >>)
        /\ \/ /\ drive' = [drive EXCEPT !.attached = @ \/ (h = "boot" /\ drive.folder # None)]
              /\ machine' = Restarted(h)
           \/ op \in {"delete", "putMeta"} /\ Stranded /\ UNCHANGED drive
    /\ at' = [at EXCEPT ![h] = Idle]
    /\ UNCHANGED <<open, page, store, writer, user>>

----------------------------------------------------------------------------
(* disconnectLocalFolder.                                                  *)

\* Where a disconnect begins: deleting the overlays of what was mounted, if anything.
DeleteFrom(f, d) ==
    IF f # None /\ d < NDisks
    THEN /\ at' = [at EXCEPT !["disconnect"] = [Idle EXCEPT !.step = "delete", !.folder = f]]
         /\ txs' = Append(txs, Tx("delete", "disconnect", f, d, 0))
    ELSE /\ at' = [at EXCEPT !["disconnect"] = [Idle EXCEPT !.step = "deleteMeta", !.folder = f]]
         /\ txs' = Append(txs, Tx("deleteMeta", "disconnect", None, 0, 0))

MayDisconnect ==
    /\ machine.timer /\ ~Busy("disconnect") /\ user < MaxUser
    /\ page = "mounted" /\ (Impatient \/ Quiet)

\* The bug of forgetting the folder only when its overlays are gone.
DisconnectLate ==
    /\ MayDisconnect
    /\ user' = user + 1
    /\ machine' = [machine EXCEPT !.running = FALSE, !.stranded = FALSE]
    /\ drive' = [drive EXCEPT !.attached = FALSE]
    /\ DeleteFrom(drive.folder, 0)
    /\ UNCHANGED <<open, page, store, writer, failures>>

\* The drive is gone before anything is awaited.
Disconnect ==
    /\ MayDisconnect
    /\ user' = user + 1
    /\ machine' = [machine EXCEPT !.running = FALSE, !.stranded = FALSE]
    /\ drive' = NoDrive
    /\ DeleteFrom(drive.folder, 0)
    /\ UNCHANGED <<open, page, store, writer, failures>>

OverlayDeleted ==
    /\ \E i \in 1..Len(txs) :
        /\ Finishing("disconnect", "delete", i)
        /\ store' = Applied(txs[i], store)
        /\ LET next == txs[i].disk + 1
           IN  IF next < NDisks
               THEN /\ txs' = Replaced(i, <<Tx("delete", "disconnect", txs[i].folder, next, 0)>>)
                    /\ UNCHANGED at
               ELSE /\ txs' = Replaced(i, <<Tx("deleteMeta", "disconnect", None, 0, 0)>>)
                    /\ at' = [at EXCEPT !["disconnect"].step = "deleteMeta"]
    /\ UNCHANGED <<open, drive, machine, page, writer, user, failures>>

\* The page is told, and the machine runs without the folder.
Disconnected ==
    /\ \E i \in 1..Len(txs) :
        /\ Finishing("disconnect", "deleteMeta", i)
        /\ store' = Applied(txs[i], store)
        /\ txs' = Replaced(i, << >>)
    /\ page' = "none"
    /\ at' = [at EXCEPT !["disconnect"].step = "acked"]
    /\ machine' = Restarted("disconnect")
    /\ UNCHANGED <<open, drive, writer, user, failures>>

\* Nothing catches a transaction that fails: the machine stays stopped and the page
\* shows the folder as mounted, though its drive is gone.
DisconnectFails ==
    /\ Failing
    /\ \E i \in 1..Len(txs), op \in {"delete", "deleteMeta"} :
        /\ Finishing("disconnect", op, i)
        /\ txs' = Replaced(i, << >>)
    /\ at' = [at EXCEPT !["disconnect"] = Idle]
    /\ Stranded
    /\ UNCHANGED <<open, drive, page, store, writer, user>>

----------------------------------------------------------------------------
(* flush, by the timer or the page's message; one at a time is followed.   *)

\* The bug of one dirty set for all disks.
FlushFromAll(d, rest) ==
    LET dirty == {e \in drive.dirty : e >= d}
        e == CHOOSE x \in dirty : \A y \in dirty : x <= y
    IN  IF drive.folder # None /\ (d > 0 \/ drive.id # None) /\ dirty # {}
        THEN /\ drive' = [drive EXCEPT !.dirty = {}]
             /\ txs' = Append(rest, Tx("put", "flush", drive.id, e, drive.overlay[e]))
             /\ at' = [at EXCEPT !["flush"] = [Idle EXCEPT !.step = "put", !.disk = e]]
        ELSE /\ txs' = rest /\ UNCHANGED drive
             /\ at' = [at EXCEPT !["flush"] = Idle]

\* From disk d on: the first dirty disk of the drive that is mounted now goes under
\* the id of now.  Without a drive the loop ends, or throws, which ends it too.
FlushFrom(d, rest) ==
    LET dirty == {e \in drive.dirty : e >= d}
        e == CHOOSE x \in dirty : \A y \in dirty : x <= y
    IN  IF drive.folder # None /\ (d > 0 \/ drive.id # None) /\ dirty # {}
        THEN /\ drive' = [drive EXCEPT !.dirty = @ \ {e}]
             /\ txs' = Append(rest, Tx("put", "flush", drive.id, e, drive.overlay[e]))
             /\ at' = [at EXCEPT !["flush"] = [Idle EXCEPT !.step = "put", !.disk = e]]
        ELSE /\ txs' = rest /\ UNCHANGED drive
             /\ at' = [at EXCEPT !["flush"] = Idle]

\* Drive C: goes first; if it is dirty, the rest has to wait for it.
Flush ==
    /\ machine.timer /\ at["flush"].step = "idle"
    /\ \/ /\ drive.dirty # {} /\ FlushFrom(0, txs)
       \/ /\ at' = [at EXCEPT !["flush"].step = "driveC"]
          /\ txs' = Append(txs, Tx("putC", "flush", None, 0, 0))
          /\ UNCHANGED drive
    /\ UNCHANGED <<open, machine, page, store, writer, user, failures>>

Flushed ==
    /\ \E i \in 1..Len(txs), op \in {"putC", "put"} :
        /\ Finishing("flush", op, i)
        /\ store' = Applied(txs[i], store)
        /\ FlushFrom(IF op = "put" THEN txs[i].disk + 1 ELSE 0, RemoveAt(txs, i))
    /\ UNCHANGED <<open, machine, page, writer, user, failures>>

\* The flush is at an end, and the disks after this one are still dirty; what was taken
\* from this one is neither dirty nor saved, unless DOS has written it again.
FlushFails ==
    /\ Failing
    /\ \E i \in 1..Len(txs), op \in {"putC", "put"} :
        /\ Finishing("flush", op, i)
        /\ txs' = Replaced(i, << >>)
        /\ drive' = [drive EXCEPT !.lost =
               IF op = "put" /\ drive.folder = txs[i].folder
               THEN @ \union ({txs[i].disk} \ drive.dirty) ELSE @]
    /\ at' = [at EXCEPT !["flush"] = Idle]
    /\ UNCHANGED <<open, machine, page, store, writer, user>>

----------------------------------------------------------------------------
(* Running.                                                                *)

\* A tick lets the guest write to a disk of the folder.
GuestWrite(d) ==
    /\ machine.running /\ machine.ticks > 0
    /\ drive.attached /\ drive.folder # None /\ Clock < MaxWrites
    /\ drive' = [drive EXCEPT !.overlay[d] = Clock + 1, !.dirty = @ \union {d},
                              !.lost = @ \ {d}]
    /\ writer' = Append(writer, drive.folder)
    /\ UNCHANGED <<open, at, machine, page, store, txs, user, failures>>

\* A tick that finds the machine stopped schedules no other.
TickEnds ==
    /\ machine.ticks > 0 /\ ~machine.running
    /\ machine' = [machine EXCEPT !.ticks = @ - 1]
    /\ UNCHANGED <<open, at, drive, page, store, txs, writer, user, failures>>

\* The bug of a reset that leaves the scheduling to the handler it interrupts.
ResetNoSchedule ==
    /\ machine.timer /\ user < MaxUser /\ ~machine.running
    /\ user' = user + 1
    /\ machine' = [machine EXCEPT !.running = TRUE, !.stranded = FALSE]
    /\ UNCHANGED <<open, at, drive, page, store, txs, writer, failures>>

\* The user's reset starts a machine that is stopped, whoever stopped it.
Reset ==
    /\ machine.timer /\ user < MaxUser /\ ~machine.running
    /\ user' = user + 1
    /\ machine' = [machine EXCEPT !.running = TRUE, !.ticks = @ + 1, !.stranded = FALSE]
    /\ UNCHANGED <<open, at, drive, page, store, txs, writer, failures>>

ClosePage ==
    /\ open.now
    /\ open' = [open EXCEPT !.now = FALSE]
    /\ at' = [h \in Handlers |-> Idle]
    /\ drive' = NoDrive /\ machine' = Stopped /\ page' = "none" /\ txs' = << >>
    /\ UNCHANGED <<store, writer, user, failures>>

MountStep(h) ==
    \/ Scanned(h) \/ ScanFails(h) \/ GotMeta(h) \/ OldDeleted(h) \/ Loaded(h) \/ Mounted(h)

Next ==
    \/ OpenPage \/ RemountOrStart \/ ClosePage
    \/ \E h \in Mounts : MountStep(h) \/ MountFails(h)
    \/ StartFails \/ DisconnectFails \/ FlushFails
    \/ \E h \in Connects, f \in Folders : Connect(h, f)
    \/ Disconnect \/ OverlayDeleted \/ Disconnected
    \/ Flush \/ Flushed
    \/ \E d \in Disks : GuestWrite(d)
    \/ TickEnds \/ Reset

\* Handlers and transactions go on for as long as the page is open, and the flush
\* timer fires; the user and the guest owe nothing.
Fairness ==
    /\ WF_vars(RemountOrStart) /\ \A h \in Mounts : WF_vars(MountStep(h))
    /\ WF_vars(OverlayDeleted) /\ WF_vars(Disconnected)
    /\ SF_vars(Flush /\ drive.dirty # {}) /\ WF_vars(Flushed)
    /\ WF_vars(TickEnds)

Spec == Init /\ [][Next]_vars /\ Fairness

----------------------------------------------------------------------------
MaybeFolder == Folders \union {None}
Contents == [Disks -> 0..MaxWrites]

TypeOK ==
    /\ open \in [now : BOOLEAN, times : 0..MaxOpens]
    /\ at \in [Handlers -> [step : {"idle", "start", "scan", "getMeta", "delete", "load",
                                    "putMeta", "deleteMeta", "acked", "driveC", "put"},
                            folder : MaybeFolder, disk : Disks, overlay : Contents]]
    /\ drive \in [folder : MaybeFolder, overlay : Contents, dirty : SUBSET Disks,
                  id : MaybeFolder, attached : BOOLEAN, lost : SUBSET Disks]
    /\ machine \in [running : BOOLEAN, timer : BOOLEAN, ticks : Nat, stranded : BOOLEAN]
    /\ page \in {"none", "mounted"}
    /\ store \in [meta : MaybeFolder, overlays : [Folders -> Contents]]
    /\ writer \in Seq(Folders) /\ Len(writer) <= MaxWrites /\ user \in 0..MaxUser
    /\ failures \in 0..MaxFailures

\* A disk's overlay contains what DOS wrote to the same folder, in the database and
\* in the drive that is mounted, however mounts, flushes and disconnects overlap.
OverlaysAreTheirFolders ==
    /\ \A f \in Folders, d \in Disks :
           store.overlays[f][d] # 0 => writer[store.overlays[f][d]] = f
    /\ \A d \in Disks : drive.overlay[d] # 0 => writer[drive.overlay[d]] = drive.folder

\* The content a disk's overlay will have once the waiting transactions are done.
Puts(f, d) == {i \in 1..Len(txs) : txs[i].op \in {"put", "delete"}
                                   /\ txs[i].folder = f /\ txs[i].disk = d}
Settling(f, d) ==
    IF Puts(f, d) = {} THEN store.overlays[f][d]
    ELSE txs[CHOOSE i \in Puts(f, d) : \A j \in Puts(f, d) : j <= i].data

\* What is not marked dirty is saved or on its way, for the drive that is attached, but
\* for what a failed transaction took down: also right after a mount, so nothing saved
\* was left out of it, and after any flush that failed half-way.
CleanIsSaved ==
    drive.attached =>
        \A d \in Disks \ (drive.dirty \union drive.lost) :
            Settling(drive.folder, d) = drive.overlay[d]

\* When the page is told that the folder is disconnected nothing of its overlays is
\* left, nor is written any more, whatever flush was under way.
ForgottenIsGone ==
    at["disconnect"].step = "acked" =>
        /\ store.meta = None
        /\ at["disconnect"].folder # None => store.overlays[at["disconnect"].folder] = Blank

\* A machine that runs has a tick scheduled, or it would stand still without anyone
\* having stopped it.
RunningHasTick == machine.running => machine.ticks > 0

\* The handlers leave the drive, the database and the machine in step: the types,
\* ForgottenIsGone and RunningHasTick.
Consistent == TypeOK /\ ForgottenIsGone /\ RunningHasTick

\* What DOS writes to a folder is saved unless the page closes, the user disconnects
\* the folder or the transaction fails that was to save it.  The failure of another one
\* delays it only.
WritesAreSaved ==
    \A d \in Disks, v \in 1..MaxWrites :
        (drive.attached /\ drive.overlay[d] = v) ~>
            \/ \E f \in Folders : store.overlays[f][d] >= v
            \/ drive.folder = None
            \/ d \in drive.lost

\* Whatever the user does with folders, and whichever transaction of a mount rejects, the
\* machine runs again in the end: unless init fails, a disconnect does, or the database
\* aborts a mount's transaction without a word.
RunsAgain == open.now ~> (machine.running \/ ~open.now \/ machine.stranded)
=============================================================================
