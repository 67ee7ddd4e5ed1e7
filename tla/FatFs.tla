-------------------------------- MODULE FatFs --------------------------------
(***************************************************************************)
(* Importing programs into drive C:: the FAT driver of web/fatfs.ts and    *)
(* importInto of web/worker.ts, which writes the files of an archive to    *)
(* GAMES\<name> with it.                                                   *)
(*                                                                         *)
(* The driver keeps the FAT in memory until flush(); file contents and     *)
(* directory entries go to the drive at once.  An exception half way drops *)
(* the FAT in memory and leaves the rest where it is.                      *)
(*                                                                         *)
(* Operators on a volume give a result: the volume, whether they returned  *)
(* or threw, and what they returned.                                       *)
(***************************************************************************)
EXTENDS Naturals, Sequences, FiniteSets, SequencesExt, FiniteSetsExt

CONSTANTS
    N,          \* clusters of the volume
    RootSlots,  \* entries of the root directory
    DirSlots,   \* entries of a cluster of a directory
    Volumes,    \* how the drive may be filled: sequences of [name, size]
    Programs,   \* names of the programs that may be imported
    DirPaths,   \* paths of directories in their archives: sequences of names
    FileNames,  \* names of files in their archives
    Sizes,      \* sizes of files, in half clusters
    Games,      \* the name GAMES
    MaxFiles,   \* bound: files that imports write in all
    MaxImports, \* bound: imports
    MaxDeletes, \* bound: files that DOS deletes
    GoesOn      \* does the user import again after an import that failed?

ASSUME SizeAssumption == N \in Nat \ {0} /\ RootSlots \in Nat /\ DirSlots \in Nat \ 0..2
ASSUME PathAssumption ==
    /\ IsFiniteSet(DirPaths)
    /\ \A path \in DirPaths : path \in Seq({path[i] : i \in DOMAIN path})
ASSUME FileAssumption ==
    /\ Sizes \subseteq Nat
    /\ \A files \in Volumes : /\ files \in Seq({files[i] : i \in DOMAIN files})
                              /\ \A i \in DOMAIN files : files[i].size \in Nat
DirNames == {Games} \union Programs \union UNION {{path[i] : i \in DOMAIN path} : path \in DirPaths}
AllNames == DirNames \union FileNames
            \union UNION {{files[i].name : i \in DOMAIN files} : files \in Volumes}
\* Archives whose paths hold "." or ".." are left out.
ASSUME NameAssumption ==
    /\ Games.kind = "plain"
    /\ \A name \in AllNames : name.stem \notin {".", ".."}
ASSUME BoundAssumption == {MaxFiles, MaxImports, MaxDeletes} \subseteq Nat /\ GoesOn \in BOOLEAN

VARIABLES
    vol,       \* the volume as the program sees it: fat, hint, content
    savedFat,  \* the FAT on the drive
    job,       \* importInto
    found,     \* what can be found on the volume, for the refinement
    count      \* files written, imports started, files deleted

fatVars == <<vol, savedFat, job, found, count>>

Clusters == 2..(N + 1)
Root == 0     \* the root directory, as a directory's cluster number
Free == 0
Eoc == N + 2  \* the end of a chain

----------------------------------------------------------------------------
(* Results.                                                                *)

Returned(v, got) == [vol |-> v, ok |-> TRUE, got |-> got]
Thrown(v) == [vol |-> v, ok |-> FALSE, got |-> 0]
Then(r, Op(_, _)) == IF r.ok THEN Op(r.vol, r.got) ELSE r

----------------------------------------------------------------------------
(* Clusters.  A cluster of a directory has entries, one of a file a piece. *)

Entry(kind, name, first, size) == [kind |-> kind, name |-> name, first |-> first, size |-> size]
Never == Entry("never", <<"", 0>>, 0, 0)
Deleted == Entry("deleted", <<"", 0>>, 0, 0)
Holding(entries, piece) == [entries |-> entries, piece |-> piece]
NoPiece == <<0, 0>>
Zeroed == Holding([i \in 1..DirSlots |-> Never], NoPiece)
Piece(version, i) == Holding([s \in 1..DirSlots |-> Never], <<version, i>>)
Pieces(size) == (size + 1) \div 2

\* The clusters of the chain that begins at first.
Chain(v, first) ==
    LET longer(chain) ==
            LET c == IF chain = << >> THEN first ELSE v.fat[Last(chain)]
            IN  IF c \in Clusters THEN Append(chain, c) ELSE chain
        upTo[n \in 0..N] == IF n = 0 THEN << >> ELSE longer(upTo[n - 1])
    IN  upTo[N]

FreeClusters(v) == {c \in Clusters : v.fat[c] = Free}

\* The first place of a sequence at which one of these is found, << >> if nowhere.
FirstOf(order, some) ==
    LET at == {i \in DOMAIN order : order[i] \in some}
    IN  IF at = {} THEN << >> ELSE <<order[Min(at)]>>

\* The first free cluster met is given out, as the end of a chain.
GivenOut(v, free) ==
    IF free = << >> THEN Thrown(v)
    ELSE Returned([v EXCEPT !.hint = Head(free) + 1, !.fat[Head(free)] = Eoc], Head(free))

\* The bug of a search that does not wrap around.
AllocClusterNoWrap(v) ==
    GivenOut(v, FirstOf([i \in 1..N |-> v.hint + i - 1], FreeClusters(v)))

\* The next free cluster after the last one given out.
AllocCluster(v) ==
    GivenOut(v, FirstOf([i \in 1..N |-> 2 + ((v.hint + i - 3) % N)], FreeClusters(v)))

FreeChain(v, first) ==
    [v EXCEPT !.fat = [c \in DOMAIN @ |-> IF c \in ToSet(Chain(v, first)) THEN Free ELSE @[c]]]

----------------------------------------------------------------------------
(* Directories.                                                            *)

\* The places of a directory's entries.
PlacesIn(chain) ==
    [i \in 1..(Len(chain) * DirSlots) |->
        <<chain[((i - 1) \div DirSlots) + 1], ((i - 1) % DirSlots) + 1>>]
Places(v, dir) ==
    IF dir = Root THEN [i \in 1..RootSlots |-> <<Root, i>>] ELSE PlacesIn(Chain(v, dir))
EntryAt(v, place) == v.content[place[1]].entries[place[2]]

\* The places of the entries in use, which end at the first one never used.
InUse(v, places) ==
    {places[i] : i \in {j \in DOMAIN places :
                            /\ EntryAt(v, places[j]).kind # "deleted"
                            /\ \A k \in 1..j : EntryAt(v, places[k]).kind # "never"}}
List(v, dir) == InUse(v, Places(v, dir))

\* A name is [stem, kind]: a plain one is an 8.3 name as it stands, a changed one
\* becomes its stem, a long one its stem cut short and numbered.  A name on the
\* drive is a stem and the number after its "~", 0 for none.
IsName(name, on) == name.kind = "plain" /\ on = <<name.stem, 0>>
Taken(v, dir) == {EntryAt(v, p).name : p \in List(v, dir)}
ShortName(name, taken) ==
    LET fits == name.kind # "long" /\ <<name.stem, 0>> \notin taken
        untaken == {n \in 1..(Cardinality(taken) + 1) : <<name.stem, n>> \notin taken}
    IN  <<name.stem, IF fits THEN 0 ELSE Min(untaken)>>

\* The place of the entry of that kind and name, << >> if there is none.
Existing(v, dir, name, kind) ==
    FirstOf(Places(v, dir), {p \in List(v, dir) : EntryAt(v, p).kind = kind
                                                   /\ IsName(name, EntryAt(v, p).name)})

\* The first entry that may be used for a new one, << >> if there is none.
OpenPlace(v, dir) ==
    LET places == Places(v, dir)
    IN  FirstOf(places, {p \in ToSet(places) : EntryAt(v, p).kind \in {"never", "deleted"}})

\* The bug of a directory whose new cluster is not linked to the others.
FreeSlotNotLinked(v, dir) ==
    LET grown(w, c) == Returned([w EXCEPT !.content[c] = Zeroed], <<c, 1>>)
        slot(open) == IF open # << >> THEN Returned(v, Head(open))
                      ELSE IF dir = Root THEN Thrown(v) ELSE Then(AllocCluster(v), grown)
    IN  slot(OpenPlace(v, dir))

\* A place for a new entry; a directory other than the root grows by a cluster.
\* The walk to its last cluster ends at FAT entry 0 when it meets a free cluster.
FreeSlot(v, dir) ==
    LET end(c) == IF v.fat[c] = Free THEN 0 ELSE c
        grown(w, c) == Returned([w EXCEPT !.fat[end(Last(Chain(v, dir)))] = c,
                                          !.content[c] = Zeroed], <<c, 1>>)
        slot(open) == IF open # << >> THEN Returned(v, Head(open))
                      ELSE IF dir = Root THEN Thrown(v) ELSE Then(AllocCluster(v), grown)
    IN  slot(OpenPlace(v, dir))

WriteEntry(v, place, entry) == [v EXCEPT !.content[place[1]].entries[place[2]] = entry]

Dots(c, parent) ==
    [i \in 1..DirSlots |-> CASE i = 1 -> Entry("dir", <<".", 0>>, c, 0)
                             [] i = 2 -> Entry("dir", <<"..", 0>>, parent, 0)
                             [] OTHER -> Never]

\* A directory that is there is used; a new one gets its cluster before its entry.
Mkdir(v, dir, name) ==
    LET entered(w, c, short) ==
            Then(FreeSlot([w EXCEPT !.content[c] = Zeroed], dir),
                 LAMBDA x, place :
                    Returned([WriteEntry(x, place, Entry("dir", short, c, 0))
                                 EXCEPT !.content[c].entries = Dots(c, dir)], c))
        made(there) ==
            IF there # << >> THEN Returned(v, EntryAt(v, Head(there)).first)
            ELSE Then(AllocCluster(v), LAMBDA w, c : entered(w, c, ShortName(name, Taken(v, dir))))
    IN  made(Existing(v, dir, name, "dir"))

----------------------------------------------------------------------------
(* Files.                                                                  *)

\* The clusters of a new file, linked and written one after the other.
WithPieces(v, n, version) ==
    LET linked(r, w, c, i) ==
            [vol |-> [w EXCEPT !.fat = IF r.last = 0 THEN @ ELSE [@ EXCEPT ![r.last] = c],
                               !.content[c] = Piece(version, i)],
             first |-> IF r.first = 0 THEN c ELSE r.first, last |-> c]
        add(r, a, i) == linked(r, a.vol, a.got, i)
        with[i \in 0..n] == IF i = 0 THEN [vol |-> v, first |-> 0, last |-> 0]
                            ELSE add(with[i - 1], AllocCluster(with[i - 1].vol), i)
    IN  with[n]

\* The file's entry, where the old one was or where there is a place.
Entered(new, dir, old, short, size) ==
    LET enter(w, place) ==
            Returned(WriteEntry(w, place, Entry("file", short, new.first, size)), short)
    IN  IF old # << >> THEN enter(new.vol, Head(old)) ELSE Then(FreeSlot(new.vol, dir), enter)

\* writeFile when the old entry, if any, is known and its chain is free.
NewFile(v, dir, old, name, size, version) ==
    IF Pieces(size) > Cardinality(FreeClusters(v)) THEN Thrown(v)
    ELSE Entered(WithPieces(v, Pieces(size), version), dir, old,
                 IF old # << >> THEN EntryAt(v, Head(old)).name ELSE ShortName(name, Taken(v, dir)),
                 size)

\* The bug of leaving the replaced file's clusters allocated.
WriteFileLeaks(v, dir, name, size, version) ==
    NewFile(v, dir, Existing(v, dir, name, "file"), name, size, version)

\* Create or replace a file: the old chain is freed before it is known whether the
\* new one fits, and the pieces are on the drive before the entry.
WriteFile(v, dir, name, size, version) ==
    LET freed(old) == IF old # << >> THEN FreeChain(v, EntryAt(v, Head(old)).first) ELSE v
        written(old) == NewFile(freed(old), dir, old, name, size, version)
    IN  written(Existing(v, dir, name, "file"))

----------------------------------------------------------------------------
(* What is on the volume.                                                  *)

ReadFile(v, entry) ==
    LET read(chain) ==
            [i \in 1..Min({Len(chain), Pieces(entry.size)}) |-> v.content[chain[i]].piece]
    IN  read(Chain(v, entry.first))

Names == {"", ".", ".."} \union {name.stem : name \in AllNames}
OnDrive == Names \X (0..((N * DirSlots) + RootSlots + 1))
\* Directories are nested no deeper.
Depth == 2 + Max({0} \union {Len(path) : path \in DirPaths})

\* Every entry that can be reached from the root, with its path.
Tree(v) ==
    LET Nodes(dir, path) ==
            {[path |-> Append(path, EntryAt(v, p).name), in |-> dir, entry |-> EntryAt(v, p)] :
                p \in {q \in List(v, dir) : EntryAt(v, q).name[1] \notin {".", ".."}}}
        level[n \in 0..Depth] ==
            IF n = 0 THEN Nodes(Root, << >>)
            ELSE UNION {Nodes(m.entry.first, m.path) :
                           m \in {above \in level[n - 1] : above.entry.kind = "dir"}}
    IN  UNION {level[n] : n \in 0..Depth}

Files(v) ==
    {[path |-> node.path, size |-> node.entry.size, data |-> ReadFile(v, node.entry)] :
        node \in {m \in Tree(v) : m.entry.kind = "file"}}

\* What is found on a volume: the files, and the paths of those just put there.
Found(v, placed) ==
    [files |-> Files(v),
     touched |-> IF placed = {} THEN {}
                 ELSE {node.path : node \in {m \in Tree(v) : \E p \in placed :
                                               p.dir = m.in /\ p.short = m.entry.name}}]

----------------------------------------------------------------------------
(* importInto, which nothing interrupts between mount() and flush().       *)

NoJob == [step |-> "idle", dir |-> Root, known |-> {}, placed |-> {}, needed |-> 0]

\* A new volume: what is in its root, besides GAMES.
Formatted ==
    [fat |-> [c \in 0..(N + 1) |-> IF c < 2 THEN Eoc ELSE Free], hint |-> 2,
     content |-> [c \in 0..(N + 1) |->
                     IF c = Root THEN Holding([i \in 1..RootSlots |-> Never], NoPiece) ELSE Zeroed]]
Filled(files) ==
    LET put(v, file) == WriteFile(v, Root, file.name, file.size, 0)
        with[i \in 0..Len(files)] ==
            IF i = 0 THEN Returned(Formatted, 0)
            ELSE IF with[i - 1].ok THEN put(with[i - 1].vol, files[i]) ELSE with[i - 1]
    IN  with[Len(files)]

FatInit ==
    /\ \E files \in Volumes :
       \E filled \in {Filled(files)} :
       \E games \in {Mkdir(filled.vol, Root, Games)} :
          filled.ok /\ (vol = filled.vol \/ (games.ok /\ vol = games.vol))
    /\ savedFat = vol.fat /\ job = NoJob /\ found = Found(vol, {})
    /\ count = [files |-> 0, imports |-> 0, deletes |-> 0]

\* mount() reads the FAT; what a job that threw had in memory is gone.
Mounted == [vol EXCEPT !.fat = savedFat, !.hint = 2]
Dropped(v) == [v EXCEPT !.fat = savedFat]

StartImport(program) ==
    /\ job.step = "idle" \/ (GoesOn /\ job.step = "failed")
    /\ count.imports < MaxImports
    /\ count' = [count EXCEPT !.imports = @ + 1]
    /\ \E r \in {Then(Mkdir(Mounted, Root, Games), LAMBDA v, games : Mkdir(v, games, program))} :
          IF r.ok
          THEN /\ vol' = r.vol
               /\ job' = [NoJob EXCEPT !.step = "copying", !.dir = r.got]
          ELSE /\ vol' = Dropped(r.vol)
               /\ job' = [NoJob EXCEPT !.step = "failed", !.needed = 3]
    /\ found' = Found(vol', {})
    /\ UNCHANGED savedFat

\* A directory of the archive is looked up among those this job has made or met
\* before it is made.
Remembered(known, path) == {k \in known : k.path = path}

\* The bug of remembering directories by their last name alone.
InDirLastName(v, path) ==
    LET enter(r, key, was) ==
            IF was # {} THEN Returned(r.vol, [r.got EXCEPT !.dir = (CHOOSE k \in was : TRUE).dir])
            ELSE Then(Mkdir(r.vol, r.got.dir, Last(key)),
                      LAMBDA w, d : Returned(w, [dir |-> d,
                         known |-> r.got.known \union {[path |-> key, dir |-> d]}]))
        step(r, key) == IF r.ok THEN enter(r, key, Remembered(r.got.known, key)) ELSE r
        after[i \in 0..Len(path)] ==
            IF i = 0 THEN Returned(v, [dir |-> job.dir, known |-> job.known])
            ELSE step(after[i - 1], <<path[i]>>)
    IN  after[Len(path)]

InDir(v, path) ==
    LET enter(r, key, was) ==
            IF was # {} THEN Returned(r.vol, [r.got EXCEPT !.dir = (CHOOSE k \in was : TRUE).dir])
            ELSE Then(Mkdir(r.vol, r.got.dir, Last(key)),
                      LAMBDA w, d : Returned(w, [dir |-> d,
                         known |-> r.got.known \union {[path |-> key, dir |-> d]}]))
        step(r, key) == IF r.ok THEN enter(r, key, Remembered(r.got.known, key)) ELSE r
        after[i \in 0..Len(path)] ==
            IF i = 0 THEN Returned(v, [dir |-> job.dir, known |-> job.known])
            ELSE step(after[i - 1], SubSeq(path, 1, i))
    IN  after[Len(path)]

ImportFile(path, name, size) ==
    /\ job.step = "copying" /\ count.files < MaxFiles
    /\ count' = [count EXCEPT !.files = @ + 1]
    /\ \E at \in {InDir(vol, path)} :
       \E r \in {Then(at, LAMBDA v, got : WriteFile(v, got.dir, name, size, count.files + 1))} :
          IF r.ok
          THEN /\ vol' = r.vol
               /\ job' = [job EXCEPT !.known = at.got.known,
                             !.placed = @ \union {[path |-> path, dir |-> at.got.dir, short |-> r.got]}]
          ELSE /\ vol' = Dropped(r.vol)
               /\ job' = [NoJob EXCEPT !.step = "failed",
                                       !.needed = Pieces(size) + (2 * Len(path)) + 1]
    /\ found' = Found(vol', job'.placed)
    /\ UNCHANGED savedFat

\* flush() writes every copy of the FAT.
Flushed == vol.fat

\* The import is done; the handler stores the drive and reboots, and DOS reads what
\* is on the drive.
Finish ==
    /\ job.step = "copying"
    /\ LET v == [vol EXCEPT !.fat = Flushed]
       IN  savedFat' = v.fat /\ vol' = v /\ found' = Found(v, {})
    /\ job' = NoJob
    /\ UNCHANGED count

\* Between imports DOS deletes a file.  What else it does is not modelled.
DosDelete(place) ==
    /\ job.step = "idle" /\ count.deletes < MaxDeletes
    /\ EntryAt(vol, place).kind = "file"
    /\ count' = [count EXCEPT !.deletes = @ + 1]
    /\ LET v == WriteEntry(FreeChain(vol, EntryAt(vol, place).first), place, Deleted)
       IN  vol' = v /\ savedFat' = v.fat /\ found' = Found(v, {})
    /\ UNCHANGED job

Slots == {<<Root, i>> : i \in 1..RootSlots} \union (Clusters \X (1..DirSlots))

FatNext ==
    \/ \E program \in Programs : StartImport(program)
    \/ \E path \in DirPaths, name \in FileNames, size \in Sizes : ImportFile(path, name, size)
    \/ Finish
    \/ \E place \in Slots : DosDelete(place)

FatSpec == FatInit /\ [][FatNext]_fatVars

----------------------------------------------------------------------------
AllSizes == Sizes \union UNION {{files[i].size : i \in DOMAIN files} : files \in Volumes}
Fats == [0..(N + 1) -> 0..Eoc]

FatTypeOK ==
    /\ vol.fat \in Fats /\ savedFat \in Fats
    /\ vol.hint \in Clusters \union {Eoc}
    /\ \A place \in Slots :
          LET e == EntryAt(vol, place)
          IN  /\ e.kind \in {"never", "deleted", "file", "dir"}
              /\ e.name \in OnDrive
              /\ e.first \in {0} \union Clusters
              /\ e.size \in {0} \union AllSizes
    /\ job.step \in {"idle", "copying", "failed"} /\ job.dir \in {Root} \union Clusters
    /\ count \in [files : 0..MaxFiles, imports : 0..MaxImports, deletes : 0..MaxDeletes]

\* No two files or directories share a cluster, and every chain ends properly and
\* is as long as its file, whatever was replaced, deleted, grown or fragmented.
NoSharedClusters ==
    job.step # "failed" =>
        LET nodes == Tree(vol)
        IN  /\ \A m \in nodes :
                  LET chain == Chain(vol, m.entry.first)
                  IN  /\ chain # << >> => vol.fat[Last(chain)] = Eoc
                      /\ m.entry.kind = "file" => Len(chain) = Pieces(m.entry.size)
            /\ \A m, n \in nodes :
                  m = n \/ ToSet(Chain(vol, m.entry.first)) \intersect
                           ToSet(Chain(vol, n.entry.first)) = {}

\* Every cluster that is not free belongs to a file or a directory: replacing and
\* deleting files loses no space, and CHKDSK finds no lost clusters.
NothingLost ==
    job.step # "failed" =>
        Clusters \ FreeClusters(vol) =
            UNION {ToSet(Chain(vol, m.entry.first)) : m \in Tree(vol)}

\* The FAT and the directories describe one volume: the types, NoSharedClusters and
\* NothingLost.
VolumeSound == FatTypeOK /\ NoSharedClusters /\ NothingLost

\* The files of an archive are together on the drive exactly if they are together
\* in the archive, also when the names of their directories had to be shortened.
PlacedTogether ==
    \A p, q \in job.placed : p.path = q.path <=> p.dir = q.dir

\* An import fails only for want of space: when a file, with the directories it
\* needs, does not fit into the free clusters, or the root directory is full.
FailsOnlyWhenFull ==
    [][job'.step = "failed" /\ job.step # "failed" =>
          \/ Cardinality(FreeClusters(vol)) < job'.needed
          \/ \A i \in 1..RootSlots : EntryAt(vol, <<Root, i>>).kind \in {"file", "dir"}]_fatVars

\* Whatever an import does in clusters and entries, it creates or replaces one file
\* at a time with what the archive holds and leaves every other file as it was, and
\* one that throws half way has neither lost nor changed a file it had not put.
ImplementsFileTree == INSTANCE FileTree
    WITH files <- found.files, touched <- found.touched,
         written <- count.files, failed <- job.step = "failed"
ImplementsTree == ImplementsFileTree!Spec
=============================================================================
