------------------------- MODULE GamesFolderProofs -------------------------
(***************************************************************************)
(* Proofs about the games folder.  Its drive: for every layout of files,   *)
(* every size of block, read-ahead and cache, and calls nested to any      *)
(* depth.  Its handlers: for any folders, number of disks, connect         *)
(* messages, writes and page openings, and any overlap of mounts,          *)
(* disconnects, flushes, resets and closings, as long as the user connects *)
(* a folder only while no other handler is at work with one.               *)
(***************************************************************************)
EXTENDS GamesDrive, GamesMount, FiniteSetTheorems, SequenceTheorems,
        WellFoundedInduction, TLAPS

----------------------------------------------------------------------------
(* Numbers, sequences and the queue of transactions.                       *)

LEMMA FirstOfMany ==
    ASSUME NEW T \in SUBSET Nat, T # {}
    PROVE  \E x \in T : \A y \in T : x <= y
<1>1. PICK x \in T : \A y \in T : <<y, x>> \notin OpToRel(<, Nat)
  BY WFMin, NatLessThanWellFounded
<1>2. \A y \in T : ~(y < x)
  BY <1>1 DEF OpToRel
<1>. QED  BY <1>2

LEMMA RemoveAtElements ==
    ASSUME NEW S, NEW s \in Seq(S), NEW i \in 1..Len(s)
    PROVE  /\ RemoveAt(s, i) \in Seq(S)
           /\ Len(RemoveAt(s, i)) = Len(s) - 1
           /\ \A j \in 1..(Len(s) - 1) : RemoveAt(s, i)[j] = s[IF j < i THEN j ELSE j + 1]
<1> DEFINE a == SubSeq(s, 1, i - 1)
           b == SubSeq(s, i + 1, Len(s))
<1>1. Len(s) \in Nat /\ i \in 1..Len(s) /\ \A j \in 1..Len(s) : s[j] \in S
  OBVIOUS
<1>2. a \in Seq(S) /\ Len(a) = i - 1 /\ \A j \in 1..(i - 1) : a[j] = s[j]
  BY <1>1
<1>3. b \in Seq(S) /\ Len(b) = Len(s) - i /\ \A j \in 1..(Len(s) - i) : b[j] = s[i + j]
  BY <1>1
<1> HIDE DEF a, b
<1>4. /\ a \o b \in Seq(S) /\ Len(a \o b) = Len(s) - 1
      /\ \A j \in 1..(Len(s) - 1) : (a \o b)[j] = IF j < i THEN a[j] ELSE b[j - (i - 1)]
  <2>1. /\ a \o b \in Seq(S) /\ Len(a \o b) = Len(a) + Len(b)
        /\ \A j \in 1..(Len(a) + Len(b)) : (a \o b)[j] = IF j <= Len(a) THEN a[j] ELSE b[j - Len(a)]
    BY <1>2, <1>3, ConcatProperties
  <2>. QED  BY <2>1, <1>1, <1>2, <1>3
<1>5. ASSUME NEW j \in 1..(Len(s) - 1)
      PROVE  (a \o b)[j] = s[IF j < i THEN j ELSE j + 1]
  <2>1. CASE j < i
    BY <2>1, <1>1, <1>2, <1>4
  <2>2. CASE i <= j
    <3>1. PICK x \in 1..(Len(s) - i) : x = j - (i - 1) /\ i + x = j + 1
      BY <2>2, <1>1
    <3>2. (a \o b)[j] = b[x]
      BY <3>1, <2>2, <1>1, <1>4
    <3>3. b[x] = s[j + 1]
      BY <3>1, <1>3
    <3>. QED  BY <3>2, <3>3, <2>2, <1>1
  <2>3. j < i \/ i <= j
    BY <1>1
  <2>. QED  BY <2>1, <2>2, <2>3
<1>6. RemoveAt(s, i) = a \o b
  BY DEF RemoveAt, a, b
<1>. QED  BY <1>4, <1>5, <1>6

----------------------------------------------------------------------------
(* GamesDrive.                                                             *)

\* The invariant of the refinement: what waits is a sequence of requests.  Nothing has to
\* be known of the cache, as a read looks at it and at the overlay in one step.
CallsAreRequests == calls \in Seq(Requests)

(* A file's sectors are sectors of the disk, and so are the bad ones.      *)
LEMMA FileSectors ==
    /\ DOMAIN BlockOf \subseteq Sectors
    /\ Bad \subseteq Sectors
<1>1. DOMAIN BlockOf = DOMAIN FileOf
  BY DEF BlockOf
<1>2. DOMAIN FileOf \subseteq Sectors
  BY DEF FileOf
<1>. QED  BY <1>1, <1>2 DEF Bad

(* A read that is done copies the overlay's content, 0 where it has none:  *)
(* no sector of it is bad.                                                 *)
LEMMA DoneIsAnswered ==
    ASSUME NEW r \in Requests, Status(r) = "done"
    PROVE  Reply(r, "read", Data(r)) = Disk!Answer(r)
<1>1. r \subseteq Sectors /\ Needed(r) \intersect errors = {} /\ Needed(r) \subseteq Cached
  BY DEF Status
<1>2. ASSUME NEW s \in r, s \in DOMAIN BlockOf, overlay[s] = 0
      PROVE  BlockOf[s] \in Needed(r)
  BY <1>2 DEF Needed
<1>3. r \subseteq Sectors \ Bad
  BY <1>1, <1>2 DEF Bad
<1>4. \A s \in r : overlay[s] = 0 /\ s \in DOMAIN BlockOf => BlockOf[s] \in Cached
  BY <1>1, <1>2
<1>5. Data(r) = [s \in r |-> overlay[s]]
  BY <1>4 DEF Data
<1>. QED  BY <1>3, <1>5 DEF Disk!Answer, Disk!Reply, Reply

(* A read that fails has a bad sector, or one beyond the end.              *)
LEMMA ErrorIsAnswered ==
    ASSUME NEW r \in Requests, Status(r) = "error"
    PROVE  Reply(r, "error", NoData) = Disk!Answer(r)
<1>1. ~ r \subseteq Sectors \/ Needed(r) \intersect errors # {}
  BY DEF Status
<1>2. ~ r \subseteq Sectors \ Bad
  <2>1. CASE ~ r \subseteq Sectors
    BY <2>1
  <2>2. CASE Needed(r) \intersect errors # {}
    <3>1. PICK s \in r \intersect DOMAIN BlockOf : overlay[s] = 0 /\ BlockOf[s] \in errors
      BY <2>2 DEF Needed
    <3>. QED  BY <3>1 DEF Bad
  <2>. QED  BY <1>1, <2>1, <2>2
<1>. QED  BY <1>2 DEF Disk!Answer, Disk!Reply, Reply, NoData, Disk!NoData

(* INT 13h: it waits, or it is answered at once.                           *)
LEMMA Int13 ==
    ASSUME NEW r \in Requests, NEW waiting, Int13Read(r, waiting)
    PROVE  /\ Bad' = Bad /\ overlay' = overlay
           /\ \/ calls' = Append(waiting, r) /\ reply' = reply
              \/ calls' = waiting /\ reply' = Disk!Answer(r)
<1>1. Bad' = Bad /\ overlay' = overlay
  BY DEF Int13Read, Bad
<1>2. CASE Status(r) = "pending"
  BY <1>1, <1>2 DEF Int13Read
<1>3. CASE Status(r) = "done"
  BY <1>1, <1>3, DoneIsAnswered DEF Int13Read
<1>4. CASE Status(r) = "error"
  BY <1>1, <1>4, ErrorIsAnswered DEF Int13Read
<1>5. Status(r) \in {"pending", "done", "error"}
  BY DEF Status
<1>. QED  BY <1>2, <1>3, <1>4, <1>5

(* The call that is tried again is the last of those that wait.            *)
LEMMA LastWaits ==
    ASSUME CallsAreRequests, calls # << >>
    PROVE  /\ Last(calls) \in Requests /\ Front(calls) \in Seq(Requests)
           /\ Append(Front(calls), Last(calls)) = calls
<1>1. calls \in Seq(Requests) /\ Len(calls) \in Nat /\ Len(calls) # 0
  BY DEF CallsAreRequests
<1>2. Len(calls) \in 1..Len(calls)
  BY <1>1
<1>. QED  BY <1>1, <1>2 DEF Last, Front

(* Every step keeps the invariant.                                         *)
LEMMA CallsInductive == DriveSpec => []CallsAreRequests
<1>1. DriveInit => CallsAreRequests
  BY DEF DriveInit, CallsAreRequests
<1>2. CallsAreRequests /\ [DriveNext]_driveVars => CallsAreRequests'
  <2>. SUFFICES ASSUME CallsAreRequests, [DriveNext]_driveVars PROVE CallsAreRequests'
    OBVIOUS
  <2>1. ASSUME NEW r \in Requests, Read(r) PROVE CallsAreRequests'
    <3>1. calls' = Append(calls, r) \/ calls' = calls
      BY <2>1, Int13 DEF Read
    <3>. QED  BY <3>1 DEF CallsAreRequests
  <2>2. CASE Retry
    <3>1. calls' = Append(Front(calls), Last(calls)) \/ calls' = Front(calls)
      BY <2>2, Int13, LastWaits DEF Retry
    <3>. QED  BY <2>2, <3>1, LastWaits DEF CallsAreRequests, Retry
  <2>3. CASE ResetCalls
    BY <2>3 DEF ResetCalls, CallsAreRequests
  <2>4. ASSUME UNCHANGED calls PROVE CallsAreRequests'
    BY <2>4 DEF CallsAreRequests
  <2>. QED
    BY <2>1, <2>2, <2>3, <2>4
    DEF DriveNext, driveVars, Write, Wake, Arrives, ReadFails
<1>. QED  BY <1>1, <1>2, PTL DEF DriveSpec

(* The initial state is one of the disk's.                                 *)
LEMMA DriveInitMaps == DriveInit => Disk!Init
BY DEF DriveInit, Disk!Init, NoReply, Disk!NoReply, Reply, Disk!Reply, NoData, Disk!NoData, Bad

(* A write takes effect at once, and heals what it overwrites.             *)
LEMMA WriteMaps ==
    ASSUME NEW r \in Requests, NEW v \in 1..MaxVersions, Write(r, v)
    PROVE  Disk!Write(r, v)
<1>1. CASE r \subseteq Sectors
  <2>1. overlay' = [s \in Sectors |-> IF s \in r THEN v ELSE overlay[s]] /\ errors' = errors
    BY <1>1 DEF Write
  <2>2. Bad' = Bad \ r
    BY <2>1, FileSectors, DriveSizes DEF Bad
  <2>. QED
    BY <1>1, <2>1, <2>2 DEF Write, Disk!Write, Reply, Disk!Reply, NoData, Disk!NoData
<1>2. CASE ~ r \subseteq Sectors
  BY <1>2 DEF Write, Disk!Write, Reply, Disk!Reply, NoData, Disk!NoData, Bad
<1>. QED  BY <1>1, <1>2

(* Every step of the drive is a step of the disk, or none.                 *)
LEMMA StepMaps ==
    ASSUME CallsAreRequests, [DriveNext]_driveVars
    PROVE  [Disk!Next]_(Disk!vars)
<1>1. ASSUME NEW r \in Requests, Read(r)
      PROVE  Disk!Ask(r) \/ Disk!ReadAtOnce(r)
  BY <1>1, Int13 DEF Read, Disk!Ask, Disk!ReadAtOnce
<1>2. CASE Retry
  <2>1. CASE calls' = Append(Front(calls), Last(calls)) /\ reply' = reply
    <3>1. calls' = calls
      BY <1>2, <2>1, LastWaits DEF Retry
    <3>2. overlay' = overlay /\ Bad' = Bad
      BY <1>2, Int13, LastWaits DEF Retry
    <3>. QED  BY <2>1, <3>1, <3>2 DEF Disk!vars
  <2>2. CASE calls' = Front(calls) /\ reply' = Disk!Answer(Last(calls))
    <3>1. calls # << >> /\ overlay' = overlay /\ Bad' = Bad
      BY <1>2, Int13, LastWaits DEF Retry
    <3>2. Disk!Answered
      BY <2>2, <3>1 DEF Disk!Answered, Last, Front, Disk!Last, Disk!Front
    <3>. QED  BY <3>2 DEF Disk!Next
  <2>. QED  BY <1>2, <2>1, <2>2, Int13, LastWaits DEF Retry
<1>3. CASE ResetCalls
  BY <1>3 DEF ResetCalls, Disk!Abandon, Disk!Next, Bad
<1>4. ASSUME NEW b \in AllBlocks, ReadFails(b)
      PROVE  Disk!GoBad
  <2>1. Bad \subseteq Bad' /\ Bad' \subseteq Sectors
    BY <1>4, FileSectors DEF ReadFails, Bad
  <2>2. Bad' = Bad \union Bad'
    BY <2>1
  <2>. QED  BY <1>4, <2>1, <2>2 DEF ReadFails, Disk!GoBad
<1>5. CASE Wake \/ (\E b \in AllBlocks : Arrives(b)) \/ UNCHANGED driveVars
  BY <1>5 DEF Wake, Arrives, driveVars, Disk!vars, Bad
<1>6. ASSUME NEW r \in Requests, NEW v \in 1..MaxVersions, Write(r, v)
      PROVE  Disk!Next
  <2>1. v \in 0..MaxVersions
    BY DriveSizes
  <2>. QED  BY <1>6, <2>1, WriteMaps DEF Disk!Next
<1>7. Disk!GoBad => Disk!Next
  BY DEF Disk!Next
<1>8. \A r \in Requests : Disk!Ask(r) \/ Disk!ReadAtOnce(r) => Disk!Next
  BY DEF Disk!Next
<1>. QED  BY <1>1, <1>2, <1>3, <1>4, <1>5, <1>6, <1>7, <1>8 DEF DriveNext

\* The games folder is a disk: every call of INT 13h on it, however often it is
\* tried again, answers as one call on a disk does, with the newest content.
THEOREM Implements == DriveSpec => ImplementsDisk
<1>1. DriveSpec => Disk!Init
  BY DriveInitMaps DEF DriveSpec
<1>2. CallsAreRequests /\ [DriveNext]_driveVars => [Disk!Next]_(Disk!vars)
  BY StepMaps
<1>. QED  BY <1>1, <1>2, CallsInductive, PTL DEF DriveSpec, ImplementsDisk, Disk!Spec

----------------------------------------------------------------------------
(* The order of touches.                                                   *)

LEMMA BlockPlaces ==
    ASSUME NEW b \in AllBlocks
    PROVE  StartOf(b) \in Nat /\ StartOf(b) <= NSectors
<1>1. PICK s \in DOMAIN FileOf : b = [file |-> FileOf[s], idx |-> (s - FileOf[s].s0) \div BlockSectors]
  BY DEF AllBlocks, BlockOf
<1>2. s \in Nat /\ s < NSectors
  BY <1>1, DriveSizes DEF FileOf, Sectors
<1>3. FileOf[s] \in Files /\ FileOf[s].s0 <= s /\ FileOf[s].s0 \in Nat
  <2>1. \E f \in Files : f.s0 <= s /\ s < f.s0 + f.len
    BY <1>1 DEF FileOf
  <2>2. FileOf[s] = CHOOSE f \in Files : f.s0 <= s /\ s < f.s0 + f.len
    BY <1>1 DEF FileOf
  <2>3. FileOf[s] \in Files /\ FileOf[s].s0 <= s
    BY <2>1, <2>2
  <2>. QED  BY <2>3, FilesAssumption
<1> DEFINE first == FileOf[s].s0
           n == BlockSectors
           q == (s - first) \div n
<1>4. s - first \in Nat /\ n \in Nat \ {0}
  BY <1>2, <1>3, DriveSizes
<1>5. \A x \in Nat, y \in Nat \ {0} : x \div y \in Nat /\ (x \div y) * y \in Nat /\ (x \div y) * y <= x
  OBVIOUS
<1>6. q \in Nat /\ q * n \in Nat /\ q * n <= s - first
  BY <1>4, <1>5
<1>7. StartOf(b) = first + q * n
  BY <1>1 DEF StartOf
<1> HIDE DEF first, n, q
<1>8. first \in Nat /\ first <= s
  BY <1>3 DEF first
<1>9. \A p \in Nat : p <= s - first => first + p \in Nat /\ first + p <= NSectors
  BY <1>2, <1>8, DriveSizes
<1>. QED  BY <1>6, <1>7, <1>9

LEMMA LatestThere ==
    ASSUME NEW bs \in SUBSET AllBlocks, bs # {}
    PROVE  Latest(bs) \in bs
<1> DEFINE T == {NSectors - StartOf(b) : b \in bs}
<1>1. NSectors \in Nat /\ \A b \in bs : StartOf(b) \in Nat /\ StartOf(b) <= NSectors
  BY BlockPlaces, DriveSizes
<1>2. T \in SUBSET Nat /\ T # {}
  BY <1>1
<1>3. PICK x \in T : \A y \in T : x <= y
  BY <1>2, FirstOfMany
<1>4. PICK b \in bs : x = NSectors - StartOf(b)
  OBVIOUS
<1>5. \A c \in bs : StartOf(c) <= StartOf(b)
  BY <1>1, <1>3, <1>4
<1>. QED  BY <1>5 DEF Latest

LEMMA BlocksFinite == IsFiniteSet(AllBlocks)
<1>1. IsFiniteSet(Sectors)
  BY FS_Interval, DriveSizes DEF Sectors
<1>2. DOMAIN BlockOf \in SUBSET Sectors
  BY DEF BlockOf, FileOf
<1>3. IsFiniteSet(DOMAIN BlockOf)
  BY <1>1, <1>2, FS_Subset
<1>4. BlockOf \in Surjection(DOMAIN BlockOf, AllBlocks)
  BY DEF BlockOf, AllBlocks, Surjection
<1>. QED  BY <1>3, <1>4, FS_Surjection

\* Where the jth place is taken from when the kth of n moves to the end.
From(n, k, j) == IF j = n THEN k ELSE IF j < k THEN j ELSE j + 1

LEMMA Moved ==
    ASSUME NEW n \in Nat, NEW k \in 1..n
    PROVE  /\ \A j \in 1..n : From(n, k, j) \in 1..n
           /\ \A i \in 1..n : \E j \in 1..n : From(n, k, j) = i
           /\ \A i, j \in 1..n : From(n, k, i) = From(n, k, j) => i = j
<1>1. ASSUME NEW i \in 1..n PROVE \E j \in 1..n : From(n, k, j) = i
  <2>1. CASE i = k
    <3>1. n \in 1..n /\ From(n, k, n) = i
      BY <2>1 DEF From
    <3>. QED  BY <3>1
  <2>2. CASE i < k
    <3>1. i # n /\ From(n, k, i) = i
      BY <2>2 DEF From
    <3>. QED  BY <3>1
  <2>3. CASE i > k
    <3>1. i - 1 \in 1..n /\ i - 1 # n /\ ~(i - 1 < k) /\ i - 1 + 1 = i
      BY <2>3
    <3>2. From(n, k, i - 1) = i
      BY <3>1 DEF From
    <3>. QED  BY <3>1, <3>2
  <2>. QED  BY <2>1, <2>2, <2>3
<1>2. \A i, j \in 1..n : From(n, k, i) = From(n, k, j) => i = j
  BY DEF From
<1>3. \A j \in 1..n : From(n, k, j) \in 1..n
  BY DEF From
<1>. QED  BY <1>1, <1>2, <1>3

(* A touch moves a block to the end of the cache.                          *)
Keeps(c) ==
    /\ c \in Seq(AllBlocks) /\ Len(c) = Len(cache)
    /\ ToSet(c) = Cached /\ IsInjective(c)

LEMMA TouchedKeeps ==
    ASSUME NEW c, Keeps(c), NEW b
    PROVE  Keeps(Touched(c, b))
<1>0. c \in Seq(AllBlocks) /\ Len(c) \in Nat /\ DOMAIN c = 1..Len(c) /\ IsInjective(c)
  BY LenProperties DEF Keeps
<1>1. CASE b \notin ToSet(c)
  BY <1>1 DEF Touched
<1>2. CASE b \in ToSet(c)
  <2> DEFINE I == {j \in 1..Len(c) : c[j] = b}
             k == SelectInSeq(c, LAMBDA v : v = b)
             n == Len(c)
             rest == RemoveAt(c, k)
             d == Append(rest, b)
  <2>1. k \in 1..n /\ c[k] = b /\ b \in AllBlocks
    <3>1. I # {} /\ I \in SUBSET Nat
      BY <1>0, <1>2 DEF ToSet
    <3>2. k = Min(I)
      BY <3>1 DEF SelectInSeq
    <3>3. Min(I) \in I
      <4>1. PICK x \in I : \A y \in I : x <= y
        BY <3>1, FirstOfMany
      <4>. QED  BY <4>1 DEF Min
    <3>4. b \in AllBlocks
      BY <1>0, <3>1, ElementOfSeq
    <3>. QED  BY <3>2, <3>3, <3>4
  <2>2. /\ rest \in Seq(AllBlocks) /\ Len(rest) = n - 1 /\ n \in Nat
        /\ \A j \in 1..(n - 1) : rest[j] = c[IF j < k THEN j ELSE j + 1]
    <3> HIDE DEF k
    <3>. QED  BY <1>0, <2>1, RemoveAtElements
  <2>3. Touched(c, b) = d
    <3>1. \E j \in 1..Len(c) : c[j] = b
      BY <2>1
    <3>. QED  BY <1>2, <3>1 DEF Touched, RemoveFirst
  <2> HIDE DEF k, rest
  <2>4. /\ d \in Seq(AllBlocks) /\ Len(d) = n /\ d[n] = b
        /\ \A j \in 1..(n - 1) : d[j] = rest[j]
    BY <2>1, <2>2, AppendProperties
  <2> HIDE DEF d
  <2>5. DOMAIN d = 1..n
    BY <2>4
  <2> HIDE DEF n
  <2>6. ASSUME NEW j \in 1..n
        PROVE  d[j] = c[From(n, k, j)]
    <3>1. n \in Nat /\ k \in 1..n /\ c[k] = b
      BY <1>0, <2>1 DEF n
    <3>2. CASE j = n
      BY <2>4, <3>1, <3>2 DEF From
    <3>3. CASE j # n
      <4>1. j \in 1..(n - 1)
        BY <3>1, <3>3
      <4>. QED  BY <2>2, <2>4, <3>3, <4>1 DEF From
    <3>. QED  BY <3>2, <3>3
  <2>7. /\ \A j \in 1..n : From(n, k, j) \in 1..n
        /\ \A i \in 1..n : \E j \in 1..n : From(n, k, j) = i
        /\ \A i, j \in 1..n : From(n, k, i) = From(n, k, j) => i = j
    BY <2>1, <2>2, Moved
  <2>8. DOMAIN c = 1..n
    BY <1>0 DEF n
  <2>9. \A i, j \in 1..n : c[i] = c[j] => i = j
    BY <1>0, <2>8 DEF IsInjective
  <2>10. IsInjective(d)
    <3> SUFFICES ASSUME NEW i \in 1..n, NEW j \in 1..n, d[i] = d[j] PROVE i = j
      BY <2>5 DEF IsInjective
    <3>1. c[From(n, k, i)] = c[From(n, k, j)]
      BY <2>6
    <3>. QED  BY <2>7, <2>9, <3>1
  <2>11. ToSet(d) = ToSet(c)
    <3>1. ASSUME NEW i \in 1..n PROVE \E j \in 1..n : d[j] = c[i]
      BY <2>6, <2>7
    <3>. QED  BY <2>5, <2>6, <2>7, <2>8, <3>1 DEF ToSet
  <2>. QED  BY <2>3, <2>4, <2>10, <2>11 DEF Keeps, n
<1>. QED  BY <1>1, <1>2

(* The touches, block by block from the first.                             *)
Touches(bs, h) ==
    [s \in SUBSET bs |-> IF s = {} THEN cache ELSE Touched(h[s \ {Latest(s)}], Latest(s))]

LEMMA Smaller ==
    ASSUME NEW bs \in SUBSET AllBlocks, NEW s \in SUBSET bs, s # {}
    PROVE  /\ s \ {Latest(s)} \in SUBSET bs
           /\ Cardinality(s) \in Nat /\ Cardinality(s) # 0
           /\ Cardinality(s \ {Latest(s)}) = Cardinality(s) - 1
<1>1. IsFiniteSet(s) /\ Latest(s) \in s
  BY BlocksFinite, FS_Subset, LatestThere
<1>. QED  BY <1>1, FS_RemoveElement, FS_CardinalityType, FS_EmptySet

LEMMA TouchesExist ==
    ASSUME NEW bs \in SUBSET AllBlocks
    PROVE  \E h : h = Touches(bs, h)
<1> DEFINE Some(k) == {s \in SUBSET bs : Cardinality(s) <= k}
           Next1(h, s) == IF s = {} THEN cache ELSE Touched(h[s \ {Latest(s)}], Latest(s))
           Good(h, k) == h = [s \in Some(k) |-> Next1(h, s)]
           N == Cardinality(bs)
           T == {k \in 0..N : ~ \E h : Good(h, k)}
<1>0. /\ N \in Nat /\ Cardinality({}) = 0
      /\ \A s \in SUBSET bs : Cardinality(s) \in Nat /\ Cardinality(s) <= N
                              /\ (Cardinality(s) = 0 <=> s = {})
  <2>1. IsFiniteSet(bs) /\ \A s \in SUBSET bs : IsFiniteSet(s)
    BY BlocksFinite, FS_Subset
  <2>. QED  BY <2>1, FS_Subset, FS_CardinalityType, FS_EmptySet
<1> HIDE DEF N
<1>1. ASSUME T # {} PROVE FALSE
  <2>1. PICK k \in T : \A j \in T : k <= j
    <3>1. T \in SUBSET Nat
      BY <1>0
    <3>. QED  BY <1>1, <3>1, FirstOfMany
  <2>2. k \in 0..N /\ ~ \E h : Good(h, k)
    OBVIOUS
  <2>3. CASE k = 0
    <3> DEFINE h == [s \in Some(0) |-> cache]
    <3>1. \A s \in Some(0) : s = {}
      BY <1>0
    <3>2. h = [s \in Some(0) |-> Next1(h, s)]
      BY <3>1
    <3>3. Good(h, 0)
      BY <3>2
    <3> HIDE DEF h, Good
    <3>. QED  BY <2>2, <2>3, <3>3
  <2>4. CASE k # 0
    <3>1. k - 1 \in 0..N /\ k - 1 \notin T /\ k \in Nat
      <4> HIDE DEF Good
      <4>. QED  BY <1>0, <2>1, <2>4
    <3>2. PICK g : Good(g, k - 1)
      BY <3>1
    <3> DEFINE h == [s \in Some(k) |-> Next1(g, s)]
    <3>3. ASSUME NEW s \in Some(k), s # {}
          PROVE  s \ {Latest(s)} \in Some(k - 1)
      BY <1>0, <3>1, <3>3, Smaller
    <3>4. ASSUME NEW t \in Some(k - 1)
          PROVE  h[t] = g[t]
      <4>1. t \in Some(k)
        BY <1>0, <3>1
      <4>2. g[t] = Next1(g, t)
        <5> HIDE DEF Next1, Some
        <5>. QED  BY <3>2
      <4>. QED  BY <4>1, <4>2
    <3> HIDE DEF h
    <3>5. ASSUME NEW s \in Some(k) PROVE Next1(g, s) = Next1(h, s)
      BY <3>3, <3>4
    <3> HIDE DEF Next1, Some
    <3>6. h = [s \in Some(k) |-> Next1(h, s)]
      BY <3>5 DEF h
    <3>. QED  BY <2>2, <3>6
  <2>. QED  BY <2>3, <2>4
<1>2. PICK h : Good(h, N)
  <2>1. N \in 0..N
    BY <1>0
  <2> HIDE DEF Good
  <2>. QED  BY <1>1, <2>1
<1>3. Some(N) = SUBSET bs
  BY <1>0
<1>4. h = [s \in SUBSET bs |-> Next1(h, s)]
  <2> HIDE DEF Next1, Some
  <2>. QED  BY <1>2, <1>3
<1>. QED  BY <1>4 DEF Touches

(* Touching any of the blocks leaves what is in the cache.                 *)
LEMMA AllTouchedKeeps ==
    ASSUME NEW bs \in SUBSET AllBlocks, Keeps(cache)
    PROVE  Keeps(AllTouched(bs))
<1> DEFINE h == CHOOSE f : f = Touches(bs, f)
<1>1. h = Touches(bs, h)
  BY TouchesExist
<1>2. AllTouched(bs) = h[bs]
  BY DEF AllTouched, MapThenFoldSet, Touches
<1> HIDE DEF h
<1> DEFINE T == {k \in Nat : \E s \in SUBSET bs : Cardinality(s) = k /\ ~Keeps(h[s])}
<1>3. ASSUME T # {} PROVE FALSE
  <2>1. PICK k \in T : \A j \in T : k <= j
    <3>1. T \in SUBSET Nat
      OBVIOUS
    <3>. QED  BY <1>3, <3>1, FirstOfMany
  <2>2. PICK s \in SUBSET bs : Cardinality(s) = k /\ ~Keeps(h[s])
    OBVIOUS
  <2>3. h[s] = IF s = {} THEN cache ELSE Touched(h[s \ {Latest(s)}], Latest(s))
    <3>1. h[s] = Touches(bs, h)[s]
      BY <1>1, Zenon
    <3>. QED  BY <3>1 DEF Touches
  <2>4. s # {}
    BY <2>2, <2>3
  <2>5. Keeps(h[s \ {Latest(s)}])
    <3>1. /\ s \ {Latest(s)} \in SUBSET bs /\ k \in Nat /\ k # 0
          /\ Cardinality(s \ {Latest(s)}) = k - 1
      BY <2>2, <2>4, Smaller
    <3>2. k - 1 \in Nat /\ k - 1 \notin T
      BY <2>1, <3>1
    <3>. QED  BY <3>1, <3>2
  <2>. QED  BY <2>2, <2>3, <2>4, <2>5, TouchedKeeps
<1>4. Cardinality(bs) \in Nat
  BY BlocksFinite, FS_Subset, FS_CardinalityType
<1>5. Keeps(h[bs])
  BY <1>3, <1>4
<1>. QED  BY <1>2, <1>5

----------------------------------------------------------------------------
(* The cache.                                                              *)

(* LocalFatDrive.read leaves each block in one place.                      *)
LEMMA ReadKeeps ==
    ASSUME DriveConsistent, NEW r \in SUBSET Nat, LocalRead(r)
    PROVE  /\ Keeps(cache') /\ pending' \subseteq AllBlocks
           /\ Cached \intersect (pending' \union errors) = {} /\ pending' \intersect errors = {}
<1>1. Keeps(cache) /\ pending \subseteq AllBlocks
  BY DEF DriveConsistent, DriveTypeOK, OnePlace, Keeps, Cached
<1>2. Needed(r) \in SUBSET AllBlocks
  BY DEF Needed, AllBlocks
<1>3. CASE r \subseteq Sectors
  <2> DEFINE found == Needed(r) \ errors
             wanted == found \union UNION {Ahead(b) : b \in found}
  <2>1. cache' = AllTouched(Needed(r)) /\ pending' = Fetch(wanted)
    BY <1>3 DEF LocalRead
  <2>2. wanted \subseteq AllBlocks
    BY <1>2 DEF Ahead
  <2> HIDE DEF wanted
  <2>. QED  BY <1>1, <1>2, <2>1, <2>2, AllTouchedKeeps DEF Fetch, DriveConsistent, OnePlace
<1>4. CASE ~ r \subseteq Sectors
  BY <1>1, <1>4 DEF LocalRead, DriveConsistent, OnePlace
<1>. QED  BY <1>3, <1>4

(* INT 13h's answer has its type: what is done leaves no sector unfilled.  *)
LEMMA AnswerType ==
    ASSUME DriveConsistent, NEW r \in Requests, NEW waiting \in Seq(Requests),
           Len(waiting) < MaxNesting, Int13Read(r, waiting)
    PROVE  DriveConsistent'
<1>0. /\ DriveTypeOK /\ overlay \in [Sectors -> 0..MaxVersions] /\ MaxVersions \in Nat
      /\ MaxNesting \in Nat /\ Len(waiting) \in Nat /\ r \in SUBSET Nat
  BY DriveSizes, RequestsAssumption, LenProperties DEF DriveConsistent, DriveTypeOK
<1>1. /\ Keeps(cache') /\ pending' \subseteq AllBlocks
      /\ Cached \intersect (pending' \union errors) = {} /\ pending' \intersect errors = {}
      /\ errors' = errors /\ overlay' = overlay
  BY <1>0, ReadKeeps DEF Int13Read
<1>2. OnePlace'
  BY <1>1 DEF OnePlace, Keeps, Cached
<1>3. /\ calls' \in Seq(Requests) /\ Len(calls') <= MaxNesting
      /\ cpu' \in {"runs", "returns", "halted"} /\ (cpu' # "runs" => calls' # << >>)
  <2>1. CASE Status(r) = "pending"
    <3>1. calls' = Append(waiting, r) /\ cpu' = "halted"
      BY <2>1 DEF Int13Read
    <3>2. /\ Append(waiting, r) \in Seq(Requests) /\ Append(waiting, r) # << >>
          /\ Len(Append(waiting, r)) = Len(waiting) + 1
      BY AppendProperties
    <3>. QED  BY <1>0, <3>1, <3>2
  <2>2. CASE Status(r) # "pending"
    BY <1>0, <2>2 DEF Int13Read
  <2>. QED  BY <2>1, <2>2
<1>4. /\ reply'.sectors \in Requests \union {{}}
      /\ reply'.how \in {"none", "read", "written", "error"}
      /\ reply'.data \in {NoData} \union [reply'.sectors -> 0..MaxVersions]
  <2>1. CASE Status(r) = "pending"
    BY <1>0, <2>1 DEF Int13Read, DriveTypeOK
  <2>2. CASE Status(r) = "done"
    <3>1. r \subseteq Sectors /\ Needed(r) \subseteq Cached
      BY <2>2 DEF Status
    <3>2. Data(r) = [s \in r |-> overlay[s]]
      BY <3>1 DEF Data, Needed
    <3>3. [s \in r |-> overlay[s]] \in [r -> 0..MaxVersions]
      BY <1>0, <3>1
    <3>4. reply' = Reply(r, "read", Data(r))
      BY <2>2 DEF Int13Read
    <3>. QED  BY <3>2, <3>3, <3>4 DEF Reply
  <2>3. CASE Status(r) = "error"
    BY <2>3 DEF Int13Read, Reply
  <2>. QED  BY <2>1, <2>2, <2>3 DEF Status
<1>5. Len(cache') <= CacheBlocks /\ cache' \in Seq(AllBlocks)
  BY <1>0, <1>1 DEF Keeps, DriveTypeOK
<1>. QED  BY <1>0, <1>1, <1>2, <1>3, <1>4, <1>5 DEF DriveConsistent, DriveTypeOK

(* A block that arrives is put last, and the first ones go if it must be.  *)
LEMMA ArrivalKeeps ==
    ASSUME DriveConsistent, NEW b \in AllBlocks, b \notin Cached
    PROVE  LET c == KeptBlocks(Append(cache, b))
           IN  /\ c \in Seq(AllBlocks) /\ Len(c) <= CacheBlocks
               /\ IsInjective(c) /\ ToSet(c) \subseteq Cached \union {b}
<1> DEFINE a == Append(cache, b)
           n == Len(cache) + 1
           k == IF n > CacheBlocks THEN n - CacheBlocks + 1 ELSE 1
           c == SubSeq(a, k, n)
<1>0. /\ cache \in Seq(AllBlocks) /\ Len(cache) \in Nat /\ Len(cache) <= CacheBlocks
      /\ CacheBlocks \in Nat \ {0} /\ IsInjective(cache) /\ DOMAIN cache = 1..Len(cache)
  BY DriveSizes, LenProperties DEF DriveConsistent, DriveTypeOK, OnePlace
<1>1. /\ a \in Seq(AllBlocks) /\ Len(a) = n /\ a[n] = b
      /\ \A i \in 1..Len(cache) : a[i] = cache[i]
  BY <1>0, AppendProperties
<1>2. KeptBlocks(a) = c
  BY <1>1 DEF KeptBlocks
<1> HIDE DEF a
<1>3. n \in Nat /\ k \in 1..n /\ n - k + 1 <= CacheBlocks /\ n - k + 1 \in Nat
  BY <1>0
<1> HIDE DEF k
<1>4. c \in Seq(AllBlocks) /\ Len(c) = n - k + 1 /\ \A i \in 1..(n - k + 1) : c[i] = a[k + i - 1]
  BY <1>1, <1>3
<1>5. \A i, j \in 1..n : a[i] = a[j] => i = j
  <2>1. \A i \in 1..Len(cache) : cache[i] \in Cached
    BY <1>0 DEF Cached, ToSet
  <2>2. \A i, j \in 1..Len(cache) : cache[i] = cache[j] => i = j
    BY <1>0 DEF IsInjective
  <2>3. \A i \in 1..n : i = n \/ i \in 1..Len(cache)
    BY <1>0
  <2>. QED  BY <1>1, <2>1, <2>2, <2>3
<1>6. \A i \in 1..n : a[i] \in Cached \union {b}
  BY <1>0, <1>1 DEF Cached, ToSet
<1> HIDE DEF c, n
<1>7. DOMAIN c = 1..(n - k + 1)
  BY <1>3, <1>4
<1>8. IsInjective(c)
  <2> SUFFICES ASSUME NEW i \in 1..(n - k + 1), NEW j \in 1..(n - k + 1), c[i] = c[j]
               PROVE  i = j
    BY <1>7 DEF IsInjective
  <2>1. k + i - 1 \in 1..n /\ k + j - 1 \in 1..n
    BY <1>3
  <2>2. a[k + i - 1] = a[k + j - 1]
    BY <1>4
  <2>3. k + i - 1 = k + j - 1
    BY <1>5, <2>1, <2>2
  <2>. QED  BY <1>3, <2>3
<1>9. ToSet(c) \subseteq Cached \union {b}
  <2> SUFFICES ASSUME NEW i \in 1..(n - k + 1) PROVE c[i] \in Cached \union {b}
    BY <1>7 DEF ToSet
  <2>1. k + i - 1 \in 1..n
    BY <1>3
  <2>. QED  BY <1>4, <1>6, <2>1
<1>. QED  BY <1>2, <1>3, <1>4, <1>8, <1>9 DEF a

LEMMA DriveInitConsistent == DriveInit => DriveConsistent
<1> SUFFICES ASSUME DriveInit PROVE DriveConsistent
  OBVIOUS
<1>1. /\ << >> \in Seq(AllBlocks) /\ << >> \in Seq(Requests) /\ Len(<< >>) = 0
      /\ ToSet(<< >>) = {} /\ IsInjective(<< >>)
  BY EmptySeq DEF ToSet, IsInjective
<1>2. [s \in Sectors |-> 0] \in [Sectors -> 0..MaxVersions]
  BY DriveSizes
<1>3. NoReply.sectors = {} /\ NoReply.how = "none" /\ NoReply.data = NoData
  BY DEF NoReply, Reply
<1>4. OnePlace
  BY <1>1 DEF DriveInit, OnePlace, Cached
<1>. QED  BY <1>1, <1>2, <1>3, <1>4, DriveSizes DEF DriveInit, DriveConsistent, DriveTypeOK

LEMMA DriveStepConsistent == DriveConsistent /\ [DriveNext]_driveVars => DriveConsistent'
<1> SUFFICES ASSUME DriveConsistent, [DriveNext]_driveVars PROVE DriveConsistent'
  OBVIOUS
<1>0. DriveTypeOK /\ OnePlace /\ calls \in Seq(Requests) /\ MaxNesting \in Nat /\ MaxVersions \in Nat
  BY DriveSizes DEF DriveConsistent, DriveTypeOK
<1>1. ASSUME NEW r \in Requests, Read(r) PROVE DriveConsistent'
  BY <1>0, <1>1, AnswerType DEF Read
<1>2. ASSUME NEW r \in Requests, NEW v \in 1..MaxVersions, Write(r, v) PROVE DriveConsistent'
  <2>1. overlay' \in [Sectors -> 0..MaxVersions]
    <3>1. v \in 0..MaxVersions
      BY <1>0
    <3>. QED  BY <1>0, <1>2, <3>1 DEF Write, DriveTypeOK
  <2>2. /\ reply'.sectors = r /\ reply'.how \in {"written", "error"} /\ reply'.data = NoData
    BY <1>2 DEF Write, Reply
  <2>. QED  BY <1>0, <1>2, <2>1, <2>2 DEF Write, DriveConsistent, DriveTypeOK, OnePlace, Cached
<1>3. CASE Wake
  BY <1>0, <1>3 DEF Wake, DriveConsistent, DriveTypeOK, OnePlace, Cached
<1>4. CASE Retry
  <2>1. /\ calls # << >> /\ Last(calls) \in Requests /\ Front(calls) \in Seq(Requests)
        /\ Int13Read(Last(calls), Front(calls))
    BY <1>0, <1>4, LastWaits DEF Retry, CallsAreRequests
  <2>2. Len(Front(calls)) < MaxNesting
    <3>1. Len(calls) \in Nat /\ Len(calls) # 0 /\ Len(calls) <= MaxNesting
      BY <1>0, <2>1, LenProperties, EmptySeq DEF DriveTypeOK
    <3> DEFINE n == Len(calls) - 1
    <3>2. n \in Int /\ n >= 0 /\ \A i \in 1..n : calls[i] \in Requests
      BY <1>0, <3>1, ElementOfSeq
    <3> HIDE DEF n
    <3>3. Len(SubSeq(calls, 1, n)) = n
      BY <3>2, SubSeqProperties
    <3>4. Len(Front(calls)) = Len(calls) - 1
      BY <3>3 DEF Front, n
    <3>. QED  BY <1>0, <3>1, <3>4
  <2>. QED  BY <2>1, <2>2, AnswerType
<1>5. CASE ResetCalls
  <2>1. << >> \in Seq(Requests) /\ Len(<< >>) = 0
    BY EmptySeq
  <2>. QED  BY <1>0, <1>5, <2>1 DEF ResetCalls, DriveConsistent, DriveTypeOK, OnePlace, Cached
<1>6. ASSUME NEW b \in AllBlocks, Arrives(b) PROVE DriveConsistent'
  <2>1. b \notin Cached /\ b \notin errors
    BY <1>0, <1>6 DEF Arrives, OnePlace
  <2>2. /\ cache' \in Seq(AllBlocks) /\ Len(cache') <= CacheBlocks
        /\ IsInjective(cache') /\ ToSet(cache') \subseteq Cached \union {b}
    BY <1>6, <2>1, ArrivalKeeps DEF Arrives
  <2>3. OnePlace'
    BY <1>0, <1>6, <2>1, <2>2 DEF Arrives, OnePlace, Cached
  <2>. QED  BY <1>0, <1>6, <2>2, <2>3 DEF Arrives, DriveConsistent, DriveTypeOK
<1>7. ASSUME NEW b \in AllBlocks, ReadFails(b) PROVE DriveConsistent'
  BY <1>0, <1>7 DEF ReadFails, DriveConsistent, DriveTypeOK, OnePlace, Cached
<1>8. CASE UNCHANGED driveVars
  BY <1>0, <1>8 DEF driveVars, DriveConsistent, DriveTypeOK, OnePlace, Cached
<1>. QED  BY <1>1, <1>2, <1>3, <1>4, <1>5, <1>6, <1>7, <1>8 DEF DriveNext

(* The cache of localdrive.ts never holds more than CACHE_BLOCKS, and each *)
(* block is cached once, on its way or failed, whatever fetches, touches   *)
(* and evictions come together.                                            *)
THEOREM CacheConsistent == DriveSpec => []DriveConsistent
  BY DriveInitConsistent, DriveStepConsistent, PTL DEF DriveSpec

----------------------------------------------------------------------------
(* GamesMount.                                                             *)

StepNames == {"idle", "start", "scan", "getMeta", "delete", "load", "putMeta", "deleteMeta",
              "acked", "driveC", "put"}
Places == [step : StepNames, folder : MaybeFolder, disk : Disks, overlay : Contents]
Drives == [folder : MaybeFolder, overlay : Contents, dirty : SUBSET Disks,
           id : MaybeFolder, attached : BOOLEAN, lost : SUBSET Disks]
Machines == [running : BOOLEAN, timer : BOOLEAN, ticks : Nat, stranded : BOOLEAN]
Stores == [meta : MaybeFolder, overlays : [Folders -> Contents]]
Ops == {"getMeta", "delete", "load", "putMeta", "deleteMeta", "putC", "put"}
Transactions == [op : Ops, by : Handlers, folder : MaybeFolder, disk : Disks,
                 data : 0..MaxWrites]
Movers == Mounts \union {"disconnect"}

----------------------------------------------------------------------------
(* The inductive invariant.                                                *)

\* No handler waits for two transactions, and a disconnect waits behind what
\* flush has put.
Members(q) == {q[i] : i \in 1..Len(q)}
Pending == Members(txs)
Distinct(q) == \A i, j \in 1..Len(q) : q[i].by = q[j].by => i = j
PutsFirst(q) == \A i, j \in 1..Len(q) : q[i].op = "put" /\ q[j].by = "disconnect" => i < j
Queue(q) == q \in Seq(Transactions) /\ Distinct(q) /\ PutsFirst(q)

\* A handler's step says what it waits for.
Awaited(s) == IF s = "driveC" THEN "putC" ELSE s
Asked ==
    \A t \in Pending : /\ t.op = Awaited(at[t.by].step)
                       /\ t.op \in {"delete", "putMeta", "put"} => t.folder \in Folders
MountSteps == {"idle", "start", "scan", "getMeta", "delete", "load", "putMeta"}
Steps ==
    /\ \A h \in Mounts : /\ at[h].step \in MountSteps
                         /\ at[h].step \notin {"idle", "start"} => at[h].folder \in Folders
    /\ at["disconnect"].step \in {"idle", "delete", "deleteMeta", "acked"}
    /\ at["disconnect"].step = "delete" => at["disconnect"].folder \in Folders
    /\ at["flush"].step \in {"idle", "driveC", "put"}

\* One handler at a time mounts or disconnects, and none while the page is closed.
OneMoves == \A g, h \in Movers : Busy(g) /\ Busy(h) => g = h
Shut ==
    ~open.now => /\ \A h \in Handlers : at[h].step = "idle"
                 /\ drive.folder = None /\ ~machine.timer

\* init mounts when there is no drive; a mount sets the overlay's id before it loads.
Mounting ==
    /\ at["boot"].step \in {"start", "scan", "getMeta", "delete", "load"} => drive.folder = None
    /\ \A h \in Mounts : /\ at[h].step \in {"load", "putMeta"} => drive.id = at[h].folder
                         /\ at[h].step = "putMeta" => drive.folder = at[h].folder

\* There is no drive from the first step of a disconnect on.
Leaving ==
    /\ at["disconnect"].step # "idle" => drive.folder = None
    /\ at["disconnect"].step = "acked" => \A h \in Mounts : ~Busy(h)

\* While a drive is attached nothing mounts or disconnects; one that is not attached, as a
\* mount that failed may leave it, is never written.
DriveOK ==
    IF drive.attached
    THEN drive.id = drive.folder /\ drive.folder \in Folders /\ \A g \in Movers : ~Busy(g)
    ELSE drive.dirty = {}

\* What flush puts is of the drive, or of the one that is being disconnected.
PutsOK ==
    \A t \in Pending : t.op = "put" =>
        IF drive.attached THEN t.folder = drive.folder
        ELSE Busy("disconnect") /\ t.folder = at["disconnect"].folder
NoPuts == \A t \in Pending : t.op # "put"

Control == /\ Queue(txs) /\ Asked /\ Steps /\ OneMoves /\ Shut
           /\ Mounting /\ Leaving /\ DriveOK /\ PutsOK

\* Whose a write is, wherever it is.
WrittenBy(v, f) == v # 0 => v \in 1..Len(writer) /\ writer[v] = f
Owned ==
    /\ \A f \in Folders, d \in Disks : WrittenBy(store.overlays[f][d], f)
    /\ \A d \in Disks : WrittenBy(drive.overlay[d], drive.folder)
    /\ \A t \in Pending : t.op = "put" => WrittenBy(t.data, t.folder)

\* How far a mount has loaded, and a disconnect deleted: one that is repeated after a
\* failure has no folder any more.
Emptied(f) == f # None => store.overlays[f] = Blank
Loading ==
    \A h \in Mounts : at[h].step = "load" =>
        \A d \in Disks : d < at[h].disk =>
            at[h].overlay[d] = store.overlays[at[h].folder][d]
Deleting ==
    /\ \A t \in Pending : t.by = "disconnect" /\ t.op = "delete" =>
          /\ t.folder = at["disconnect"].folder
          /\ t.disk > 0 => NoPuts
          /\ \A d \in Disks : d < t.disk => store.overlays[t.folder][d] = 0
    /\ at["disconnect"].step = "deleteMeta" =>
          NoPuts /\ Emptied(at["disconnect"].folder)
Gone == at["disconnect"].step = "acked" =>
          store.meta = None /\ Emptied(at["disconnect"].folder)

\* A disk that is not dirty is saved or its content is on its way, from the end of
\* loading on, but for what went down with a failed transaction.
Held == drive.attached \/ \E h \in Mounts : at[h].step = "putMeta"
Settled == Disks \ (drive.dirty \union drive.lost)
Clean ==
    Held =>
        \A d \in Settled :
            \/ \E t \in Pending : t.op = "put" /\ t.disk = d /\ t.data = drive.overlay[d]
            \/ /\ \A t \in Pending : t.op = "put" => t.disk # d
               /\ store.overlays[drive.folder][d] = drive.overlay[d]

IInv == TypeOK /\ Control /\ Owned /\ Loading /\ Deleting /\ Gone /\ Clean /\ RunningHasTick

----------------------------------------------------------------------------
Kept(j, i) == IF j < i THEN j ELSE j + 1

LEMMA Appended ==
    ASSUME NEW q, Queue(q), NEW t \in Transactions, \A u \in Members(q) : u.by # t.by,
           t.op = "put" => \A u \in Members(q) : u.by # "disconnect",
           t.by = "disconnect" => t.op # "put"
    PROVE  Queue(Append(q, t)) /\ Members(Append(q, t)) = Members(q) \union {t}
<1> DEFINE r == Append(q, t)
           n == Len(q) + 1
<1>1. /\ r \in Seq(Transactions) /\ Len(q) \in Nat /\ Len(r) = n /\ r[n] = t
      /\ \A i \in 1..Len(q) : r[i] = q[i]
  BY DEF Queue
<1>2. \A i \in 1..n : i \in 1..Len(q) \/ i = n
  BY <1>1
<1>3. \A i \in 1..Len(q) : i < n /\ i \in 1..n /\ i # n
  BY <1>1
<1>4. n \in 1..n
  BY <1>1
<1>5. \A i \in 1..Len(q) : q[i] \in Members(q)
  BY DEF Members
<1> HIDE DEF r, n
<1>6. Distinct(r)
  BY <1>1, <1>2, <1>3, <1>5 DEF Distinct, Queue
<1>7. PutsFirst(r)
  BY <1>1, <1>2, <1>3, <1>5 DEF PutsFirst, Queue
<1>8. Members(r) = Members(q) \union {t}
  BY <1>1, <1>2, <1>3, <1>4 DEF Members
<1>. QED  BY <1>1, <1>6, <1>7, <1>8 DEF Queue, r

LEMMA Taken ==
    ASSUME NEW q, Queue(q), NEW i \in 1..Len(q)
    PROVE  Queue(RemoveAt(q, i)) /\ Members(RemoveAt(q, i)) = Members(q) \ {q[i]}
<1> DEFINE r == RemoveAt(q, i)
<1>1. /\ r \in Seq(Transactions) /\ Len(r) = Len(q) - 1
      /\ \A j \in 1..(Len(q) - 1) : r[j] = q[Kept(j, i)]
  BY RemoveAtElements DEF Queue, Kept
<1>2. Len(q) \in Nat /\ Len(r) = Len(q) - 1
  BY <1>1 DEF Queue
<1> HIDE DEF r
<1>3. \A j \in 1..Len(r) : Kept(j, i) \in 1..Len(q) /\ Kept(j, i) # i /\ r[j] = q[Kept(j, i)]
  BY <1>1, <1>2 DEF Kept
<1>4. \A j, k \in 1..Len(r) : /\ Kept(j, i) = Kept(k, i) => j = k
                              /\ Kept(j, i) < Kept(k, i) => j < k
  BY <1>2 DEF Kept
<1>5. ASSUME NEW k \in 1..Len(q), k # i
      PROVE  \E j \in 1..Len(r) : k = Kept(j, i)
  <2>1. CASE k < i
    BY <2>1, <1>2 DEF Kept
  <2>2. CASE i < k
    <3>1. k - 1 \in 1..Len(r) /\ Kept(k - 1, i) = k
      BY <2>2, <1>2 DEF Kept
    <3>. QED  BY <3>1
  <2>. QED  BY <2>1, <2>2, <1>2, <1>5
<1>6. Distinct(r)
  BY <1>3, <1>4 DEF Distinct, Queue
<1>7. PutsFirst(r)
  BY <1>3, <1>4 DEF PutsFirst, Queue
<1>8. Members(r) = Members(q) \ {q[i]}
  <2>1. \A k \in 1..Len(q) : q[k] = q[i] => k = i
    BY DEF Queue, Distinct
  <2>2. Members(r) = {r[j] : j \in 1..Len(r)} /\ Members(q) = {q[k] : k \in 1..Len(q)}
    BY DEF Members
  <2> HIDE DEF r
  <2>3. ASSUME NEW j \in 1..Len(r) PROVE r[j] \in {q[k] : k \in 1..Len(q)} \ {q[i]}
    BY <1>3, <2>1, <2>3
  <2>4. ASSUME NEW k \in 1..Len(q), k # i PROVE q[k] \in {r[j] : j \in 1..Len(r)}
    <3>1. PICK j \in 1..Len(r) : k = Kept(j, i)
      BY <1>5, <2>4
    <3>. QED  BY <1>3, <3>1
  <2>. QED  BY <2>2, <2>3, <2>4
<1>. QED  BY <1>1, <1>6, <1>7, <1>8 DEF Queue, r

\* A finished transaction goes, and the next one of its handler, if any, goes last.
LEMMA Continued ==
    ASSUME NEW t \in Transactions, Queue(txs), NEW i \in 1..Len(txs), t.by = txs[i].by,
           t.op # "put"
    PROVE  /\ Queue(Replaced(i, <<t>>))
           /\ Members(Replaced(i, <<t>>)) = (Pending \ {txs[i]}) \union {t}
<1>1. Replaced(i, <<t>>) = Append(RemoveAt(txs, i), t)
  <2>1. RemoveAt(txs, i) \in Seq(Transactions)
    BY RemoveAtElements DEF Queue
  <2>. QED  BY <2>1 DEF Replaced
<1>2. \A u \in Members(RemoveAt(txs, i)) : u.by # t.by
  <2>1. \A j \in 1..Len(txs) : txs[j].by = t.by => j = i
    BY DEF Queue, Distinct
  <2>2. \A u \in Pending \ {txs[i]} : u.by # t.by
    BY <2>1 DEF Pending, Members
  <2>. QED  BY <2>2, Taken DEF Pending
<1>3. /\ Queue(RemoveAt(txs, i))
      /\ Members(RemoveAt(txs, i)) = Pending \ {txs[i]}
  BY Taken DEF Pending
<1> DEFINE r == RemoveAt(txs, i)
<1> HIDE DEF r
<1>4. Queue(Append(r, t)) /\ Members(Append(r, t)) = Members(r) \union {t}
  BY <1>2, <1>3, Appended DEF r
<1>. QED  BY <1>1, <1>3, <1>4 DEF r

LEMMA Finished ==
    ASSUME Queue(txs), NEW i \in 1..Len(txs)
    PROVE  /\ Queue(Replaced(i, << >>))
           /\ Members(Replaced(i, << >>)) = Pending \ {txs[i]}
<1>1. RemoveAt(txs, i) \in Seq(Transactions)
  BY RemoveAtElements DEF Queue
<1>2. Replaced(i, << >>) = RemoveAt(txs, i)
  BY <1>1 DEF Replaced
<1>. QED  BY <1>2, Taken DEF Pending

----------------------------------------------------------------------------
(* Types.                                                                  *)

LEMMA Sizes ==
    /\ NDisks \in Nat /\ 0 < NDisks /\ MaxWrites \in Nat /\ MaxOpens \in Nat /\ MaxUser \in Nat
    /\ MaxFailures \in Nat
    /\ 0 \in Disks /\ 0 \in 0..MaxWrites /\ None \in MaybeFolder /\ Folders \subseteq MaybeFolder
    /\ \A d \in Disks : d \in Nat /\ (d + 1 < NDisks => d + 1 \in Disks)
    /\ \A d, e \in Disks : ~(d + 1 < NDisks) => e = d \/ e < d
    /\ \A d, e \in Disks : d < e + 1 => d < e \/ d = e
    /\ \A d \in Disks : d < NDisks /\ ~(d < 0)
    /\ Blank \in Contents /\ \A d \in Disks : Blank[d] = 0
<1>1. /\ NDisks \in Nat /\ 0 < NDisks /\ MaxWrites \in Nat /\ MaxOpens \in Nat /\ MaxUser \in Nat
      /\ MaxFailures \in Nat
  BY SizesAssumption
<1>. QED  BY <1>1 DEF Disks, MaybeFolder, Blank, Contents

LEMMA Names ==
    /\ "boot" \in Mounts /\ "boot" \in Movers /\ Connects \subseteq Mounts
    /\ Mounts \subseteq Movers /\ Movers \subseteq Handlers
    /\ "disconnect" \in Movers /\ "disconnect" \in Handlers /\ "flush" \in Handlers
    /\ "disconnect" \notin Mounts /\ "flush" \notin Movers /\ "flush" # "disconnect"
    /\ "boot" \notin Connects
    /\ \A h \in Handlers : h \in Mounts \/ h = "disconnect" \/ h = "flush"
    /\ \A h \in Movers : h \in Mounts \/ h = "disconnect"
  BY ConnectsAssumption DEF Mounts, Movers, Handlers

LEMMA Typed ==
    ASSUME TypeOK
    PROVE  /\ at \in [Handlers -> Places] /\ drive \in Drives /\ machine \in Machines
           /\ store \in Stores /\ writer \in Seq(Folders)
           /\ \A h \in Handlers : /\ at[h] \in Places /\ at[h].step \in StepNames
                                  /\ at[h].folder \in MaybeFolder /\ at[h].disk \in Disks
                                  /\ at[h].overlay \in Contents
  BY DEF TypeOK, Places, Drives, Machines, Stores, StepNames

LEMMA PlaceTypes ==
    /\ Idle \in Places /\ Idle.step = "idle" /\ Idle.folder = None /\ Idle.disk = 0
    /\ NoDrive \in Drives /\ NoDrive.folder = None /\ NoDrive.overlay = Blank
    /\ NoDrive.id = None /\ NoDrive.dirty = {} /\ NoDrive.lost = {} /\ NoDrive.attached = FALSE
    /\ Stopped \in Machines /\ Stopped.running = FALSE /\ Stopped.timer = FALSE
    /\ EmptyStore \in Stores
  BY Sizes DEF Idle, Places, StepNames, NoDrive, Drives, Stopped, Machines, EmptyStore, Stores

LEMMA Same ==
    ASSUME TypeOK, at' \in [Handlers -> Places], drive' \in Drives, machine' \in Machines,
           store' \in Stores, open' = open, page' \in {"none", "mounted"}, writer' = writer,
           user' \in 0..MaxUser, failures' \in 0..MaxFailures
    PROVE  TypeOK'
  BY DEF TypeOK, Places, Drives, Machines, Stores, StepNames

\* Who may wait for what.
LEMMA Whose ==
    ASSUME TypeOK, Control, NEW t \in Pending
    PROVE  /\ t \in Transactions /\ t.by \in Handlers /\ t.disk \in Disks
           /\ t.data \in 0..MaxWrites /\ t.op \in Ops
           /\ t.op = Awaited(at[t.by].step) /\ at[t.by].step \notin {"idle", "start", "scan", "acked"}
           /\ t.op \in {"put", "putC"} <=> t.by = "flush"
           /\ t.op \in {"getMeta", "load", "putMeta"} => t.by \in Mounts
           /\ t.op = "deleteMeta" => t.by = "disconnect"
           /\ t.op \in {"delete", "putMeta", "put"} => t.folder \in Folders
           /\ t.by \in Movers => Busy(t.by)
<1>1. PICK i \in 1..Len(txs) : t = txs[i]
  BY DEF Pending, Members
<1>2. t \in Transactions
  BY <1>1 DEF Control, Queue
<1>3. t.by \in Handlers /\ t.op \in Ops /\ t.disk \in Disks /\ t.data \in 0..MaxWrites
  BY <1>2 DEF Transactions
<1>4. t.op = Awaited(at[t.by].step) /\ (t.op \in {"delete", "putMeta", "put"} => t.folder \in Folders)
  BY DEF Control, Asked
<1>. QED  BY <1>2, <1>3, <1>4, Names DEF Awaited, Ops, Control, Steps, MountSteps, Busy

\* A handler that waits for nothing may ask for a transaction.
LEMMA Asks ==
    ASSUME TypeOK, Control, NEW t \in Transactions, txs' = Append(txs, t),
           at[t.by].step \in {"idle", "start", "scan", "acked"},
           t.op = "put" => drive.folder # None /\ t.by # "disconnect"
    PROVE  Queue(txs') /\ Pending' = Pending \union {t} /\ t \notin Pending
<1>1. \A u \in Pending : u.by # t.by
  BY Whose
<1>2. ASSUME t.op = "put", NEW u \in Pending
      PROVE  u.by # "disconnect"
  BY <1>2, Whose, Names DEF Control, Leaving, Busy
<1>. QED  BY <1>1, <1>2, Appended DEF Pending, Control

\* A handler whose transaction has finished.
LEMMA Waited ==
    ASSUME TypeOK, Control, NEW h \in Handlers, NEW op \in Ops, NEW i \in 1..Len(txs),
           Finishing(h, op, i)
    PROVE  /\ txs[i] \in Pending /\ txs[i].by = h /\ txs[i].op = op /\ Awaited(at[h].step) = op
           /\ txs[i] \in Transactions
           /\ h \in Movers => Busy(h)
           /\ \A u \in Pending : u.by = h => u = txs[i]
           /\ h = "disconnect" /\ op \in {"delete", "deleteMeta"} => NoPuts
<1>1. txs[i] \in Pending /\ txs[i].by = h /\ txs[i].op = op
  BY DEF Pending, Members, Finishing
<1>2. \A u \in Pending : u.by = h => u = txs[i]
  BY <1>1 DEF Pending, Members, Control, Queue, Distinct
<1>3. ASSUME h = "disconnect", op \in {"delete", "deleteMeta"}, NEW u \in Pending, u.op = "put"
      PROVE  FALSE
  <2>1. PICK j \in 1..Len(txs) : u = txs[j]
    BY DEF Pending, Members
  <2>2. j < i
    BY <2>1, <1>1, <1>3 DEF Control, Queue, PutsFirst
  <2>3. j \in 1..(i - 1)
    BY <2>2
  <2>4. "chunks" \in Scope(txs[j]) \intersect Scope(txs[i])
    BY <2>1, <1>1, <1>3 DEF Scope
  <2>. QED  BY <2>3, <2>4 DEF Finishing
<1>. QED  BY <1>1, <1>2, <1>3, Whose DEF NoPuts

\* Nothing is put while a mount is under way.
LEMMA MountingAlone ==
    ASSUME TypeOK, Control, NEW h \in Mounts, Busy(h)
    PROVE  /\ \A g \in Movers : g # h => ~Busy(g)
           /\ at["disconnect"].step = "idle"
           /\ \A u \in Pending : u.by = h \/ u.by = "flush"
           /\ ~drive.attached /\ drive.dirty = {} /\ NoPuts
<1>1. \A g \in Movers : g # h => ~Busy(g)
  BY Names DEF Control, OneMoves
<1>2. at["disconnect"].step = "idle"
  BY <1>1, Names DEF Control, Steps, Leaving, Busy
<1>3. \A u \in Pending : u.by = h \/ u.by = "flush"
  BY <1>1, Whose, Names
<1>4. ~drive.attached /\ drive.dirty = {}
  BY Names DEF Control, DriveOK
<1>. QED  BY <1>1, <1>2, <1>3, <1>4, Names DEF Control, PutsOK, NoPuts, Busy

\* A transaction finishes whose handler asks for no other.
LEMMA Leaves ==
    ASSUME TypeOK, Control, NEW h \in Handlers, NEW op \in Ops, NEW i \in 1..Len(txs),
           Finishing(h, op, i), txs' = Replaced(i, << >>)
    PROVE  Queue(txs') /\ \A u : u \in Pending' <=> u \in Pending /\ u.by # h
<1>1. Queue(txs') /\ Pending' = Pending \ {txs[i]}
  BY Finished DEF Control, Pending
<1>. QED  BY <1>1, Waited

LEMMA RestartTypes ==
    ASSUME machine \in Machines, NEW h
    PROVE  /\ Restarted(h) \in Machines /\ Restarted(h).ticks > 0
           /\ Stranded => /\ machine' \in Machines /\ machine'.running = machine.running
                          /\ machine'.ticks = machine.ticks /\ machine'.timer = machine.timer
<1>1. machine.ticks + 1 \in Nat /\ machine.ticks + 1 > 0
  BY DEF Machines
<1>. QED  BY <1>1 DEF Restarted, Stranded, Machines

LEMMA ScannedStep ==
    ASSUME IInv, NEW h \in Mounts, Scanned(h)
    PROVE  IInv'
<1> DEFINE t == Tx("getMeta", h, None, 0, 0)
<1>1. /\ h \in Handlers /\ TypeOK /\ Control /\ at[h].step = "scan" /\ Busy(h)
      /\ at \in [Handlers -> Places]
  BY Names, Typed DEF IInv, Scanned, Busy
<1>2. /\ at' = [at EXCEPT ![h].step = "getMeta"] /\ txs' = Append(txs, t)
      /\ UNCHANGED <<open, drive, machine, page, store, writer, user, failures>>
  BY DEF Scanned
<1>3. /\ at' \in [Handlers -> Places] /\ \A g \in Handlers : g # h => at'[g] = at[g]
      /\ at'[h].step = "getMeta" /\ at'[h].folder = at[h].folder
  BY <1>1, <1>2 DEF Places, StepNames
<1>4. t \in Transactions /\ t.op = "getMeta" /\ t.by = h
  BY <1>1, Sizes DEF Tx, Transactions, Ops
<1> HIDE DEF t
<1>5. Queue(txs') /\ Pending' = Pending \union {t}
  BY <1>1, <1>2, <1>4, Asks
<1>6. TypeOK'
  BY <1>1, <1>2, <1>3, Same, Typed DEF TypeOK
<1>7. Control'
  <2>1. Asked'
    BY <1>1, <1>3, <1>4, <1>5, Whose DEF Control, Asked, Awaited
  <2>2. Steps'
    BY <1>1, <1>3, Names DEF Control, Steps, MountSteps
  <2>3. OneMoves'
    BY <1>1, <1>3, MountingAlone, Names DEF OneMoves, Busy
  <2>4. Shut' /\ Mounting' /\ Leaving'
    BY <1>1, <1>2, <1>3, Names DEF Control, Shut, Mounting, Leaving, Busy
  <2>5. DriveOK' /\ PutsOK'
    BY <1>1, <1>2, <1>3, <1>4, <1>5, MountingAlone, Names DEF DriveOK, PutsOK, NoPuts
  <2>. QED  BY <1>5, <2>1, <2>2, <2>3, <2>4, <2>5 DEF Control
<1>8. Owned' /\ Loading' /\ Deleting'
  BY <1>1, <1>2, <1>3, <1>4, <1>5, Names
     DEF IInv, Owned, WrittenBy, Loading, Deleting, Emptied, NoPuts
<1>9. Gone' /\ Clean' /\ RunningHasTick'
  BY <1>1, <1>2, <1>3, <1>4, <1>5, Names
     DEF IInv, Gone, Emptied, Clean, Held, Settled, RunningHasTick
<1>. QED  BY <1>6, <1>7, <1>8, <1>9 DEF IInv

\* What a transaction makes of the database.
LEMMA AppliedEffect ==
    ASSUME NEW s \in Stores, NEW t \in Transactions,
           t.op \in {"delete", "putMeta", "put"} => t.folder \in Folders
    PROVE  /\ Applied(t, s) \in Stores
           /\ t.op \in {"put", "delete"} =>
                /\ Applied(t, s).meta = s.meta
                /\ \A f \in Folders, d \in Disks :
                      Applied(t, s).overlays[f][d] =
                          IF f = t.folder /\ d = t.disk THEN (IF t.op = "put" THEN t.data ELSE 0)
                          ELSE s.overlays[f][d]
           /\ t.op = "putMeta" => Applied(t, s).overlays = s.overlays
           /\ t.op = "deleteMeta" => Applied(t, s).overlays = s.overlays /\ Applied(t, s).meta = None
           /\ t.op = "putC" => Applied(t, s) = s
<1>1. /\ s = [meta |-> s.meta, overlays |-> s.overlays] /\ s.meta \in MaybeFolder
      /\ s.overlays \in [Folders -> [Disks -> 0..MaxWrites]]
      /\ t.op \in Ops /\ t.disk \in Disks /\ t.data \in 0..MaxWrites
  BY DEF Stores, Transactions, Contents
<1>2. ASSUME NEW v \in 0..MaxWrites, t.folder \in Folders,
             Applied(t, s) = [s EXCEPT !.overlays[t.folder][t.disk] = v]
      PROVE  /\ Applied(t, s) \in Stores /\ Applied(t, s).meta = s.meta
             /\ \A f \in Folders, d \in Disks :
                   Applied(t, s).overlays[f][d] =
                       IF f = t.folder /\ d = t.disk THEN v ELSE s.overlays[f][d]
  <2> DEFINE r == [s.overlays EXCEPT ![t.folder][t.disk] = v]
  <2>1. [s EXCEPT !.overlays[t.folder][t.disk] = v] = [meta |-> s.meta, overlays |-> r]
    <3> DEFINE o == s.overlays
               m == s.meta
    <3>1. s = [meta |-> m, overlays |-> o]
      BY <1>1
    <3>2. r = [o EXCEPT ![t.folder][t.disk] = v]
      OBVIOUS
    <3> HIDE DEF o, m, r
    <3>3. [s EXCEPT !.overlays[t.folder][t.disk] = v] = [meta |-> m, overlays |-> r]
      BY <3>1, <3>2
    <3>. QED  BY <3>3 DEF m
  <2>2. r \in [Folders -> [Disks -> 0..MaxWrites]]
    BY <1>1, <1>2
  <2>3. \A f \in Folders, d \in Disks :
            r[f][d] = IF f = t.folder /\ d = t.disk THEN v ELSE s.overlays[f][d]
    BY <1>1, <1>2
  <2> HIDE DEF r
  <2>4. Applied(t, s) = [meta |-> s.meta, overlays |-> r]
    BY <1>2, <2>1
  <2>5. s.meta \in MaybeFolder
    BY <1>1
  <2>6. Applied(t, s) \in Stores
    BY <2>2, <2>4, <2>5 DEF Stores, Contents
  <2>. QED  BY <2>3, <2>4, <2>6
<1>3. CASE t.op = "put"
  <2>1. Applied(t, s) = [s EXCEPT !.overlays[t.folder][t.disk] = t.data]
    BY <1>3 DEF Applied
  <2>. QED  BY <1>1, <1>2, <1>3, <2>1
<1>4. CASE t.op = "delete"
  <2>1. Applied(t, s) = [s EXCEPT !.overlays[t.folder][t.disk] = 0]
    BY <1>4 DEF Applied
  <2>2. t.folder \in Folders /\ 0 \in 0..MaxWrites
    BY <1>4, Sizes
  <2>3. /\ Applied(t, s) \in Stores /\ Applied(t, s).meta = s.meta
        /\ \A f \in Folders, d \in Disks :
              Applied(t, s).overlays[f][d] = IF f = t.folder /\ d = t.disk THEN 0
                                             ELSE s.overlays[f][d]
    BY <2>1, <2>2, <1>2
  <2>. QED  BY <1>4, <2>3
<1>5. CASE t.op = "putMeta"
  <2>1. Applied(t, s) = [s EXCEPT !.meta = t.folder]
    BY <1>5 DEF Applied
  <2>. QED  BY <1>1, <1>5, <2>1, Sizes DEF Stores, Contents
<1>6. CASE t.op = "deleteMeta"
  <2>1. Applied(t, s) = [s EXCEPT !.meta = None]
    BY <1>6 DEF Applied
  <2>. QED  BY <1>1, <1>6, <2>1, Sizes DEF Stores, Contents
<1>7. CASE t.op \notin {"put", "delete", "putMeta", "deleteMeta"}
  BY <1>7 DEF Applied
<1>. QED  BY <1>3, <1>4, <1>5, <1>6, <1>7

\* A mount goes on to the next deletion, or begins to load.
LEMMA Prepares ==
    ASSUME IInv, NEW h \in Mounts, NEW i \in 1..Len(txs), NEW op \in {"getMeta", "delete"},
           Finishing(h, op, i),
           NEW t \in Transactions, t.by = h, t.op \in {"delete", "load"},
           t.op = "delete" => t.folder \in Folders,
           t.op = "load" => at'[h].disk = 0 /\ drive'.id = at[h].folder,
           drive'.attached = drive.attached, drive'.dirty = drive.dirty,
           txs' = Replaced(i, <<t>>), at' \in [Handlers -> Places],
           \A g \in Handlers : g # h => at'[g] = at[g],
           at'[h].step = t.op, at'[h].folder = at[h].folder,
           drive' \in Drives, drive'.folder = drive.folder, drive'.overlay = drive.overlay,
           store' \in Stores, \A f \in Folders, d \in Disks :
                                  store'.overlays[f][d] \in {0, store.overlays[f][d]},
           UNCHANGED <<open, machine, page, writer, user, failures>>
    PROVE  IInv'
<1>1. /\ h \in Handlers /\ TypeOK /\ Control /\ at \in [Handlers -> Places] /\ op \in Ops
      /\ at[h].step = op /\ Busy(h)
  BY Names, Typed, Waited DEF IInv, Ops, Control, Steps, MountSteps, Awaited
<1>2. ~drive.attached /\ drive.dirty = {} /\ at["disconnect"].step = "idle" /\ NoPuts
      /\ \A g \in Movers : g # h => ~Busy(g)
  BY <1>1, MountingAlone
<1>3. Queue(txs') /\ Pending' = (Pending \ {txs[i]}) \union {t}
  BY <1>1, Waited, Continued DEF Control, Pending
<1>4. /\ \A u \in Pending' : u = t \/ (u \in Pending /\ u.by # h)
      /\ NoPuts'
  BY <1>1, <1>2, <1>3, Waited DEF NoPuts
<1>5. TypeOK'
  BY <1>1, Same, Typed DEF TypeOK
<1>6. Control'
  <2>1. Asked'
    BY <1>1, <1>4, Whose DEF Control, Asked, Awaited
  <2>2. Steps'
    BY <1>1, Names DEF Control, Steps, MountSteps
  <2>3. OneMoves'
    BY <1>2, Names DEF OneMoves, Busy
  <2>4. Shut' /\ Mounting' /\ Leaving'
    BY <1>1, <1>2, Names DEF Control, Shut, Mounting, Leaving, Busy
  <2>5. DriveOK' /\ PutsOK'
    BY <1>2, <1>4 DEF DriveOK, PutsOK, NoPuts
  <2>. QED  BY <1>3, <2>1, <2>2, <2>3, <2>4, <2>5 DEF Control
<1>7. Owned'
  BY <1>4, Typed DEF IInv, Owned, WrittenBy, NoPuts
<1>8. Loading'
  <2>1. \A g \in Mounts : at'[g].step = "load" => g = h /\ t.op = "load" /\ at'[h].disk = 0
    BY <1>2, Names DEF Busy
  <2>. QED  BY <2>1, Sizes DEF Loading
<1>9. Deleting' /\ Gone' /\ RunningHasTick'
  BY <1>1, <1>2, <1>4, Names, Whose DEF IInv, Deleting, Gone, RunningHasTick
<1>10. Clean'
  <2>1. \A g \in Mounts : at'[g].step # "putMeta"
    BY <1>2, Names DEF Busy
  <2>. QED  BY <1>2, <2>1 DEF Clean, Held
<1>. QED  BY <1>5, <1>6, <1>7, <1>8, <1>9, <1>10 DEF IInv

LEMMA StartLoadingStep ==
    ASSUME IInv, NEW h \in Mounts, NEW i \in 1..Len(txs), NEW op \in {"getMeta", "delete"},
           Finishing(h, op, i), StartLoading(h, i),
           store' \in Stores, \A f \in Folders, d \in Disks :
                                  store'.overlays[f][d] \in {0, store.overlays[f][d]},
           UNCHANGED <<open, machine, page, writer, user, failures>>
    PROVE  IInv'
<1> DEFINE t == Tx("load", h, at[h].folder, 0, 0)
<1>1. /\ h \in Handlers /\ at \in [Handlers -> Places] /\ drive \in Drives
      /\ at[h].folder \in MaybeFolder
  BY Names, Typed DEF IInv
<1>2. /\ drive' = [drive EXCEPT !.id = at[h].folder] /\ txs' = Replaced(i, <<t>>)
      /\ at' = [at EXCEPT ![h].step = "load", ![h].disk = 0]
  BY DEF StartLoading
<1>3. /\ at' \in [Handlers -> Places] /\ \A g \in Handlers : g # h => at'[g] = at[g]
      /\ at'[h].step = "load" /\ at'[h].folder = at[h].folder /\ at'[h].disk = 0
  BY <1>1, <1>2, Sizes DEF Places, StepNames
<1>4. t \in Transactions /\ t.op = "load" /\ t.by = h
  BY <1>1, Sizes DEF Tx, Transactions, Ops
<1>5. /\ drive' \in Drives /\ drive'.folder = drive.folder /\ drive'.overlay = drive.overlay
      /\ drive'.id = at[h].folder /\ drive'.attached = drive.attached
      /\ drive'.dirty = drive.dirty
  BY <1>1, <1>2 DEF Drives
<1> HIDE DEF t
<1>. QED  BY <1>2, <1>3, <1>4, <1>5, Prepares

LEMMA GotMetaStep ==
    ASSUME IInv, NEW h \in Mounts, GotMeta(h)
    PROVE  IInv'
<1>1. PICK i \in 1..Len(txs) :
        /\ Finishing(h, "getMeta", i)
        /\ IF store.meta \in {None, at[h].folder}
           THEN StartLoading(h, i)
           ELSE /\ at' = [at EXCEPT ![h].step = "delete", ![h].disk = 0]
                /\ txs' = Replaced(i, <<Tx("delete", h, store.meta, 0, 0)>>)
                /\ UNCHANGED drive
  BY DEF GotMeta
<1>2. UNCHANGED <<open, machine, page, store, writer, user, failures>>
  BY DEF GotMeta
<1>3. /\ h \in Handlers /\ at \in [Handlers -> Places] /\ drive \in Drives /\ store \in Stores
  BY Names, Typed DEF IInv
<1>4. CASE store.meta \in {None, at[h].folder}
  BY <1>1, <1>2, <1>3, <1>4, StartLoadingStep
<1>5. CASE store.meta \notin {None, at[h].folder}
  <2> DEFINE t == Tx("delete", h, store.meta, 0, 0)
  <2>1. store.meta \in Folders
    BY <1>3, <1>5 DEF Stores, MaybeFolder
  <2>2. t \in Transactions /\ t.op = "delete" /\ t.by = h /\ t.folder \in Folders
    BY <1>3, <2>1, Sizes DEF Tx, Transactions, Ops
  <2>3. /\ at' \in [Handlers -> Places] /\ \A g \in Handlers : g # h => at'[g] = at[g]
        /\ at'[h].step = "delete" /\ at'[h].folder = at[h].folder /\ at'[h].disk = 0
    BY <1>1, <1>3, <1>5, Sizes DEF Places, StepNames
  <2>4. txs' = Replaced(i, <<t>>) /\ drive' = drive
    BY <1>1, <1>5
  <2> HIDE DEF t
  <2>. QED  BY <1>1, <1>2, <1>3, <2>2, <2>3, <2>4, Prepares
<1>. QED  BY <1>4, <1>5

LEMMA OldDeletedStep ==
    ASSUME IInv, NEW h \in Mounts, OldDeleted(h)
    PROVE  IInv'
<1>1. PICK i \in 1..Len(txs) :
        /\ Finishing(h, "delete", i)
        /\ store' = Applied(txs[i], store)
        /\ IF txs[i].disk + 1 < NDisks
           THEN /\ at' = [at EXCEPT ![h].disk = txs[i].disk + 1]
                /\ txs' = Replaced(i, <<Tx("delete", h, txs[i].folder, txs[i].disk + 1, 0)>>)
                /\ UNCHANGED drive
           ELSE StartLoading(h, i)
  BY DEF OldDeleted
<1>2. UNCHANGED <<open, machine, page, writer, user, failures>>
  BY DEF OldDeleted
<1>3. /\ h \in Handlers /\ at \in [Handlers -> Places] /\ drive \in Drives /\ store \in Stores
      /\ TypeOK /\ Control
  BY Names, Typed DEF IInv
<1>4. /\ txs[i] \in Pending /\ txs[i] \in Transactions /\ txs[i].op = "delete"
      /\ txs[i].folder \in Folders /\ txs[i].disk \in Disks /\ at[h].step = "delete"
  BY <1>1, <1>3, Waited, Whose DEF Ops, Awaited
<1>5. /\ store' \in Stores
      /\ \A f \in Folders, d \in Disks : store'.overlays[f][d] \in {0, store.overlays[f][d]}
  BY <1>1, <1>3, <1>4, AppliedEffect
<1>6. CASE ~(txs[i].disk + 1 < NDisks)
  BY <1>1, <1>2, <1>5, <1>6, StartLoadingStep
<1>7. CASE txs[i].disk + 1 < NDisks
  <2> DEFINE t == Tx("delete", h, txs[i].folder, txs[i].disk + 1, 0)
  <2>1. txs[i].disk + 1 \in Disks
    BY <1>4, <1>7, Sizes
  <2>2. t \in Transactions /\ t.op = "delete" /\ t.by = h /\ t.folder \in Folders
    BY <1>3, <1>4, <2>1, Sizes DEF Tx, Transactions, Ops
  <2>3. /\ at' \in [Handlers -> Places] /\ \A g \in Handlers : g # h => at'[g] = at[g]
        /\ at'[h].step = "delete" /\ at'[h].folder = at[h].folder
    BY <1>1, <1>3, <1>4, <1>7, <2>1 DEF Places
  <2>4. txs' = Replaced(i, <<t>>) /\ drive' = drive
    BY <1>1, <1>7
  <2> HIDE DEF t
  <2>. QED  BY <1>1, <1>2, <1>3, <1>5, <2>2, <2>3, <2>4, Prepares
<1>. QED  BY <1>6, <1>7

LEMMA LoadedStep ==
    ASSUME IInv, NEW h \in Mounts, Loaded(h)
    PROVE  IInv'
<1> DEFINE d == at[h].disk
           f == at[h].folder
           loaded == [at[h].overlay EXCEPT ![d] = store.overlays[f][d]]
<1>1. PICK i \in 1..Len(txs) :
        /\ Finishing(h, "load", i)
        /\ IF d + 1 < NDisks
           THEN /\ at' = [at EXCEPT ![h].disk = d + 1, ![h].overlay = loaded]
                /\ txs' = Replaced(i, <<Tx("load", h, f, d + 1, 0)>>)
                /\ UNCHANGED drive
           ELSE /\ drive' = [drive EXCEPT !.folder = f, !.overlay = loaded, !.dirty = {},
                                           !.lost = {}]
                /\ at' = [at EXCEPT ![h].step = "putMeta"]
                /\ txs' = Replaced(i, <<Tx("putMeta", h, f, 0, 0)>>)
  BY DEF Loaded
<1>2. UNCHANGED <<open, machine, page, store, writer, user, failures>>
  BY DEF Loaded
<1>3. /\ h \in Handlers /\ at \in [Handlers -> Places] /\ drive \in Drives /\ store \in Stores
      /\ TypeOK /\ Control /\ at[h].step = "load" /\ Busy(h)
  BY <1>1, Names, Typed, Waited DEF IInv, Ops, Awaited, Control, Steps, MountSteps
<1>4. /\ d \in Disks /\ f \in Folders /\ at[h].overlay \in Contents
      /\ store.overlays[f] \in Contents
  BY <1>3, Typed DEF Control, Steps, Stores
<1>5. /\ ~drive.attached /\ drive.id = f /\ at["disconnect"].step = "idle" /\ NoPuts
      /\ drive.dirty = {}
      /\ \A g \in Movers : g # h => ~Busy(g)
  BY <1>3, MountingAlone DEF Control, Mounting
<1>6. /\ loaded \in Contents
      /\ \A e \in Disks : e = d \/ e < d => loaded[e] = store.overlays[f][e]
  <2>1. /\ loaded \in Contents
        /\ \A e \in Disks : loaded[e] = IF e = d THEN store.overlays[f][e] ELSE at[h].overlay[e]
    BY <1>4 DEF Contents
  <2>2. \A e \in Disks : e < d => at[h].overlay[e] = store.overlays[f][e]
    BY <1>3 DEF IInv, Loading
  <2> HIDE DEF loaded, f, d
  <2>. QED  BY <2>1, <2>2
<1>7. \A u \in Pending : u.by = h => u = txs[i]
  BY <1>1, <1>3, Waited DEF Ops
<1>8. CASE d + 1 < NDisks
  <2> DEFINE t == Tx("load", h, f, d + 1, 0)
  <2>1. d + 1 \in Disks
    BY <1>4, <1>8, Sizes
  <2>2. t \in Transactions /\ t.op = "load" /\ t.by = h
    BY <1>3, <1>4, <2>1, Sizes DEF Tx, Transactions, Ops
  <2>3. at' = [at EXCEPT ![h].disk = d + 1, ![h].overlay = loaded] /\ drive' = drive
    BY <1>1, <1>8
  <2>4. txs' = Replaced(i, <<t>>)
    BY <1>1, <1>8
  <2> HIDE DEF t, loaded
  <2>5. /\ at' \in [Handlers -> Places] /\ \A g \in Handlers : g # h => at'[g] = at[g]
        /\ at'[h].step = "load" /\ at'[h].folder = f /\ at'[h].disk = d + 1
        /\ at'[h].overlay = loaded
    <3> DEFINE r == [at[h] EXCEPT !.disk = d + 1, !.overlay = loaded]
    <3>1. at[h] \in Places
      BY <1>3, Typed
    <3>2. /\ r \in Places /\ r.step = at[h].step /\ r.folder = at[h].folder /\ r.disk = d + 1
          /\ r.overlay = loaded
      BY <3>1, <2>1, <1>6 DEF Places
    <3>3. at' = [at EXCEPT ![h] = r]
      BY <2>3, <1>3
    <3> HIDE DEF r
    <3>. QED  BY <3>2, <3>3, <1>3
  <2>6. Queue(txs') /\ Pending' = (Pending \ {txs[i]}) \union {t}
    BY <1>1, <1>3, <2>2, <2>4, Waited, Continued DEF Control, Pending, Ops
  <2>7. NoPuts' /\ \A u \in Pending' : u = t \/ (u \in Pending /\ u.by # h)
    BY <1>5, <1>7, <2>2, <2>6 DEF NoPuts
  <2>8. TypeOK'
    BY <1>2, <1>3, <2>3, <2>5, Same, Typed DEF TypeOK
  <2>9. Control'
    <3>1. Asked'
      BY <1>3, <2>2, <2>5, <2>7, Whose DEF Control, Asked, Awaited
    <3>2. Steps'
      BY <1>3, <1>4, <2>5, Names DEF Control, Steps, MountSteps
    <3>3. OneMoves'
      BY <1>5, <2>5, Names DEF OneMoves, Busy
    <3>4. Shut' /\ Mounting' /\ Leaving'
      BY <1>2, <1>3, <1>5, <2>3, <2>5, Names DEF Control, Shut, Mounting, Leaving, Busy
    <3>5. DriveOK' /\ PutsOK'
      BY <1>5, <2>3, <2>7 DEF DriveOK, PutsOK, NoPuts
    <3>. QED  BY <2>6, <3>1, <3>2, <3>3, <3>4, <3>5 DEF Control
  <2>10. Owned'
    BY <1>2, <2>3, <2>7 DEF IInv, Owned, WrittenBy, NoPuts
  <2>11. Loading'
    <3>1. \A g \in Mounts : at'[g].step = "load" => g = h
      BY <1>5, <2>5, Names DEF Busy
    <3>2. \A e \in Disks : e < d + 1 => e = d \/ e < d
      BY <1>4, Sizes
    <3>. QED  BY <3>1, <3>2, <1>2, <1>6, <2>5 DEF Loading
  <2>12. Deleting' /\ Gone' /\ RunningHasTick'
    BY <1>2, <1>3, <1>5, <2>2, <2>3, <2>5, <2>7, Names, Whose
       DEF IInv, Deleting, Gone, RunningHasTick
  <2>13. Clean'
    <3>1. \A g \in Mounts : at'[g].step # "putMeta"
      BY <1>5, <2>5, Names DEF Busy
    <3>. QED  BY <1>5, <2>3, <3>1 DEF Clean, Held
  <2>. QED  BY <2>8, <2>9, <2>10, <2>11, <2>12, <2>13 DEF IInv
<1>9. CASE ~(d + 1 < NDisks)
  <2> DEFINE t == Tx("putMeta", h, f, 0, 0)
  <2>1. \A e \in Disks : loaded[e] = store.overlays[f][e]
    <3>1. \A e \in Disks : e = d \/ e < d
      BY <1>4, <1>9, Sizes
    <3>. QED  BY <3>1, <1>6
  <2>2. t \in Transactions /\ t.op = "putMeta" /\ t.by = h /\ t.folder \in Folders
    BY <1>3, <1>4, Sizes DEF Tx, Transactions, Ops
  <2>3. /\ at' = [at EXCEPT ![h].step = "putMeta"] /\ txs' = Replaced(i, <<t>>)
        /\ drive' = [drive EXCEPT !.folder = f, !.overlay = loaded, !.dirty = {}, !.lost = {}]
    BY <1>1, <1>9
  <2> HIDE DEF t, loaded
  <2>4. /\ at' \in [Handlers -> Places] /\ \A g \in Handlers : g # h => at'[g] = at[g]
        /\ at'[h].step = "putMeta" /\ at'[h].folder = f
    BY <1>3, <2>3 DEF Places, StepNames
  <2>5. /\ drive' \in Drives /\ drive'.folder = f /\ drive'.overlay = loaded
        /\ drive'.id = f /\ drive'.folder # None /\ drive'.dirty = {} /\ ~drive'.attached
    BY <1>3, <1>4, <1>5, <1>6, <2>3, NoneAssumption, Sizes DEF Drives
  <2>6. Queue(txs') /\ Pending' = (Pending \ {txs[i]}) \union {t}
    BY <1>1, <1>3, <2>2, <2>3, Waited, Continued DEF Control, Pending, Ops
  <2>7. NoPuts' /\ \A u \in Pending' : u = t \/ (u \in Pending /\ u.by # h)
    BY <1>5, <1>7, <2>2, <2>6 DEF NoPuts
  <2>8. TypeOK'
    BY <1>2, <1>3, <2>4, <2>5, Same, Typed DEF TypeOK
  <2>9. Control'
    <3>1. Asked'
      BY <1>3, <2>2, <2>4, <2>7, Whose DEF Control, Asked, Awaited
    <3>2. Steps'
      BY <1>3, <1>4, <2>4, Names DEF Control, Steps, MountSteps
    <3>3. OneMoves'
      BY <1>5, <2>4, Names DEF OneMoves, Busy
    <3>4. Shut' /\ Mounting' /\ Leaving'
      BY <1>2, <1>3, <1>5, <2>4, <2>5, Names DEF Control, Shut, Mounting, Leaving, Busy
    <3>5. DriveOK' /\ PutsOK'
      BY <2>5, <2>7 DEF DriveOK, PutsOK, NoPuts
    <3>. QED  BY <2>6, <3>1, <3>2, <3>3, <3>4, <3>5 DEF Control
  <2>10. Owned'
    BY <1>2, <1>4, <2>1, <2>5, <2>7 DEF IInv, Owned, WrittenBy, NoPuts
  <2>11. Clean'
    BY <1>2, <2>1, <2>5, <2>7 DEF Clean, Settled, NoPuts
  <2>12. Loading' /\ Deleting' /\ Gone' /\ RunningHasTick'
    BY <1>2, <1>3, <1>5, <2>2, <2>4, <2>7, Names, Whose
       DEF IInv, Loading, Deleting, Gone, RunningHasTick, Busy
  <2>. QED  BY <2>8, <2>9, <2>10, <2>11, <2>12 DEF IInv
<1>. QED  BY <1>8, <1>9

\* A mount ends, well or not: whatever its transaction, if any, did to the folder's note.
LEMMA Ends ==
    ASSUME IInv, NEW h \in Mounts, Busy(h), at' = [at EXCEPT ![h] = Idle],
           machine' \in Machines, machine'.running => machine'.ticks > 0,
           Queue(txs'), \A u : u \in Pending' <=> u \in Pending /\ u.by # h,
           drive' \in Drives, drive'.folder = drive.folder, drive'.id = drive.id,
           drive'.overlay = drive.overlay, drive'.dirty = drive.dirty, drive'.lost = drive.lost,
           drive'.attached => at[h].step = "putMeta",
           store' \in Stores, store'.overlays = store.overlays, page' \in {"none", "mounted"},
           failures' \in 0..MaxFailures, UNCHANGED <<open, writer, user>>
    PROVE  IInv'
<1>1. /\ h \in Handlers /\ at \in [Handlers -> Places] /\ TypeOK /\ Control
  BY Names, Typed DEF IInv
<1>2. /\ \A g \in Movers : g # h => ~Busy(g)
      /\ at["disconnect"].step = "idle" /\ NoPuts /\ drive.dirty = {}
  BY <1>1, MountingAlone
<1>3. /\ at' \in [Handlers -> Places] /\ at'[h].step = "idle"
      /\ \A g \in Handlers : g # h => at'[g] = at[g]
  BY <1>1, PlaceTypes
<1>4. NoPuts'
  BY <1>2 DEF NoPuts
<1>5. TypeOK'
  BY <1>1, <1>3, Typed DEF TypeOK, Places, Drives, Machines, Stores, StepNames
<1>6. \A g \in Movers : ~Busy(g)'
  BY <1>2, <1>3, Names DEF Busy
<1>7. Control'
  <2>1. Asked'
    BY <1>1, <1>3, Whose DEF Control, Asked
  <2>2. Steps'
    BY <1>1, <1>3, Names DEF Control, Steps, MountSteps
  <2>3. OneMoves'
    BY <1>6 DEF OneMoves
  <2>4. Shut' /\ Mounting' /\ Leaving'
    BY <1>1, <1>2, <1>3, Names DEF Control, Shut, Mounting, Leaving, Busy
  <2>5. DriveOK'
    BY <1>1, <1>2, <1>6 DEF Control, Steps, Mounting, DriveOK
  <2>6. PutsOK'
    BY <1>4 DEF PutsOK, NoPuts
  <2>. QED  BY <2>1, <2>2, <2>3, <2>4, <2>5, <2>6 DEF Control
<1>8. Owned'
  BY <1>4 DEF IInv, Owned, WrittenBy, NoPuts
<1>9. Clean'
  <2>1. Held' => Held
    BY <1>6, Names DEF Held, Busy
  <2>. QED  BY <1>2, <1>4, <2>1 DEF IInv, Clean, Settled, NoPuts
<1>10. Loading'
  BY <1>6, Names DEF Loading, Busy
<1>11. Deleting' /\ Gone' /\ RunningHasTick'
  BY <1>1, <1>2, <1>3, Names, Whose DEF Deleting, Gone, RunningHasTick
<1>. QED  BY <1>5, <1>7, <1>8, <1>9, <1>10, <1>11 DEF IInv

LEMMA MountedStep ==
    ASSUME IInv, NEW h \in Mounts, Mounted(h)
    PROVE  IInv'
<1>1. PICK i \in 1..Len(txs) :
        /\ Finishing(h, "putMeta", i)
        /\ store' = Applied(txs[i], store)
        /\ txs' = Replaced(i, << >>)
  BY DEF Mounted
<1>2. /\ drive' = [drive EXCEPT !.attached = TRUE] /\ page' = "mounted"
      /\ at' = [at EXCEPT ![h] = Idle] /\ machine' = Restarted(h)
      /\ UNCHANGED <<open, writer, user, failures>>
  BY DEF Mounted
<1>3. /\ h \in Handlers /\ drive \in Drives /\ store \in Stores /\ machine \in Machines
      /\ TypeOK /\ Control /\ at[h].step = "putMeta" /\ Busy(h) /\ failures \in 0..MaxFailures
  BY <1>1, Names, Typed, Waited DEF IInv, TypeOK, Ops, Awaited, Control, Steps, MountSteps
<1>4. /\ store' \in Stores /\ store'.overlays = store.overlays
  BY <1>1, <1>3, Waited, Whose, AppliedEffect DEF Ops
<1>5. /\ drive' \in Drives /\ drive'.folder = drive.folder /\ drive'.overlay = drive.overlay
      /\ drive'.id = drive.id /\ drive'.dirty = drive.dirty /\ drive'.lost = drive.lost
  BY <1>2, <1>3 DEF Drives
<1>6. machine' \in Machines /\ machine'.ticks > 0
  BY <1>2, <1>3, RestartTypes
<1>7. Queue(txs') /\ \A u : u \in Pending' <=> u \in Pending /\ u.by # h
  BY <1>1, <1>3, Leaves DEF Ops
<1>. QED  BY <1>2, <1>3, <1>4, <1>5, <1>6, <1>7, Ends

LEMMA ScanFailsStep ==
    ASSUME IInv, NEW h \in Mounts, at[h].step \in {"start", "scan"},
           at' = [at EXCEPT ![h] = Idle], machine' = Restarted(h) \/ Stranded,
           failures' \in 0..MaxFailures, UNCHANGED <<open, drive, page, store, txs, writer, user>>
    PROVE  IInv'
<1>1. /\ machine \in Machines /\ TypeOK /\ Control /\ Busy(h) /\ drive \in Drives
      /\ store \in Stores /\ page \in {"none", "mounted"}
  BY Typed DEF IInv, Busy, TypeOK
<1>2. machine' \in Machines /\ (machine'.running => machine'.ticks > 0)
  BY <1>1, RestartTypes DEF IInv, RunningHasTick
<1>3. Pending' = Pending /\ Queue(txs') /\ \A u \in Pending : u.by # h
  BY <1>1, Whose DEF Pending, Control
<1>4. ~drive'.attached
  BY <1>1, MountingAlone
<1>. QED  BY <1>1, <1>2, <1>3, <1>4, Ends

LEMMA MountFailsStep ==
    ASSUME IInv, NEW h \in Mounts, MountFails(h)
    PROVE  IInv'
<1>1. PICK i \in 1..Len(txs), op \in {"getMeta", "delete", "load", "putMeta"} :
        /\ Finishing(h, op, i)
        /\ txs' = Replaced(i, << >>)
        /\ \/ /\ drive' = [drive EXCEPT !.attached = @ \/ (h = "boot" /\ drive.folder # None)]
              /\ machine' = Restarted(h)
           \/ Stranded /\ UNCHANGED drive
  BY DEF MountFails
<1>2. /\ at' = [at EXCEPT ![h] = Idle] /\ failures' = failures + 1 /\ failures < MaxFailures
      /\ UNCHANGED <<open, page, store, writer, user>>
  BY DEF MountFails, Failing
<1>3. /\ h \in Handlers /\ h \in Movers /\ drive \in Drives /\ store \in Stores
      /\ machine \in Machines /\ TypeOK /\ Control /\ Busy(h) /\ failures \in 0..MaxFailures
      /\ page \in {"none", "mounted"} /\ at[h].step = op
  BY <1>1, Names, Typed, Waited DEF IInv, TypeOK, Ops, Awaited, Control, Steps, MountSteps
<1>4. failures' \in 0..MaxFailures
  BY <1>2, <1>3, Sizes
<1>5. machine' \in Machines /\ (machine'.running => machine'.ticks > 0)
  BY <1>1, <1>3, RestartTypes DEF IInv, RunningHasTick
<1>6. Queue(txs') /\ \A u : u \in Pending' <=> u \in Pending /\ u.by # h
  BY <1>1, <1>3, Leaves DEF Ops
<1>7. /\ drive' \in Drives /\ drive'.folder = drive.folder /\ drive'.overlay = drive.overlay
      /\ drive'.id = drive.id /\ drive'.dirty = drive.dirty /\ drive'.lost = drive.lost
      /\ drive'.attached => drive.attached \/ (h = "boot" /\ drive.folder # None)
  BY <1>1, <1>3 DEF Drives
<1>8. drive'.attached => at[h].step = "putMeta"
  BY <1>1, <1>3, <1>7, MountingAlone DEF Control, Mounting
<1>. QED  BY <1>2, <1>3, <1>4, <1>5, <1>6, <1>7, <1>8, Ends

\* A mount begins: the page was opened, boot has found a folder, or the user connects one.
LEMMA Begins ==
    ASSUME IInv, NEW h \in Mounts, open'.now = TRUE, open' \in [now : BOOLEAN, times : 0..MaxOpens],
           h = "boot" => drive.folder = None, ~drive.attached,
           \A g \in Movers : g # h => ~Busy(g),
           at[h].step \in {"idle", "start"}, at' \in [Handlers -> Places],
           \A g \in Handlers \ {h, "disconnect"} : at'[g] = at[g],
           at'["disconnect"].step = "idle",
           at'[h].step \in {"start", "scan"}, at'[h].step = "scan" => at'[h].folder \in Folders,
           machine' \in Machines, machine'.running = TRUE => machine = machine',
           user' \in 0..MaxUser, NoPuts,
           UNCHANGED <<drive, page, store, txs, writer, failures>>
    PROVE  IInv'
<1>1. /\ h \in Handlers /\ at \in [Handlers -> Places] /\ TypeOK /\ Control
  BY Names, Typed DEF IInv
<1>2. Queue(txs') /\ Pending' = Pending
      /\ \A u \in Pending : u.by \notin {h, "disconnect"} /\ u \in Transactions
  <2>1. \A u \in Pending : u.by # h /\ u \in Transactions
    BY <1>1, Whose
  <2>2. \A u \in Pending : u.by # "disconnect"
    BY <1>1, Whose, Names
  <2>. QED  BY <1>1, <2>1, <2>2 DEF Control, Pending
<1>3. TypeOK'
  BY <1>1, Typed DEF TypeOK, Places, StepNames, Machines
<1>4. Control'
  <2>1. Asked'
    BY <1>1, <1>2, Whose DEF Control, Asked
  <2>2. Steps'
    BY <1>1, Names DEF Control, Steps, MountSteps
  <2>3. OneMoves'
    BY Names DEF OneMoves, Busy
  <2>4. Shut' /\ Mounting' /\ Leaving'
    BY <1>1, Names DEF Control, Shut, Mounting, Leaving, Busy
  <2>5. DriveOK' /\ PutsOK'
    BY <1>1, <1>2 DEF Control, DriveOK, PutsOK, NoPuts
  <2>. QED  BY <1>2, <2>1, <2>2, <2>3, <2>4, <2>5 DEF Control
<1>5. Owned'
  BY <1>2 DEF IInv, Owned, WrittenBy
<1>6. Loading' /\ Clean'
  BY Names DEF Loading, Clean, Held, Busy
<1>7. Deleting' /\ Gone' /\ RunningHasTick'
  BY <1>2 DEF IInv, Deleting, NoPuts, Gone, RunningHasTick
<1>. QED  BY <1>3, <1>4, <1>5, <1>6, <1>7 DEF IInv

\* Nothing is mounting or being disconnected, and no drive is attached.
LEMMA Unmounted ==
    ASSUME TypeOK, Control, \A g \in Movers : ~Busy(g), ~drive.attached
    PROVE  NoPuts
<1>1. ~Busy("disconnect")
  BY Names
<1>. QED  BY <1>1 DEF Control, PutsOK, NoPuts

LEMMA OpenPageStep ==
    ASSUME IInv, OpenPage
    PROVE  IInv'
<1>1. /\ at \in [Handlers -> Places] /\ TypeOK /\ Control /\ "boot" \in Handlers
      /\ "boot" \in Mounts /\ "boot" # "disconnect" /\ "disconnect" \in Handlers
  BY Names, Typed DEF IInv
<1>2. \A g \in Handlers : at[g].step = "idle"
  BY DEF OpenPage, IInv, Control, Shut
<1>3. drive.folder = None
  BY DEF OpenPage, IInv, Control, Shut
<1>4. \A g \in Movers : ~Busy(g)
  BY <1>2, Names DEF Busy
<1>5. ~drive.attached /\ NoPuts
  BY <1>1, <1>3, <1>4, Unmounted, NoneAssumption DEF Control, DriveOK
<1>6. /\ at' \in [Handlers -> Places] /\ \A g \in Handlers : g # "boot" => at'[g] = at[g]
      /\ at'["boot"].step = "start"
  BY <1>1 DEF OpenPage, Places, StepNames
<1>7. open' \in [now : BOOLEAN, times : 0..MaxOpens] /\ open'.now = TRUE
  BY <1>1, Sizes DEF OpenPage, TypeOK
<1>8. UNCHANGED <<drive, machine, page, store, txs, writer, user, failures>>
  BY DEF OpenPage
<1>9. machine' \in Machines /\ user' \in 0..MaxUser
  BY <1>1, <1>8, Typed DEF TypeOK
<1>10. at'["disconnect"].step = "idle"
  BY <1>1, <1>2, <1>6
<1>. QED  BY <1>1, <1>2, <1>3, <1>4, <1>5, <1>6, <1>7, <1>8, <1>9, <1>10, Begins

LEMMA RemountOrStartStep ==
    ASSUME IInv, RemountOrStart
    PROVE  IInv'
<1>1. /\ at \in [Handlers -> Places] /\ TypeOK /\ Control /\ "boot" \in Handlers
      /\ "boot" \in Mounts /\ "boot" # "disconnect" /\ "disconnect" \in Handlers
      /\ at["boot"].step = "start" /\ Busy("boot")
      /\ UNCHANGED <<open, drive, page, store, txs, writer, user, failures>>
  BY Names, Typed DEF IInv, RemountOrStart, Busy
<1>2. CASE at' = [at EXCEPT !["boot"] = Idle] /\ machine' = Restarted("boot")
  <2>1. failures' \in 0..MaxFailures
    BY <1>1 DEF TypeOK
  <2>. QED  BY <1>1, <1>2, <2>1, ScanFailsStep
<1>3. ASSUME NEW f \in Folders, machine' = machine,
             at' = [at EXCEPT !["boot"] = [Idle EXCEPT !.step = "scan", !.folder = f]]
      PROVE  IInv'
  <2>1. /\ at' \in [Handlers -> Places] /\ \A g \in Handlers : g # "boot" => at'[g] = at[g]
        /\ at'["boot"].step = "scan" /\ at'["boot"].folder = f
    BY <1>1, <1>3, PlaceTypes, Sizes DEF Places, StepNames
  <2>2. /\ ~drive.attached /\ \A g \in Movers : g # "boot" => ~Busy(g)
        /\ at["disconnect"].step = "idle" /\ NoPuts
    BY <1>1, MountingAlone
  <2>3. drive.folder = None
    BY <1>1 DEF Control, Mounting
  <2>4. open.now = TRUE
    BY <1>1 DEF Control, Shut, TypeOK
  <2>5. machine' \in Machines /\ user' \in 0..MaxUser /\ open' \in [now : BOOLEAN, times : 0..MaxOpens]
    BY <1>1, <1>3, Typed DEF TypeOK
  <2>6. at'["disconnect"].step = "idle"
    BY <1>1, <2>1, <2>2
  <2>7. /\ UNCHANGED <<drive, page, store, txs, writer, failures>> /\ open'.now = TRUE
        /\ at["boot"].step \in {"idle", "start"} /\ at'["boot"].step \in {"start", "scan"}
        /\ at'["boot"].folder \in Folders /\ (machine'.running = TRUE => machine = machine')
        /\ \A g \in Handlers \ {"boot", "disconnect"} : at'[g] = at[g]
    BY <1>1, <1>3, <2>1, <2>4
  <2>. QED  BY <1>1, <2>1, <2>2, <2>3, <2>5, <2>6, <2>7, Begins
<1>. QED  BY <1>2, <1>3 DEF RemountOrStart

LEMMA ConnectStep ==
    ASSUME IInv, ~Impatient, NEW h \in Connects, NEW f \in Folders, Connect(h, f)
    PROVE  IInv'
<1>1. /\ at \in [Handlers -> Places] /\ TypeOK /\ Control /\ h \in Handlers
      /\ h \in Mounts /\ h # "disconnect" /\ "disconnect" \in Handlers
      /\ machine \in Machines
  BY Names, Typed DEF IInv
<1>2. /\ machine.timer /\ at[h].step = "idle" /\ user < MaxUser /\ ~drive.attached
      /\ \A g \in Movers : ~Busy(g)
  BY DEF Connect, Quiet, Movers
<1>3. NoPuts /\ h # "boot"
  BY <1>1, <1>2, Unmounted, Names
<1>4. /\ at' = [at EXCEPT ![h] = [Idle EXCEPT !.step = "scan", !.folder = f],
                          !["disconnect"] = Idle]
      /\ machine' = [machine EXCEPT !.running = FALSE, !.stranded = FALSE] /\ user' = user + 1
      /\ UNCHANGED <<open, drive, page, store, txs, writer, failures>>
  BY <1>2, Names DEF Connect
<1>5. /\ at' \in [Handlers -> Places]
      /\ \A g \in Handlers \ {h, "disconnect"} : at'[g] = at[g]
      /\ at'["disconnect"] = Idle /\ at'[h].step = "scan" /\ at'[h].folder = f
  <2> DEFINE r == [Idle EXCEPT !.step = "scan", !.folder = f]
  <2>1. r \in Places /\ r.step = "scan" /\ r.folder = f /\ Idle \in Places
    BY PlaceTypes, Sizes DEF Places, StepNames
  <2>2. at' = [at EXCEPT ![h] = r, !["disconnect"] = Idle]
    BY <1>4
  <2> HIDE DEF r
  <2>. QED  BY <1>1, <2>1, <2>2
<1>6. machine' \in Machines /\ machine'.running = FALSE
  BY <1>1, <1>4 DEF Machines
<1>7. open.now = TRUE /\ user' \in 0..MaxUser /\ open' \in [now : BOOLEAN, times : 0..MaxOpens]
  BY <1>1, <1>2, <1>4, Sizes DEF Control, Shut, TypeOK
<1>8. at'["disconnect"].step = "idle"
  BY <1>5, PlaceTypes
<1>. QED  BY <1>1, <1>2, <1>3, <1>4, <1>5, <1>6, <1>7, <1>8, Begins

----------------------------------------------------------------------------
(* Disconnecting.                                                          *)

LEMMA DisconnectStep ==
    ASSUME IInv, ~Impatient, Disconnect
    PROVE  IInv'
<1> DEFINE h == "disconnect"
           f == drive.folder
<1>1. /\ at \in [Handlers -> Places] /\ TypeOK /\ Control /\ machine \in Machines
      /\ drive \in Drives /\ h \in Handlers /\ f \in MaybeFolder
  BY Names, Typed DEF IInv, Drives
<1>2. /\ machine.timer /\ user < MaxUser
      /\ \A g \in Movers : ~Busy(g)
  BY DEF Disconnect, MayDisconnect, Quiet, Movers
<1>3. /\ f = None => NoPuts
      /\ \A u \in Pending : u.by # h /\ (u.op = "put" => u.folder = f)
      /\ at[h].step \in {"idle", "acked"}
  <2>1. ~Busy(h)
    BY <1>2, Names
  <2>2. f = None => ~drive.attached
    BY <1>1, NoneAssumption DEF Control, DriveOK
  <2>3. ~drive.attached => NoPuts
    BY <1>1, <1>2, Unmounted
  <2>. QED  BY <1>1, <2>1, <2>2, <2>3, Whose, Names DEF Control, PutsOK, NoPuts, Busy
<1>4. /\ drive' = NoDrive /\ user' = user + 1
      /\ machine' = [machine EXCEPT !.running = FALSE, !.stranded = FALSE]
      /\ UNCHANGED <<open, page, store, writer, failures>>
  BY DEF Disconnect
<1>5. \E t \in Transactions, r \in Places :
        /\ t.by = h /\ t.disk = 0 /\ txs' = Append(txs, t) /\ at' = [at EXCEPT ![h] = r]
        /\ r.step = t.op /\ r.folder = f
        /\ \/ t.op = "delete" /\ f \in Folders /\ t.folder = f
           \/ t.op = "deleteMeta" /\ f = None
  <2>1. CASE f = None
    <3> DEFINE t == Tx("deleteMeta", h, None, 0, 0)
               r == [Idle EXCEPT !.step = "deleteMeta", !.folder = f]
    <3>1. at' = [at EXCEPT ![h] = r] /\ txs' = Append(txs, t)
      BY <2>1 DEF Disconnect, DeleteFrom
    <3>2. t \in Transactions /\ t.op = "deleteMeta" /\ t.by = h /\ t.disk = 0
      BY <1>1, Sizes DEF Tx, Transactions, Ops
    <3>3. r \in Places /\ r.step = "deleteMeta" /\ r.folder = f
      BY <1>1, PlaceTypes DEF Places, StepNames
    <3>. QED  BY <2>1, <3>1, <3>2, <3>3
  <2>2. CASE f # None
    <3> DEFINE t == Tx("delete", h, f, 0, 0)
               r == [Idle EXCEPT !.step = "delete", !.folder = f]
    <3>1. at' = [at EXCEPT ![h] = r] /\ txs' = Append(txs, t)
      BY <2>2, Sizes DEF Disconnect, DeleteFrom
    <3>2. t \in Transactions /\ t.op = "delete" /\ t.by = h /\ t.folder = f /\ t.disk = 0
      BY <1>1, Sizes DEF Tx, Transactions, Ops
    <3>3. r \in Places /\ r.step = "delete" /\ r.folder = f
      BY <1>1, PlaceTypes DEF Places, StepNames
    <3>4. f \in Folders
      BY <1>1, <2>2 DEF MaybeFolder
    <3>. QED  BY <3>1, <3>2, <3>3, <3>4
  <2>. QED  BY <2>1, <2>2
<1>6. PICK t \in Transactions, r \in Places :
        /\ t.by = h /\ t.disk = 0 /\ txs' = Append(txs, t) /\ at' = [at EXCEPT ![h] = r]
        /\ r.step = t.op /\ r.folder = f
        /\ \/ t.op = "delete" /\ f \in Folders /\ t.folder = f
           \/ t.op = "deleteMeta" /\ f = None
  BY <1>5
<1>7. /\ at' \in [Handlers -> Places] /\ \A g \in Handlers : g # h => at'[g] = at[g]
      /\ at'[h].step = t.op /\ at'[h].folder = f
  BY <1>1, <1>6
<1>8. machine' \in Machines /\ machine'.running = FALSE /\ machine'.timer = machine.timer
  BY <1>1, <1>4 DEF Machines
<1>9. user' \in 0..MaxUser
  BY <1>1, <1>2, <1>4, Sizes DEF TypeOK
<1>10. Queue(txs') /\ Pending' = Pending \union {t}
  BY <1>1, <1>3, <1>6, Asks
<1>11. /\ drive' \in Drives /\ drive'.folder = None /\ drive'.overlay = Blank
       /\ drive'.dirty = {} /\ ~drive'.attached
  BY <1>4, PlaceTypes
<1>12. TypeOK'
  BY <1>1, <1>4, <1>7, <1>8, <1>9, <1>11, Same, Typed DEF TypeOK
<1>13. Control'
  <2>1. Asked'
    BY <1>1, <1>3, <1>6, <1>7, <1>10, Whose DEF Control, Asked, Awaited
  <2>2. Steps'
    BY <1>1, <1>6, <1>7, Names DEF Control, Steps, MountSteps
  <2>3. OneMoves'
    BY <1>2, <1>7, Names DEF OneMoves, Busy
  <2>4. Shut' /\ Mounting' /\ Leaving'
    BY <1>1, <1>2, <1>4, <1>6, <1>7, <1>11, Names
       DEF Control, Shut, Mounting, Leaving, Busy
  <2>5. DriveOK' /\ PutsOK'
    BY <1>3, <1>6, <1>7, <1>10, <1>11 DEF DriveOK, PutsOK, Busy
  <2>. QED  BY <1>10, <2>1, <2>2, <2>3, <2>4, <2>5 DEF Control
<1>14. Owned'
  BY <1>4, <1>6, <1>10, <1>11, Sizes DEF IInv, Owned, WrittenBy
<1>15. Loading' /\ Clean'
  BY <1>2, <1>7, <1>11, Names DEF Loading, Clean, Held, Busy
<1>16. Deleting' /\ Gone' /\ RunningHasTick'
  <2>1. \A d \in Disks : ~(d < t.disk)
    BY <1>6, Sizes
  <2>2. t.op = "deleteMeta" => NoPuts'
    BY <1>3, <1>6, <1>10 DEF NoPuts
  <2>. QED  BY <1>3, <1>6, <1>7, <1>8, <1>10, <2>1, <2>2, Sizes
            DEF Deleting, Emptied, Gone, RunningHasTick
<1>. QED  BY <1>12, <1>13, <1>14, <1>15, <1>16 DEF IInv

LEMMA OverlayDeletedStep ==
    ASSUME IInv, OverlayDeleted
    PROVE  IInv'
<1> DEFINE h == "disconnect"
           f == at[h].folder
<1>1. PICK i \in 1..Len(txs) :
        /\ Finishing(h, "delete", i)
        /\ store' = Applied(txs[i], store)
        /\ IF txs[i].disk + 1 < NDisks
           THEN /\ txs' = Replaced(i, <<Tx("delete", h, txs[i].folder, txs[i].disk + 1, 0)>>)
                /\ UNCHANGED at
           ELSE /\ txs' = Replaced(i, <<Tx("deleteMeta", h, None, 0, 0)>>)
                /\ at' = [at EXCEPT ![h].step = "deleteMeta"]
  BY DEF OverlayDeleted
<1>2. UNCHANGED <<open, drive, machine, page, writer, user, failures>>
  BY DEF OverlayDeleted
<1>3. /\ at \in [Handlers -> Places] /\ TypeOK /\ Control /\ store \in Stores
      /\ h \in Handlers /\ h \in Movers
  BY Names, Typed DEF IInv
<1> DEFINE o == txs[i]
           d == o.disk
<1>4. /\ o \in Pending /\ o \in Transactions /\ o.op = "delete" /\ o.by = h /\ d \in Disks
      /\ at[h].step = "delete" /\ Busy(h) /\ NoPuts
      /\ \A u \in Pending : u.by = h => u = o
  BY <1>1, <1>3, Waited, Whose DEF Ops, Awaited
<1>5. /\ f \in Folders /\ o.folder = f /\ drive.folder = None /\ ~drive.attached
      /\ drive.dirty = {}
      /\ \A e \in Disks : e < d => store.overlays[f][e] = 0
      /\ \A g \in Movers : g # h => ~Busy(g)
  BY <1>3, <1>4, Names, NoneAssumption
     DEF IInv, Control, Steps, Deleting, Leaving, DriveOK, OneMoves
<1>6. /\ store' \in Stores
      /\ \A g \in Folders, e \in Disks :
            store'.overlays[g][e] = IF g = f /\ e = d THEN 0 ELSE store.overlays[g][e]
  BY <1>1, <1>3, <1>4, <1>5, AppliedEffect
<1>7. \A e \in Disks : e < d \/ e = d => store'.overlays[f][e] = 0
  BY <1>5, <1>6
<1>8. \E t \in Transactions :
        /\ t.by = h /\ t.folder \in MaybeFolder /\ txs' = Replaced(i, <<t>>)
        /\ at' \in [Handlers -> Places] /\ \A g \in Handlers : g # h => at'[g] = at[g]
        /\ at'[h].step = t.op /\ at'[h].folder = f
        /\ \/ /\ t.op = "delete" /\ t.folder = f
              /\ \A e \in Disks : e < t.disk => store'.overlays[f][e] = 0
           \/ /\ t.op = "deleteMeta"
              /\ store'.overlays[f] = Blank
  <2>1. CASE d + 1 < NDisks
    <3> DEFINE t == Tx("delete", h, o.folder, d + 1, 0)
    <3>1. d + 1 \in Disks /\ \A e \in Disks : e < d + 1 => e < d \/ e = d
      BY <1>4, <2>1, Sizes
    <3>2. /\ t \in Transactions /\ t.op = "delete" /\ t.by = h /\ t.folder = f
          /\ t.disk = d + 1
      BY <1>3, <1>5, <3>1, Sizes DEF Tx, Transactions, Ops
    <3>3. txs' = Replaced(i, <<t>>) /\ at' = at
      BY <1>1, <2>1
    <3> HIDE DEF t, d, o
    <3>4. \A e \in Disks : e < t.disk => store'.overlays[f][e] = 0
      BY <1>7, <3>1, <3>2
    <3>5. at'[h].step = t.op /\ at'[h].folder = f /\ at' \in [Handlers -> Places]
      BY <1>3, <1>4, <3>2, <3>3
    <3>6. t.folder \in MaybeFolder /\ \A g \in Handlers : g # h => at'[g] = at[g]
      BY <3>2, <3>3, <1>5, Sizes
    <3>. QED  BY <3>2, <3>3, <3>4, <3>5, <3>6
  <2>2. CASE ~(d + 1 < NDisks)
    <3> DEFINE t == Tx("deleteMeta", h, None, 0, 0)
    <3>1. \A e \in Disks : e = d \/ e < d
      BY <1>4, <2>2, Sizes
    <3>2. t \in Transactions /\ t.op = "deleteMeta" /\ t.by = h /\ t.folder \in MaybeFolder
      BY <1>3, Sizes DEF Tx, Transactions, Ops
    <3>3. txs' = Replaced(i, <<t>>) /\ at' = [at EXCEPT ![h].step = "deleteMeta"]
      BY <1>1, <2>2
    <3>4. store'.overlays[f] = Blank
      <4>1. \A e \in Disks : store'.overlays[f][e] = 0
        BY <1>7, <3>1
      <4>2. store'.overlays[f] \in [Disks -> 0..MaxWrites]
        BY <1>5, <1>6 DEF Stores, Contents
      <4>. QED  BY <4>1, <4>2 DEF Blank
    <3>5. /\ at' \in [Handlers -> Places] /\ \A g \in Handlers : g # h => at'[g] = at[g]
          /\ at'[h].step = "deleteMeta" /\ at'[h].folder = f
      BY <1>3, <3>3 DEF Places, StepNames
    <3>. QED  BY <3>2, <3>3, <3>4, <3>5
  <2>. QED  BY <2>1, <2>2
<1>9. PICK t \in Transactions :
        /\ t.by = h /\ t.folder \in MaybeFolder /\ txs' = Replaced(i, <<t>>)
        /\ at' \in [Handlers -> Places] /\ \A g \in Handlers : g # h => at'[g] = at[g]
        /\ at'[h].step = t.op /\ at'[h].folder = f
        /\ \/ /\ t.op = "delete" /\ t.folder = f
              /\ \A e \in Disks : e < t.disk => store'.overlays[f][e] = 0
           \/ /\ t.op = "deleteMeta"
              /\ store'.overlays[f] = Blank
  BY <1>8
<1>10. Queue(txs') /\ Pending' = (Pending \ {o}) \union {t}
  BY <1>3, <1>4, <1>9, Continued DEF Control, Pending
<1>11. NoPuts' /\ \A u \in Pending' : u = t \/ (u \in Pending /\ u.by # h)
  BY <1>4, <1>9, <1>10 DEF NoPuts
<1> HIDE DEF o, d
<1>12. TypeOK'
  BY <1>2, <1>3, <1>6, <1>9, Same, Typed DEF TypeOK
<1>13. Control'
  <2>1. Asked'
    BY <1>3, <1>5, <1>9, <1>11, Whose DEF Control, Asked, Awaited
  <2>2. Steps'
    BY <1>3, <1>5, <1>9, Names DEF Control, Steps, MountSteps
  <2>3. OneMoves'
    BY <1>5, <1>9, Names DEF OneMoves, Busy
  <2>4. Shut' /\ Mounting' /\ Leaving'
    BY <1>2, <1>3, <1>4, <1>5, <1>9, Names
       DEF Control, Shut, Mounting, Leaving, Busy
  <2>5. DriveOK' /\ PutsOK'
    BY <1>2, <1>5, <1>11 DEF DriveOK, PutsOK, NoPuts
  <2>. QED  BY <1>10, <2>1, <2>2, <2>3, <2>4, <2>5 DEF Control
<1>14. Owned'
  BY <1>2, <1>5, <1>6, <1>11 DEF IInv, Owned, WrittenBy, NoPuts
<1>15. Loading' /\ Clean'
  BY <1>2, <1>5, <1>9, Names DEF Loading, Clean, Held, Busy
<1>16. Deleting' /\ Gone' /\ RunningHasTick'
  BY <1>2, <1>9, <1>11 DEF IInv, Deleting, Emptied, Gone, RunningHasTick
<1>. QED  BY <1>12, <1>13, <1>14, <1>15, <1>16 DEF IInv

LEMMA DisconnectedStep ==
    ASSUME IInv, Disconnected
    PROVE  IInv'
<1> DEFINE h == "disconnect"
<1>1. PICK i \in 1..Len(txs) :
        /\ Finishing(h, "deleteMeta", i)
        /\ store' = Applied(txs[i], store)
        /\ txs' = Replaced(i, << >>)
  BY DEF Disconnected
<1>2. /\ page' = "none" /\ at' = [at EXCEPT ![h].step = "acked"] /\ machine' = Restarted(h)
      /\ UNCHANGED <<open, drive, writer, user, failures>>
  BY DEF Disconnected
<1>3. /\ at \in [Handlers -> Places] /\ TypeOK /\ Control /\ store \in Stores
      /\ h \in Handlers /\ h \in Movers /\ machine \in Machines
  BY Names, Typed DEF IInv
<1>4. /\ at[h].step = "deleteMeta" /\ Busy(h) /\ NoPuts /\ txs[i] \in Pending
      /\ txs[i] \in Transactions /\ txs[i].op = "deleteMeta"
      /\ \A u \in Pending : u.by = h => u = txs[i]
  BY <1>1, <1>3, Waited, Whose DEF Ops, Awaited
<1>5. /\ drive.folder = None /\ ~drive.attached /\ drive.dirty = {}
      /\ Emptied(at[h].folder) /\ \A g \in Movers : g # h => ~Busy(g)
  BY <1>3, <1>4, Names, NoneAssumption
     DEF IInv, Control, Deleting, Leaving, DriveOK, OneMoves
<1>6. store' \in Stores /\ store'.overlays = store.overlays /\ store'.meta = None
  BY <1>1, <1>3, <1>4, AppliedEffect
<1>7. /\ at' \in [Handlers -> Places] /\ \A g \in Handlers : g # h => at'[g] = at[g]
      /\ at'[h].step = "acked" /\ at'[h].folder = at[h].folder
  BY <1>2, <1>3 DEF Places, StepNames
<1>8. machine' \in Machines /\ machine'.running = TRUE /\ machine'.ticks > 0
  BY <1>2, <1>3 DEF Restarted, Machines
<1>9. Queue(txs') /\ Pending' = Pending \ {txs[i]}
  BY <1>1, <1>3, Finished DEF Control, Pending
<1>10. NoPuts' /\ \A u \in Pending' : u \in Pending /\ u.by # h
  BY <1>4, <1>9 DEF NoPuts
<1>11. TypeOK'
  BY <1>2, <1>3, <1>6, <1>7, <1>8, Same, Typed DEF TypeOK
<1>12. Control'
  <2>1. Asked'
    BY <1>3, <1>7, <1>10, Whose DEF Control, Asked
  <2>2. Steps'
    BY <1>3, <1>7, Names DEF Control, Steps, MountSteps
  <2>3. OneMoves'
    BY <1>5, <1>7, Names DEF OneMoves, Busy
  <2>4. Shut' /\ Mounting' /\ Leaving'
    BY <1>2, <1>3, <1>4, <1>5, <1>7, Names
       DEF Control, Shut, Mounting, Leaving, Busy
  <2>5. DriveOK' /\ PutsOK'
    BY <1>2, <1>5, <1>10 DEF DriveOK, PutsOK, NoPuts
  <2>. QED  BY <1>9, <2>1, <2>2, <2>3, <2>4, <2>5 DEF Control
<1>13. Owned'
  BY <1>2, <1>6, <1>10 DEF IInv, Owned, WrittenBy, NoPuts
<1>14. Loading' /\ Clean'
  BY <1>2, <1>5, <1>7, Names DEF Loading, Clean, Held, Busy
<1>15. Deleting' /\ Gone' /\ RunningHasTick'
  BY <1>5, <1>6, <1>7, <1>8, <1>10 DEF Deleting, Emptied, Gone, RunningHasTick
<1>. QED  BY <1>11, <1>12, <1>13, <1>14, <1>15 DEF IInv

\* A disconnect fails: its drive is gone, and nothing of it is on its way.
LEMMA DisconnectFailsStep ==
    ASSUME IInv, DisconnectFails
    PROVE  IInv'
<1> DEFINE h == "disconnect"
<1>1. PICK i \in 1..Len(txs), op \in {"delete", "deleteMeta"} :
        Finishing(h, op, i) /\ txs' = Replaced(i, << >>)
  BY DEF DisconnectFails
<1>2. /\ at' = [at EXCEPT ![h] = Idle] /\ Stranded
      /\ failures' = failures + 1 /\ failures < MaxFailures
      /\ UNCHANGED <<open, drive, page, store, writer, user>>
  BY DEF DisconnectFails, Failing
<1>3. /\ at \in [Handlers -> Places] /\ TypeOK /\ Control /\ machine \in Machines
      /\ h \in Handlers /\ h \in Movers
  BY Names, Typed DEF IInv
<1>4. op \in Ops /\ Busy(h) /\ NoPuts /\ at[h].step # "idle"
  BY <1>1, <1>3, Waited DEF Ops, Busy
<1>5. /\ ~drive.attached /\ drive.dirty = {} /\ \A g \in Movers : g # h => ~Busy(g)
  BY <1>3, <1>4, Names DEF Control, DriveOK, OneMoves
<1>6. /\ at' \in [Handlers -> Places] /\ \A g \in Handlers : g # h => at'[g] = at[g]
      /\ at'[h].step = "idle"
  BY <1>2, <1>3, PlaceTypes
<1>7. /\ machine' \in Machines /\ machine'.running = machine.running
      /\ machine'.ticks = machine.ticks /\ machine'.timer = machine.timer
  BY <1>2, <1>3, RestartTypes
<1>8. failures' \in 0..MaxFailures
  BY <1>2, <1>3, Sizes DEF TypeOK
<1>9. Queue(txs') /\ \A u : u \in Pending' <=> u \in Pending /\ u.by # h
  BY <1>1, <1>3, <1>4, Leaves
<1>10. NoPuts'
  BY <1>4, <1>9 DEF NoPuts
<1>11. TypeOK'
  BY <1>2, <1>3, <1>6, <1>7, <1>8, Same, Typed DEF TypeOK
<1>12. Control'
  <2>1. Asked'
    BY <1>3, <1>6, <1>9, Whose DEF Control, Asked
  <2>2. Steps'
    BY <1>3, <1>6, Names DEF Control, Steps
  <2>3. OneMoves'
    BY <1>5, <1>6, Names DEF OneMoves, Busy
  <2>4. Shut' /\ Mounting' /\ Leaving'
    BY <1>2, <1>3, <1>6, <1>7, Names DEF Control, Shut, Mounting, Leaving
  <2>5. DriveOK' /\ PutsOK'
    BY <1>2, <1>5, <1>10 DEF DriveOK, PutsOK, NoPuts
  <2>. QED  BY <1>9, <2>1, <2>2, <2>3, <2>4, <2>5 DEF Control
<1>13. Owned'
  BY <1>2, <1>10 DEF IInv, Owned, WrittenBy, NoPuts
<1>14. Loading' /\ Clean'
  BY <1>2, <1>5, <1>6, Names DEF Loading, Clean, Held, Busy
<1>15. Deleting' /\ Gone' /\ RunningHasTick'
  BY <1>6, <1>7, <1>9 DEF IInv, Deleting, Gone, RunningHasTick
<1>. QED  BY <1>11, <1>12, <1>13, <1>14, <1>15 DEF IInv

----------------------------------------------------------------------------
(* Flushing.                                                               *)

\* flush goes on, in a database as it is once its last transaction has finished.
LEMMA Flushes ==
    ASSUME IInv, NEW d \in Nat, NEW rest, FlushFrom(d, rest), Queue(rest),
           \A u \in Members(rest) : u \in Pending /\ u.by # "flush",
           store' \in Stores, store'.meta = store.meta, NoPuts => store' = store,
           \A f \in Folders, e \in Disks : WrittenBy(store'.overlays[f][e], f),
           Held => \A e \in Settled : store'.overlays[drive.folder][e] = drive.overlay[e],
           UNCHANGED <<open, machine, page, writer, user, failures>>
    PROVE  IInv'
<1>1. /\ at \in [Handlers -> Places] /\ TypeOK /\ Control /\ drive \in Drives
      /\ "flush" \in Handlers
  BY Names, Typed DEF IInv
<1>2. \A u \in Members(rest) : u.op # "put"
  BY <1>1, Whose
<1>3. /\ \A h \in Mounts : at[h].step = "load" => NoPuts
      /\ at["disconnect"].step \in {"deleteMeta", "acked"} => NoPuts
      /\ \A t \in Pending : t.by = "disconnect" /\ t.op = "delete" => NoPuts \/ t.disk = 0
  <2>1. ASSUME NEW h \in Mounts, at[h].step = "load"
        PROVE  NoPuts
    BY <1>1, <2>1, MountingAlone DEF Control, Mounting, Busy
  <2>2. at["disconnect"].step = "acked" => NoPuts
    BY <1>1, NoneAssumption DEF Control, Leaving, DriveOK, PutsOK, NoPuts, Busy
  <2>3. ASSUME NEW t \in Pending, t.by = "disconnect", t.op = "delete"
        PROVE  NoPuts \/ t.disk = 0
    <3>1. t.disk \in Nat
      BY <1>1, Whose, Sizes
    <3>. QED  BY <2>3, <3>1 DEF IInv, Deleting
  <2>. QED  BY <2>1, <2>2, <2>3 DEF IInv, Deleting
<1> DEFINE dirty == {e \in drive.dirty : e >= d}
           c == CHOOSE x \in dirty : \A y \in dirty : x <= y
<1>4. CASE drive.folder # None /\ (d > 0 \/ drive.id # None) /\ dirty # {}
  <2> DEFINE t == Tx("put", "flush", drive.id, c, drive.overlay[c])
  <2>1. c \in drive.dirty /\ c \in Disks
    <3>1. dirty \in SUBSET Nat /\ dirty \subseteq drive.dirty /\ drive.dirty \subseteq Disks
      BY <1>1, Sizes DEF Drives
    <3> HIDE DEF dirty
    <3>2. \E x \in dirty : \A y \in dirty : x <= y
      BY <1>4, <3>1, FirstOfMany
    <3>3. c \in dirty
      BY <3>2
    <3>. QED  BY <3>1, <3>3
  <2>2. /\ drive' = [drive EXCEPT !.dirty = @ \ {c}] /\ txs' = Append(rest, t)
        /\ at' = [at EXCEPT !["flush"] = [Idle EXCEPT !.step = "put", !.disk = c]]
    BY <1>4 DEF FlushFrom
  <2> HIDE DEF dirty, c
  <2>3. /\ drive.id = drive.folder /\ drive.folder \in Folders /\ at["disconnect"].step = "idle"
        /\ drive.overlay[c] \in 0..MaxWrites /\ drive.attached /\ \A g \in Movers : ~Busy(g)
    BY <1>1, <1>4, <2>1 DEF Control, DriveOK, Leaving, Drives, Contents
  <2>4. /\ t \in Transactions /\ t.op = "put" /\ t.by = "flush" /\ t.folder = drive.folder
        /\ t.disk = c /\ t.data = drive.overlay[c]
    BY <1>1, <2>1, <2>3, Sizes DEF Tx, Transactions, Ops
  <2>5. \A u \in Members(rest) : u.by # "disconnect" /\ u.by # "flush"
    BY <1>1, <2>3, Whose
  <2> HIDE DEF t
  <2>6. Queue(txs') /\ Pending' = Members(rest) \union {t}
    BY <2>2, <2>4, <2>5, Names, Appended DEF Pending
  <2>7. \A u \in Pending' : u = t \/ (u \in Pending /\ u.by # "flush" /\ u.op # "put")
    BY <1>2, <2>6
  <2>8. /\ drive' \in Drives /\ drive'.folder = drive.folder /\ drive'.overlay = drive.overlay
        /\ drive'.id = drive.id /\ drive'.dirty = drive.dirty \ {c}
        /\ drive'.lost = drive.lost /\ drive'.attached = drive.attached
    BY <1>1, <2>2 DEF Drives
  <2>9. /\ at' \in [Handlers -> Places] /\ \A g \in Handlers : g # "flush" => at'[g] = at[g]
        /\ at'["flush"].step = "put"
    BY <1>1, <2>1, <2>2, PlaceTypes DEF Places, StepNames
  <2>10. TypeOK'
    BY <1>1, <2>8, <2>9, Same, Typed DEF TypeOK
  <2>11. Control'
    <3>1. Asked'
      BY <1>1, <2>3, <2>4, <2>7, <2>9, Whose DEF Control, Asked, Awaited
    <3>2. Steps'
      BY <1>1, <2>9, Names DEF Control, Steps
    <3>3. OneMoves'
      BY <1>1, <2>9, Names DEF Control, OneMoves, Busy
    <3>4. Shut' /\ Mounting' /\ Leaving'
      BY <1>1, <1>4, <2>8, <2>9, Names DEF Control, Shut, Mounting, Leaving, Busy
    <3>5. DriveOK' /\ PutsOK'
      BY <2>3, <2>4, <2>7, <2>8, <2>9, Names DEF DriveOK, PutsOK, Busy
    <3>. QED  BY <2>6, <3>1, <3>2, <3>3, <3>4, <3>5 DEF Control
  <2>12. Owned'
    BY <2>1, <2>4, <2>7, <2>8 DEF IInv, Owned, WrittenBy
  <2>13. Clean'
    <3>1. Held /\ \A e \in Settled' : e = c \/ e \in Settled
      BY <2>3, <2>8 DEF Held, Settled
    <3>. QED  BY <2>4, <2>6, <2>7, <2>8, <3>1 DEF Clean, Settled
  <2>14. Loading' /\ Deleting' /\ Gone' /\ RunningHasTick'
    BY <1>3, <2>3, <2>4, <2>5, <2>6, <2>9, Names
       DEF IInv, Loading, Deleting, Emptied, Gone, RunningHasTick
  <2>. QED  BY <2>10, <2>11, <2>12, <2>13, <2>14 DEF IInv
<1>5. CASE ~(drive.folder # None /\ (d > 0 \/ drive.id # None) /\ dirty # {})
  <2>1. txs' = rest /\ drive' = drive /\ at' = [at EXCEPT !["flush"] = Idle]
    BY <1>5 DEF FlushFrom
  <2> HIDE DEF dirty, c
  <2>2. /\ at' \in [Handlers -> Places] /\ \A g \in Handlers : g # "flush" => at'[g] = at[g]
        /\ at'["flush"].step = "idle"
    BY <1>1, <2>1, PlaceTypes
  <2>3. Queue(txs') /\ NoPuts' /\ \A u \in Pending' : u \in Pending /\ u.by # "flush"
    BY <1>2, <2>1 DEF NoPuts, Pending
  <2>4. TypeOK'
    BY <1>1, <2>1, <2>2, Same, Typed DEF TypeOK
  <2>5. Control'
    <3>1. Asked'
      BY <1>1, <2>2, <2>3, Whose DEF Control, Asked
    <3>2. Steps'
      BY <1>1, <2>2, Names DEF Control, Steps
    <3>3. OneMoves'
      BY <1>1, <2>2, Names DEF Control, OneMoves, Busy
    <3>4. Shut' /\ Mounting' /\ Leaving'
      BY <1>1, <2>1, <2>2, Names DEF Control, Shut, Mounting, Leaving, Busy
    <3>5. DriveOK' /\ PutsOK'
      BY <1>1, <2>1, <2>2, <2>3, Names DEF Control, DriveOK, PutsOK, NoPuts, Busy
    <3>. QED  BY <2>3, <3>1, <3>2, <3>3, <3>4, <3>5 DEF Control
  <2>6. Owned' /\ Clean'
    <3>1. Held' => Held
      BY <2>1, <2>2, Names DEF Held
    <3>. QED  BY <2>1, <2>3, <3>1 DEF IInv, Owned, WrittenBy, Clean, Settled, NoPuts
  <2>7. Loading' /\ Deleting' /\ Gone' /\ RunningHasTick'
    BY <1>3, <2>2, <2>3, Names, Sizes
       DEF IInv, Loading, Deleting, Emptied, Gone, RunningHasTick
  <2>. QED  BY <2>4, <2>5, <2>6, <2>7 DEF IInv
<1>. QED  BY <1>4, <1>5

LEMMA FlushStep ==
    ASSUME IInv, Flush
    PROVE  IInv'
<1>1. /\ at \in [Handlers -> Places] /\ TypeOK /\ Control /\ "flush" \in Handlers
      /\ at["flush"].step = "idle" /\ machine.timer /\ store \in Stores
      /\ UNCHANGED <<open, machine, page, store, writer, user, failures>>
  BY Names, Typed DEF IInv, Flush
<1>2. Queue(txs) /\ \A u \in Pending : u.by # "flush" /\ u.op # "put"
  BY <1>1, Whose DEF Control
<1>3. CASE FlushFrom(0, txs)
  <2>1. Held => \A e \in Settled : store'.overlays[drive.folder][e] = drive.overlay[e]
    BY <1>1, <1>2 DEF IInv, Clean
  <2>2. \A f \in Folders, e \in Disks : WrittenBy(store'.overlays[f][e], f)
    BY <1>1 DEF IInv, Owned
  <2>. QED  BY <1>1, <1>2, <1>3, <2>1, <2>2, Flushes, Sizes DEF Pending
<1>4. CASE /\ at' = [at EXCEPT !["flush"].step = "driveC"] /\ drive' = drive
           /\ txs' = Append(txs, Tx("putC", "flush", None, 0, 0))
  <2> DEFINE t == Tx("putC", "flush", None, 0, 0)
  <2>1. t \in Transactions /\ t.op = "putC" /\ t.by = "flush"
    BY <1>1, Sizes DEF Tx, Transactions, Ops
  <2> HIDE DEF t
  <2>2. Queue(txs') /\ Pending' = Pending \union {t}
    BY <1>1, <1>4, <2>1, Asks DEF t
  <2>3. /\ at' \in [Handlers -> Places] /\ \A g \in Handlers : g # "flush" => at'[g] = at[g]
        /\ at'["flush"].step = "driveC"
    BY <1>1, <1>4 DEF Places, StepNames
  <2>4. TypeOK'
    BY <1>1, <1>4, <2>3, Same, Typed DEF TypeOK
  <2>5. Control'
    <3>1. Asked'
      BY <1>1, <2>1, <2>2, <2>3, <1>2, Whose DEF Control, Asked, Awaited
    <3>2. Steps'
      BY <1>1, <2>3, Names DEF Control, Steps
    <3>3. OneMoves'
      BY <1>1, <2>3, Names DEF Control, OneMoves, Busy
    <3>4. Shut' /\ Mounting' /\ Leaving'
      BY <1>1, <1>4, <2>3, Names DEF Control, Shut, Mounting, Leaving, Busy
    <3>5. DriveOK' /\ PutsOK'
      BY <1>1, <1>2, <1>4, <2>1, <2>2, <2>3, Names DEF Control, DriveOK, PutsOK, Busy
    <3>. QED  BY <2>2, <3>1, <3>2, <3>3, <3>4, <3>5 DEF Control
  <2>6. Owned' /\ Clean'
    <3>1. Held' => Held
      BY <1>4, <2>3, Names DEF Held
    <3>. QED  BY <1>1, <1>4, <2>1, <2>2, <3>1 DEF IInv, Owned, WrittenBy, Clean, Settled
  <2>7. Loading' /\ Deleting' /\ Gone' /\ RunningHasTick'
    BY <1>1, <2>1, <2>2, <2>3, Names
       DEF IInv, Loading, Deleting, Emptied, NoPuts, Gone, RunningHasTick
  <2>. QED  BY <2>4, <2>5, <2>6, <2>7 DEF IInv
<1>. QED  BY <1>3, <1>4 DEF Flush

LEMMA FlushedStep ==
    ASSUME IInv, Flushed
    PROVE  IInv'
<1>1. PICK i \in 1..Len(txs), op \in {"putC", "put"} :
        /\ Finishing("flush", op, i)
        /\ store' = Applied(txs[i], store)
        /\ FlushFrom(IF op = "put" THEN txs[i].disk + 1 ELSE 0, RemoveAt(txs, i))
  BY DEF Flushed
<1> DEFINE o == txs[i]
           d == IF op = "put" THEN o.disk + 1 ELSE 0
<1>2. /\ TypeOK /\ Control /\ store \in Stores /\ "flush" \in Handlers
      /\ UNCHANGED <<open, machine, page, writer, user, failures>>
  BY Names, Typed DEF IInv, Flushed
<1>3. /\ o \in Pending /\ o \in Transactions /\ o.op = op /\ o.by = "flush" /\ o.disk \in Disks
      /\ \A u \in Pending : u.by = "flush" => u = o
      /\ op = "put" => o.folder \in Folders
  BY <1>1, <1>2, Waited, Whose DEF Ops
<1>4. /\ Queue(RemoveAt(txs, i))
      /\ Members(RemoveAt(txs, i)) = Pending \ {o}
  BY <1>2, Taken DEF Control, Pending
<1>5. d \in Nat /\ FlushFrom(d, RemoveAt(txs, i))
  BY <1>1, <1>3, Sizes
<1> HIDE DEF o, d
<1>6. \A u \in Members(RemoveAt(txs, i)) : u \in Pending /\ u.by # "flush"
  BY <1>3, <1>4
<1>7. \A u \in Pending : u.op = "put" => u = o
  BY <1>2, <1>3, Whose
<1>8. CASE op = "putC"
  <2>1. store' = store
    BY <1>1, <1>2, <1>3, <1>8, AppliedEffect DEF o
  <2>2. NoPuts
    BY <1>3, <1>7, <1>8 DEF NoPuts
  <2>3. Held => \A e \in Settled : store'.overlays[drive.folder][e] = drive.overlay[e]
    BY <2>1, <2>2 DEF IInv, Clean, NoPuts
  <2>4. \A f \in Folders, e \in Disks : WrittenBy(store'.overlays[f][e], f)
    BY <2>1 DEF IInv, Owned
  <2>. QED  BY <1>2, <1>4, <1>5, <1>6, <2>1, <2>3, <2>4, Flushes
<1>9. CASE op = "put"
  <2>1. /\ store' \in Stores /\ store'.meta = store.meta
        /\ \A f \in Folders, e \in Disks :
              store'.overlays[f][e] = IF f = o.folder /\ e = o.disk THEN o.data
                                      ELSE store.overlays[f][e]
    BY <1>1, <1>2, <1>3, <1>9, AppliedEffect DEF o
  <2>2. ~NoPuts
    BY <1>3, <1>9 DEF NoPuts
  <2>3. ASSUME Held, NEW e \in Settled
        PROVE  store'.overlays[drive.folder][e] = drive.overlay[e]
    <3>1. drive.attached
      <4>1. \A h \in Mounts : at[h].step # "putMeta"
        BY <1>2, <2>2, MountingAlone DEF Busy
      <4>. QED  BY <2>3, <4>1 DEF Held
    <3>2. o.folder = drive.folder /\ drive.folder \in Folders
      BY <1>2, <1>3, <1>9, <3>1 DEF Control, PutsOK
    <3>3. e \in Disks
      BY <2>3 DEF Settled
    <3>. QED  BY <1>3, <1>7, <1>9, <2>1, <2>3, <3>2, <3>3 DEF IInv, Clean
  <2>4. \A f \in Folders, e \in Disks : WrittenBy(store'.overlays[f][e], f)
    BY <1>3, <1>9, <2>1 DEF IInv, Owned, WrittenBy
  <2>. QED  BY <1>2, <1>4, <1>5, <1>6, <2>1, <2>2, <2>3, <2>4, Flushes
<1>. QED  BY <1>8, <1>9

\* A flush fails: what it had taken from a disk is lost, unless DOS has written there again.
LEMMA FlushFailsStep ==
    ASSUME IInv, FlushFails
    PROVE  IInv'
<1>1. PICK i \in 1..Len(txs), op \in {"putC", "put"} :
        /\ Finishing("flush", op, i)
        /\ txs' = Replaced(i, << >>)
        /\ drive' = [drive EXCEPT !.lost =
               IF op = "put" /\ drive.folder = txs[i].folder
               THEN @ \union ({txs[i].disk} \ drive.dirty) ELSE @]
  BY DEF FlushFails
<1> DEFINE o == txs[i]
           gone == IF op = "put" /\ drive.folder = o.folder THEN {o.disk} \ drive.dirty ELSE {}
<1>2. /\ at' = [at EXCEPT !["flush"] = Idle] /\ failures' = failures + 1
      /\ failures < MaxFailures /\ UNCHANGED <<open, machine, page, store, writer, user>>
  BY DEF FlushFails, Failing
<1>3. /\ at \in [Handlers -> Places] /\ TypeOK /\ Control /\ drive \in Drives
      /\ "flush" \in Handlers /\ op \in Ops
  BY Names, Typed DEF IInv, Ops
<1>4. /\ o \in Pending /\ o.op = op /\ o.disk \in Disks
      /\ \A u \in Pending : u.op = "put" => u = o
  BY <1>1, <1>3, Waited, Whose
<1>5. Queue(txs') /\ \A u : u \in Pending' <=> u \in Pending /\ u.by # "flush"
  BY <1>1, <1>3, Leaves
<1>6. NoPuts'
  BY <1>3, <1>5, Whose DEF NoPuts
<1>7. /\ drive' \in Drives /\ drive'.folder = drive.folder /\ drive'.id = drive.id
      /\ drive'.overlay = drive.overlay /\ drive'.dirty = drive.dirty
      /\ drive'.attached = drive.attached /\ drive'.lost = drive.lost \union gone
  <2> DEFINE lost == drive.lost \union gone
  <2>1. drive' = [drive EXCEPT !.lost = lost]
    BY <1>1, <1>3 DEF Drives
  <2>2. lost \in SUBSET Disks
    BY <1>3, <1>4 DEF Drives
  <2> HIDE DEF lost
  <2>3. /\ drive' \in Drives /\ drive'.lost = lost
        /\ drive'.folder = drive.folder /\ drive'.id = drive.id
        /\ drive'.overlay = drive.overlay /\ drive'.dirty = drive.dirty
        /\ drive'.attached = drive.attached
    BY <1>3, <2>1, <2>2 DEF Drives
  <2>. QED  BY <2>3 DEF lost
<1>8. /\ at' \in [Handlers -> Places] /\ \A g \in Handlers : g # "flush" => at'[g] = at[g]
      /\ at'["flush"].step = "idle"
  BY <1>2, <1>3, PlaceTypes
<1>9. failures' \in 0..MaxFailures
  BY <1>2, <1>3, Sizes DEF TypeOK
<1>10. TypeOK'
  BY <1>2, <1>3, <1>7, <1>8, <1>9, Same, Typed DEF TypeOK
<1>11. Control'
  <2>1. Asked'
    BY <1>3, <1>5, <1>8, Whose DEF Control, Asked
  <2>2. Steps'
    BY <1>3, <1>8, Names DEF Control, Steps
  <2>3. OneMoves'
    BY <1>3, <1>8, Names DEF Control, OneMoves, Busy
  <2>4. Shut' /\ Mounting' /\ Leaving'
    BY <1>2, <1>3, <1>7, <1>8, Names DEF Control, Shut, Mounting, Leaving, Busy
  <2>5. DriveOK' /\ PutsOK'
    BY <1>3, <1>6, <1>7, <1>8, Names DEF Control, DriveOK, PutsOK, NoPuts, Busy
  <2>. QED  BY <1>5, <2>1, <2>2, <2>3, <2>4, <2>5 DEF Control
<1>12. Owned'
  BY <1>2, <1>6, <1>7 DEF IInv, Owned, WrittenBy, NoPuts
<1>13. Clean'
  <2>1. Held' => Held
    BY <1>7, <1>8, Names DEF Held
  <2>2. ASSUME Held, NEW d \in Settled'
        PROVE  store.overlays[drive.folder][d] = drive.overlay[d]
    <3>1. d \in Settled /\ d \notin gone /\ d \notin drive.dirty
      BY <1>7, <2>2 DEF Settled
    <3>2. ~\E u \in Pending : u.op = "put" /\ u.disk = d
      <4>1. ASSUME NEW u \in Pending, u.op = "put", u.disk = d
            PROVE  FALSE
        <5>1. u = o /\ op = "put"
          BY <1>4, <4>1
        <5>2. drive.attached
          <6>1. \A h \in Mounts : at[h].step # "putMeta"
            BY <1>3, <4>1, MountingAlone DEF Busy, NoPuts
          <6>. QED  BY <2>2, <6>1 DEF Held
        <5>3. o.folder = drive.folder
          BY <1>3, <4>1, <5>1, <5>2 DEF Control, PutsOK
        <5>. QED  BY <3>1, <4>1, <5>1, <5>3
      <4>. QED  BY <4>1
    <3>. QED  BY <2>2, <3>1, <3>2 DEF IInv, Clean
  <2>. QED  BY <1>2, <1>6, <1>7, <2>1, <2>2 DEF Clean, NoPuts
<1>14. Loading' /\ Deleting' /\ Gone' /\ RunningHasTick'
  BY <1>2, <1>5, <1>6, <1>8, Names
     DEF IInv, Loading, Deleting, Emptied, Gone, RunningHasTick
<1>. QED  BY <1>10, <1>11, <1>12, <1>13, <1>14 DEF IInv

----------------------------------------------------------------------------
(* Running and leaving.                                                    *)

LEMMA GuestWriteStep ==
    ASSUME IInv, NEW d \in Disks, GuestWrite(d)
    PROVE  IInv'
<1>1. /\ TypeOK /\ Control /\ drive \in Drives /\ writer \in Seq(Folders)
      /\ drive.folder # None /\ drive.attached /\ Len(writer) < MaxWrites
      /\ drive' = [drive EXCEPT !.overlay[d] = Len(writer) + 1, !.dirty = @ \union {d},
                                !.lost = @ \ {d}]
      /\ writer' = Append(writer, drive.folder)
      /\ UNCHANGED <<open, at, machine, page, store, txs, user, failures>>
  BY Typed DEF IInv, GuestWrite, Clock
<1>2. drive.folder \in Folders
  BY <1>1 DEF Drives, MaybeFolder
<1>3. /\ writer' \in Seq(Folders) /\ Len(writer) \in Nat /\ Len(writer') = Len(writer) + 1
      /\ writer'[Len(writer) + 1] = drive.folder
      /\ \A v \in 1..Len(writer) : v \in 1..Len(writer') /\ writer'[v] = writer[v]
      /\ Len(writer) + 1 \in 1..Len(writer')
  BY <1>1, <1>2
<1>4. Len(writer) + 1 \in 0..MaxWrites /\ Len(writer') <= MaxWrites
  BY <1>1, <1>3, Sizes
<1>5. /\ drive' \in Drives /\ drive'.folder = drive.folder /\ drive'.id = drive.id
      /\ drive'.dirty = drive.dirty \union {d} /\ drive'.lost = drive.lost \ {d}
      /\ drive'.attached = drive.attached
      /\ \A e \in Disks : drive'.overlay[e] = IF e = d THEN Len(writer) + 1 ELSE drive.overlay[e]
  <2> DEFINE n == Len(writer) + 1
             o == [drive.overlay EXCEPT ![d] = n]
  <2>1. drive' = [[drive EXCEPT !.overlay[d] = n] EXCEPT !.dirty = @ \union {d},
                                                          !.lost = @ \ {d}]
    BY <1>1
  <2>2. /\ o \in Contents
        /\ \A e \in Disks : o[e] = IF e = d THEN n ELSE drive.overlay[e]
    BY <1>1, <1>4 DEF Drives, Contents
  <2>3. [drive EXCEPT !.overlay[d] = n] = [drive EXCEPT !.overlay = o]
    BY <1>1 DEF Drives
  <2> HIDE DEF o
  <2>4. drive' = [drive EXCEPT !.overlay = o, !.dirty = @ \union {d}, !.lost = @ \ {d}]
    BY <1>1, <2>1, <2>3 DEF Drives
  <2>5. drive \in Drives
    BY <1>1
  <2>6. /\ drive' \in Drives /\ drive'.folder = drive.folder /\ drive'.id = drive.id
        /\ drive'.dirty = drive.dirty \union {d} /\ drive'.overlay = o
        /\ drive'.lost = drive.lost \ {d} /\ drive'.attached = drive.attached
    BY <2>2, <2>4, <2>5 DEF Drives
  <2>. QED  BY <2>2, <2>6
<1>6. Pending' = Pending
  BY <1>1 DEF Pending
<1>7. \A v, f : (v # 0 => v \in 1..Len(writer) /\ writer[v] = f)
                    => (v # 0 => v \in 1..Len(writer') /\ writer'[v] = f)
  BY <1>3
<1>8. TypeOK'
  BY <1>1, <1>3, <1>4, <1>5 DEF TypeOK, Drives
<1>9. Control'
  BY <1>1, <1>5, <1>6
     DEF Control, Asked, Steps, OneMoves, Shut, Mounting, Leaving, DriveOK, PutsOK, Busy
<1>10. Owned'
  <2>1. \A e \in Disks : drive'.overlay[e] # 0 =>
            drive'.overlay[e] \in 1..Len(writer') /\ writer'[drive'.overlay[e]] = drive'.folder
    BY <1>3, <1>5, <1>7 DEF IInv, Owned, WrittenBy
  <2>2. \A f \in Folders, e \in Disks : store.overlays[f][e] # 0 =>
            store.overlays[f][e] \in 1..Len(writer') /\ writer'[store.overlays[f][e]] = f
    BY <1>7 DEF IInv, Owned, WrittenBy
  <2>3. \A t \in Pending : t.op = "put" =>
            (t.data # 0 => t.data \in 1..Len(writer') /\ writer'[t.data] = t.folder)
    BY <1>7 DEF IInv, Owned, WrittenBy
  <2>. QED  BY <1>1, <1>6, <2>1, <2>2, <2>3 DEF Owned, WrittenBy
<1>11. Clean'
  BY <1>1, <1>5, <1>6 DEF IInv, Clean, Held, Settled
<1>12. Loading' /\ Deleting' /\ Gone' /\ RunningHasTick'
  BY <1>1, <1>6 DEF IInv, Loading, Deleting, Emptied, NoPuts, Gone, RunningHasTick
<1>. QED  BY <1>8, <1>9, <1>10, <1>11, <1>12 DEF IInv

\* A step of the machine alone.
LEMMA MachineStep ==
    ASSUME IInv, machine' \in Machines, machine'.running => machine'.ticks > 0,
           machine.timer = FALSE => machine'.timer = FALSE,
           user' \in 0..MaxUser, UNCHANGED <<open, at, drive, page, store, txs, writer, failures>>
    PROVE  IInv'
<1>1. TypeOK /\ Control /\ Pending' = Pending
  BY DEF IInv, Pending
<1>2. TypeOK'
  BY <1>1 DEF TypeOK, Machines
<1>3. Control'
  <2>1. Shut'
    BY <1>1, <1>2 DEF Control, Shut, TypeOK
  <2>. QED
    BY <1>1, <2>1 DEF Control, Asked, Steps, OneMoves, Mounting, Leaving, DriveOK, PutsOK, Busy
<1>4. Owned' /\ Clean'
  BY <1>1 DEF IInv, Owned, WrittenBy, Clean, Held, Settled
<1>5. Loading' /\ Deleting' /\ Gone' /\ RunningHasTick'
  BY <1>1 DEF IInv, Loading, Deleting, Emptied, NoPuts, Gone, RunningHasTick
<1>. QED  BY <1>2, <1>3, <1>4, <1>5 DEF IInv

LEMMA CloseStep ==
    ASSUME IInv, ClosePage
    PROVE  IInv'
<1>1. /\ open' = [open EXCEPT !.now = FALSE] /\ at' = [h \in Handlers |-> Idle]
      /\ drive' = NoDrive /\ machine' = Stopped /\ page' = "none" /\ txs' = << >>
      /\ UNCHANGED <<store, writer, user, failures>>
  BY DEF ClosePage
<1>2. /\ \A h \in Handlers : at'[h].step = "idle"
      /\ drive'.folder = None /\ drive'.overlay = Blank /\ machine'.running = FALSE
      /\ machine'.timer = FALSE /\ ~drive'.attached /\ drive'.dirty = {}
  BY <1>1, PlaceTypes
<1>3. Queue(txs') /\ Pending' = {}
  BY <1>1 DEF Queue, Distinct, PutsFirst, Pending, Members
<1>4. TypeOK'
  <2>1. open' \in [now : BOOLEAN, times : 0..MaxOpens]
    BY <1>1 DEF IInv, TypeOK
  <2>2. at' \in [Handlers -> Places]
    BY <1>1, PlaceTypes
  <2>. QED  BY <1>1, <2>1, <2>2, PlaceTypes DEF IInv, TypeOK, Places, StepNames, Drives, Machines
<1>5. Control'
  BY <1>1, <1>2, <1>3, Names
     DEF Control, Asked, Steps, MountSteps, OneMoves, Shut, Mounting, Leaving, DriveOK,
         PutsOK, Busy
<1>6. Owned' /\ Clean'
  BY <1>1, <1>2, <1>3, Names, Sizes DEF IInv, Owned, WrittenBy, Clean, Held
<1>7. Loading' /\ Deleting' /\ Gone' /\ RunningHasTick'
  BY <1>2, <1>3, Names DEF Loading, Deleting, Gone, RunningHasTick
<1>. QED  BY <1>4, <1>5, <1>6, <1>7 DEF IInv

LEMMA InitIInv == Init => IInv
<1> SUFFICES ASSUME Init PROVE IInv
  OBVIOUS
<1>1. /\ open = [now |-> FALSE, times |-> 0] /\ at = [h \in Handlers |-> Idle]
      /\ drive = NoDrive /\ machine = Stopped /\ page = "none" /\ store = EmptyStore
      /\ txs = << >> /\ writer = << >> /\ user = 0 /\ failures = 0
  BY DEF Init
<1>2. /\ \A h \in Handlers : at[h].step = "idle"
      /\ drive.folder = None /\ drive.overlay = Blank /\ machine.running = FALSE
      /\ machine.timer = FALSE /\ ~drive.attached /\ drive.dirty = {}
  BY <1>1, PlaceTypes
<1>3. Queue(txs) /\ Pending = {}
  BY <1>1 DEF Queue, Distinct, PutsFirst, Pending, Members
<1>4. TypeOK
  <2>1. /\ open \in [now : BOOLEAN, times : 0..MaxOpens] /\ user \in 0..MaxUser
        /\ failures \in 0..MaxFailures
    BY <1>1, Sizes
  <2>2. at \in [Handlers -> Places]
    BY <1>1, PlaceTypes
  <2>3. writer \in Seq(Folders) /\ Len(writer) <= MaxWrites
    BY <1>1, Sizes
  <2>. QED  BY <1>1, <2>1, <2>2, <2>3, PlaceTypes
            DEF TypeOK, Places, StepNames, Drives, Machines, Stores
<1>5. Control
  BY <1>1, <1>2, <1>3, Names
     DEF Control, Asked, Steps, MountSteps, OneMoves, Shut, Mounting, Leaving, DriveOK,
         PutsOK, Busy
<1>6. Owned /\ Clean
  BY <1>1, <1>2, <1>3, Names, Sizes DEF Owned, WrittenBy, Clean, Held, EmptyStore
<1>7. Loading /\ Deleting /\ Gone /\ RunningHasTick
  BY <1>2, <1>3, Names DEF Loading, Deleting, Gone, RunningHasTick
<1>. QED  BY <1>4, <1>5, <1>6, <1>7 DEF IInv

LEMMA Inductive ==
    ASSUME ~Impatient, IInv, [Next]_vars
    PROVE  IInv'
<1>1. CASE OpenPage
  BY <1>1, OpenPageStep
<1>2. CASE RemountOrStart
  BY <1>2, RemountOrStartStep
<1>3. CASE ClosePage
  BY <1>3, CloseStep
<1>4. ASSUME NEW h \in Mounts, MountStep(h)
      PROVE  IInv'
  <2>1. CASE ScanFails(h)
    <3>1. failures' \in 0..MaxFailures
      BY <2>1 DEF ScanFails, IInv, TypeOK
    <3>. QED  BY <2>1, <3>1, ScanFailsStep DEF ScanFails
  <2>. QED
    BY <1>4, <2>1, ScannedStep, GotMetaStep, OldDeletedStep, LoadedStep, MountedStep DEF MountStep
<1>5. ASSUME NEW h \in Connects, NEW f \in Folders, Connect(h, f)
      PROVE  IInv'
  BY <1>5, ConnectStep
<1>6. CASE Disconnect
  BY <1>6, DisconnectStep
<1>7. CASE OverlayDeleted
  BY <1>7, OverlayDeletedStep
<1>8. CASE Disconnected
  BY <1>8, DisconnectedStep
<1>9. CASE Flush
  BY <1>9, FlushStep
<1>10. CASE Flushed
  BY <1>10, FlushedStep
<1>11. ASSUME NEW d \in Disks, GuestWrite(d)
       PROVE  IInv'
  BY <1>11, GuestWriteStep
<1>12. TypeOK /\ machine \in Machines /\ user \in 0..MaxUser
  BY Typed DEF IInv, TypeOK
<1>13. CASE TickEnds
  <2>1. machine' \in Machines /\ machine'.running = machine.running /\ ~machine.running
        /\ machine'.timer = machine.timer
    BY <1>12, <1>13 DEF TickEnds, Machines
  <2>. QED  BY <1>12, <1>13, <2>1, MachineStep DEF TickEnds
<1>14. CASE Reset
  <2> DEFINE n == machine.ticks + 1
  <2>1. n \in Nat /\ n > 0
    BY <1>12 DEF Machines
  <2>2. machine' = [machine EXCEPT !.running = TRUE, !.ticks = n, !.stranded = FALSE]
    BY <1>14 DEF Reset
  <2> HIDE DEF n
  <2>3. machine' \in Machines /\ machine'.ticks > 0 /\ machine'.timer = machine.timer
    BY <1>12, <2>1, <2>2 DEF Machines
  <2>4. user' \in 0..MaxUser
    BY <1>12, <1>14, Sizes DEF Reset
  <2>. QED  BY <1>14, <2>3, <2>4, MachineStep DEF Reset
<1>15. CASE UNCHANGED vars
  BY <1>12, <1>15, MachineStep DEF vars, IInv, RunningHasTick
<1>16. ASSUME NEW h \in Mounts, MountFails(h)
       PROVE  IInv'
  BY <1>16, MountFailsStep
<1>17. CASE StartFails
  <2>1. failures' \in 0..MaxFailures
    BY <1>12, <1>17, Sizes DEF StartFails, Failing, TypeOK
  <2>. QED  BY <1>17, <2>1, Names, ScanFailsStep DEF StartFails
<1>18. CASE DisconnectFails
  BY <1>18, DisconnectFailsStep
<1>19. CASE FlushFails
  BY <1>19, FlushFailsStep
<1>. QED  BY <1>1, <1>2, <1>3, <1>4, <1>5, <1>6, <1>7, <1>8, <1>9, <1>10, <1>11, <1>13, <1>14,
             <1>15, <1>16, <1>17, <1>18, <1>19 DEF Next

LEMMA Always == ASSUME ~Impatient PROVE Spec => []IInv
<1>1. Init => IInv
  BY InitIInv
<1>2. IInv /\ [Next]_vars => IInv'
  BY Inductive
<1>. QED  BY <1>1, <1>2, PTL DEF Spec

----------------------------------------------------------------------------
(* The theorems.                                                           *)

\* A disk's overlay contains what DOS wrote to the same folder, in the database and in
\* the drive, although mounts, flushes and disconnects overlap and each of their
\* transactions may fail.
THEOREM OverlaysStayTheirFolders ==
    ASSUME ~Impatient PROVE Spec => []OverlaysAreTheirFolders
<1>1. IInv => OverlaysAreTheirFolders
  BY DEF IInv, Owned, WrittenBy, OverlaysAreTheirFolders
<1>. QED  BY <1>1, Always, PTL

\* A clean disk is settled: at most one put of flush is on its way, and no deletion.
LEMMA CleanIsSettled == IInv => CleanIsSaved
<1> SUFFICES ASSUME IInv, drive.attached, NEW d \in Disks \ (drive.dirty \union drive.lost)
             PROVE  Settling(drive.folder, d) = drive.overlay[d]
  BY DEF CleanIsSaved
<1> DEFINE f == drive.folder
<1>1. TypeOK /\ Control /\ Held /\ d \in Settled
  BY DEF IInv, Held, Settled
<1>2. \A t \in Pending : /\ t.op # "delete"
                         /\ t.op = "put" => t.folder = f
  <2>1. \A h \in Mounts : at[h].step # "delete"
    BY <1>1, Names DEF Control, DriveOK, Busy
  <2>2. at["disconnect"].step # "delete"
    BY <1>1, Names DEF Control, DriveOK, Busy
  <2>3. at["flush"].step # "delete"
    BY <1>1 DEF Control, Steps
  <2>. QED  BY <1>1, <2>1, <2>2, <2>3, Whose, Names DEF Control, PutsOK, Awaited
<1>3. \A i, j \in 1..Len(txs) : txs[i].op = "put" /\ txs[j].op = "put" => i = j
  <2>1. \A i \in 1..Len(txs) : txs[i].op = "put" => txs[i].by = "flush"
    BY <1>1, Whose DEF Pending, Members
  <2>. QED  BY <1>1, <2>1 DEF Control, Queue, Distinct
<1>4. \A i \in Puts(f, d) : i \in 1..Len(txs) /\ txs[i].op = "put" /\ txs[i].disk = d
  BY <1>2 DEF Puts, Pending, Members
<1>5. CASE Puts(f, d) = {}
  <2>1. \A t \in Pending : t.op = "put" => t.disk # d
    BY <1>2, <1>5 DEF Puts, Pending, Members
  <2>. QED  BY <1>1, <1>5, <2>1 DEF IInv, Clean, Settling
<1>6. ASSUME NEW i \in Puts(f, d)
      PROVE  Settling(f, d) = drive.overlay[d]
  <2>1. Puts(f, d) = {i}
    BY <1>3, <1>4, <1>6
  <2>2. i <= i
    BY <1>4
  <2>3. (CHOOSE k \in Puts(f, d) : \A j \in Puts(f, d) : j <= k) = i
    BY <2>1, <2>2
  <2>4. Settling(f, d) = txs[i].data
    BY <2>1, <2>3 DEF Settling
  <2>5. txs[i] \in Pending
    BY <1>4 DEF Pending, Members
  <2>6. \A t \in Pending : t.op = "put" => t = txs[i]
    BY <1>3, <1>4 DEF Pending, Members
  <2>. QED  BY <1>1, <1>4, <2>4, <2>5, <2>6 DEF IInv, Clean
<1>. QED  BY <1>5, <1>6

\* What is not marked dirty is in the database or on its way there, for the folder that
\* is attached: also right after the mount, so nothing saved was left out of it, and
\* after a transaction of a mount, a disconnect or another disk's flush has failed.
\* What is lost to a flush is what its own failed transaction took down.
THEOREM NothingLeftOut ==
    ASSUME ~Impatient PROVE Spec => []CleanIsSaved
<1>. QED  BY CleanIsSettled, Always, PTL

\* The types; that nothing is left of a folder, nor written any more, once the page
\* is told that it is disconnected; and that a machine that runs has a tick scheduled.
THEOREM InStep ==
    ASSUME ~Impatient PROVE Spec => []Consistent
<1>1. IInv => Consistent
  BY DEF IInv, Gone, Emptied, Consistent, ForgottenIsGone, RunningHasTick
<1>. QED  BY <1>1, Always, PTL
============================================================================
