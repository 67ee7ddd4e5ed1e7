---------------------------- MODULE DriveCProofs ----------------------------
(***************************************************************************)
(* Proofs about drive C: its store, for any number of chunks, writes, page *)
(* openings and failures, and any overlap of flushes, imports, wipes and   *)
(* closings.                                                               *)
(***************************************************************************)
EXTENDS DriveC, SequenceTheorems, TLAPS

Writes == {"putMeta", "putChunks"}
Ops == {"getMeta", "loadChunks", "deleteDisk"} \union Writes
ChunkData == UNION {[S -> 0..MaxWrites] : S \in SUBSET Chunks}
Transactions == [op : Ops, by : Flows \union {"timer", "message"}, data : ChunkData]
Waits == 1..Len(txs)

\* What waits is made of transactions, and only putChunks carries chunks.
TxsOK ==
    /\ txs \in Seq(Transactions)
    /\ \A i \in Waits : DOMAIN txs[i].data # {} => txs[i].op = "putChunks"

\* Versions of a chunk only grow on their way: the database, then the waiting
\* transactions in their order, then the image if the chunk is dirty.
Counted ==
    \A c \in Chunks :
        image.chunks[c] <= clock /\ disk.chunks[c] <= clock /\ answer.chunks[c] <= clock
Carried ==
    \A i \in Waits : \A c \in DOMAIN txs[i].data : txs[i].data[c] <= clock
Ascending ==
    /\ \A i \in Waits : \A c \in DOMAIN txs[i].data : disk.chunks[c] <= txs[i].data[c]
    /\ \A i, j \in Waits : i < j =>
          \A c \in DOMAIN txs[i].data \intersect DOMAIN txs[j].data :
              txs[i].data[c] <= txs[j].data[c]
Newest(img) ==
    \A c \in img.dirty :
        /\ disk.chunks[c] <= img.chunks[c]
        /\ \A i \in Waits : c \in DOMAIN txs[i].data => txs[i].data[c] <= img.chunks[c]

OrderInv == TypeOK /\ TxsOK /\ Counted /\ Carried /\ Ascending /\ Newest(image)

----------------------------------------------------------------------------
(* Sequences, and what the operators of the model return.                  *)

LEMMA RemoveAtElements ==
    ASSUME NEW S, NEW s \in Seq(S), NEW i \in 1..Len(s)
    PROVE  /\ RemoveAt(s, i) \in Seq(S)
           /\ Len(RemoveAt(s, i)) = Len(s) - 1
           /\ \A j \in 1..(Len(s) - 1) : RemoveAt(s, i)[j] = s[IF j < i THEN j ELSE j + 1]
<1> DEFINE a == SubSeq(s, 1, i - 1)
           b == SubSeq(s, i + 1, Len(s))
<1>1. Len(s) \in Nat /\ i \in 1..Len(s) /\ \A j \in 1..Len(s) : s[j] \in S
  OBVIOUS
<1>2. a \in Seq(S) /\ Len(a) = i - 1 /\ \A j \in 1..(i - 1) : a[j] = s[j]
  BY <1>1
<1>3. b \in Seq(S) /\ Len(b) = Len(s) - i /\ \A j \in 1..(Len(s) - i) : b[j] = s[i + j]
  BY <1>1
<1> HIDE DEF a, b
<1>4. /\ a \o b \in Seq(S) /\ Len(a \o b) = Len(s) - 1
      /\ \A j \in 1..(Len(s) - 1) : (a \o b)[j] = IF j < i THEN a[j] ELSE b[j - (i - 1)]
  <2>1. /\ a \o b \in Seq(S) /\ Len(a \o b) = Len(a) + Len(b)
        /\ \A j \in 1..(Len(a) + Len(b)) : (a \o b)[j] = IF j <= Len(a) THEN a[j] ELSE b[j - Len(a)]
    BY <1>2, <1>3, ConcatProperties
  <2>. QED  BY <2>1, <1>1, <1>2, <1>3
<1>5. ASSUME NEW j \in 1..(Len(s) - 1)
      PROVE  (a \o b)[j] = s[IF j < i THEN j ELSE j + 1]
  <2>1. CASE j < i
    BY <2>1, <1>1, <1>2, <1>4
  <2>2. CASE i <= j
    <3>1. PICK x \in 1..(Len(s) - i) : x = j - (i - 1) /\ i + x = j + 1
      BY <2>2, <1>1
    <3>2. (a \o b)[j] = b[x]
      BY <3>1, <2>2, <1>1, <1>4
    <3>3. b[x] = s[j + 1]
      BY <3>1, <1>3
    <3>. QED  BY <3>2, <3>3, <2>2, <1>1
  <2>3. j < i \/ i <= j
    BY <1>1
  <2>. QED  BY <2>1, <2>2, <2>3
<1>6. RemoveAt(s, i) = a \o b
  BY DEF RemoveAt, a, b
<1>. QED  BY <1>4, <1>5, <1>6

LEMMA TxType ==
    ASSUME NEW op \in Ops, NEW by \in Flows \union {"timer", "message"}, NEW data \in ChunkData
    PROVE  /\ Tx(op, by, data) \in Transactions
           /\ Tx(op, by, data).op = op /\ Tx(op, by, data).by = by /\ Tx(op, by, data).data = data
  BY DEF Tx, Transactions

LEMMA NoDataType == NoData \in ChunkData /\ DOMAIN NoData = {}
<1>1. NoData \in [{} -> 0..MaxWrites]
  BY DEF NoData
<1>. QED  BY <1>1 DEF ChunkData, NoData

Images == [chunks : Contents, dirty : SUBSET Chunks, attached : BOOLEAN]

LEMMA DirtyDataType ==
    ASSUME NEW img \in Images
    PROVE  /\ DirtyData(img) \in ChunkData /\ DOMAIN DirtyData(img) = img.dirty
           /\ \A c \in img.dirty : DirtyData(img)[c] = img.chunks[c]
<1>1. img.dirty \in SUBSET Chunks /\ \A c \in img.dirty : img.chunks[c] \in 0..MaxWrites
  BY DEF Images, Contents
<1>2. DirtyData(img) \in [img.dirty -> 0..MaxWrites]
  BY <1>1 DEF DirtyData
<1>. QED  BY <1>1, <1>2 DEF DirtyData, ChunkData

LEMMA WrittenImage ==
    ASSUME NEW img \in Images, NEW c \in Chunks, clock \in Nat, clock < MaxWrites
    PROVE  /\ Written(img, c) \in Images
           /\ Written(img, c).chunks = [img.chunks EXCEPT ![c] = clock + 1]
           /\ Written(img, c).dirty = img.dirty \union {c}
           /\ Written(img, c).attached = img.attached
<1>1. /\ img = [chunks |-> img.chunks, dirty |-> img.dirty, attached |-> img.attached]
      /\ img.chunks \in [Chunks -> 0..MaxWrites] /\ img.dirty \in SUBSET Chunks
      /\ img.attached \in BOOLEAN
  BY DEF Images, Contents
<1>2. clock + 1 \in 0..MaxWrites
  BY BoundsAssumption
<1>3. Written(img, c) = [chunks |-> [img.chunks EXCEPT ![c] = clock + 1],
                         dirty |-> img.dirty \union {c}, attached |-> img.attached]
  <2>1. Written(img, c) = [[img EXCEPT !.chunks[c] = clock + 1] EXCEPT !.dirty = @ \union {c}]
    BY DEF Written
  <2>2. [img EXCEPT !.chunks[c] = clock + 1] =
            [chunks |-> [img.chunks EXCEPT ![c] = clock + 1],
                         dirty |-> img.dirty, attached |-> img.attached]
    BY <1>1
  <2>. QED  BY <2>1, <2>2
<1>4. [img.chunks EXCEPT ![c] = clock + 1] \in [Chunks -> 0..MaxWrites]
  BY <1>1, <1>2
<1>. QED  BY <1>1, <1>3, <1>4 DEF Images, Contents

LEMMA TakenImage ==
    ASSUME NEW img \in Images
    PROVE  /\ TakeDirty(img) \in Images
           /\ TakeDirty(img).chunks = img.chunks /\ TakeDirty(img).dirty = {}
           /\ TakeDirty(img).attached = img.attached
  BY DEF TakeDirty, Images

\* flush() leaves everything alone or moves all that is dirty into a transaction.
LEMMA FlushEffect ==
    ASSUME NEW img \in Images, NEW by \in Flows \union {"timer", "message"}, FlushOf(img, by)
    PROVE  /\ image' \in Images /\ image'.chunks = img.chunks /\ image'.attached = img.attached
           /\ \/ image' = img /\ txs' = txs
              \/ /\ img.attached /\ image'.dirty = {}
                 /\ txs' = Append(txs, Tx("putChunks", by, DirtyData(img)))
  BY TakenImage DEF FlushOf

\* The queue with one transaction more, or without one.
LEMMA Added ==
    ASSUME TxsOK, NEW t \in Transactions, txs' = Append(txs, t)
    PROVE  /\ txs' \in Seq(Transactions)
           /\ Len(txs) \in Nat /\ Waits' = Waits \union {Len(txs) + 1}
           /\ \A i \in Waits : i \in Waits' /\ i < Len(txs) + 1 /\ txs'[i] = txs[i]
           /\ Len(txs) + 1 \in Waits' /\ txs'[Len(txs) + 1] = t
           /\ \A i \in Waits' : i \in Waits \/ i = Len(txs) + 1
  BY DEF TxsOK, Waits

Kept(j, i) == IF j < i THEN j ELSE j + 1

LEMMA Removed ==
    ASSUME TxsOK, NEW i \in Waits, txs' = RemoveAt(txs, i)
    PROVE  /\ txs' \in Seq(Transactions)
           /\ \A j \in Waits' : Kept(j, i) \in Waits \ {i} /\ txs'[j] = txs[Kept(j, i)]
           /\ \A j, k \in Waits' : j < k => Kept(j, i) < Kept(k, i)
           /\ \A k \in Waits \ {i} : \E j \in Waits' : k = Kept(j, i)
<1>1. /\ txs' \in Seq(Transactions) /\ Len(txs') = Len(txs) - 1
      /\ \A j \in 1..(Len(txs) - 1) : txs'[j] = txs[Kept(j, i)]
  BY RemoveAtElements DEF TxsOK, Waits, Kept
<1>2. Len(txs) \in Nat /\ i \in 1..Len(txs) /\ Waits' = 1..(Len(txs) - 1) /\ Waits = 1..Len(txs)
  BY <1>1 DEF TxsOK, Waits
<1>3. \A k \in Waits \ {i} : \E j \in Waits' : k = Kept(j, i)
  <2>1. ASSUME NEW k \in Waits \ {i}
        PROVE  \E j \in Waits' : k = Kept(j, i)
    <3>1. CASE k < i
      BY <3>1, <1>2 DEF Kept
    <3>2. CASE i < k
      <4>1. k - 1 \in Waits' /\ Kept(k - 1, i) = k
        BY <3>2, <1>2 DEF Kept
      <4>. QED  BY <4>1
    <3>. QED  BY <3>1, <3>2, <1>2
  <2>. QED  BY <2>1
<1>. QED  BY <1>1, <1>2, <1>3 DEF Kept

----------------------------------------------------------------------------
(* Versions only grow on their way to the database.                        *)

LEMMA Typed ==
    ASSUME TypeOK, TxsOK
    PROVE  /\ image \in Images /\ image.dirty \in SUBSET Chunks
           /\ clock \in Nat /\ MaxWrites \in Nat /\ Len(txs) \in Nat
           /\ \A c \in Chunks : /\ image.chunks[c] \in 0..MaxWrites
                                /\ disk.chunks[c] \in 0..MaxWrites
                                /\ answer.chunks[c] \in 0..MaxWrites
           /\ \A i \in Waits : /\ txs[i] \in Transactions
                               /\ DOMAIN txs[i].data \in SUBSET Chunks
                               /\ \A c \in DOMAIN txs[i].data : txs[i].data[c] \in 0..MaxWrites
<1>1. \A i \in Waits : txs[i] \in Transactions
  BY DEF TxsOK, Waits
<1>2. ASSUME NEW t \in Transactions
      PROVE  /\ DOMAIN t.data \in SUBSET Chunks
             /\ \A c \in DOMAIN t.data : t.data[c] \in 0..MaxWrites
  <2>1. PICK S \in SUBSET Chunks : t.data \in [S -> 0..MaxWrites]
    BY DEF Transactions, ChunkData
  <2>. QED  BY <2>1
<1>3. image \in Images /\ image.dirty \in SUBSET Chunks /\ clock \in Nat /\ Len(txs) \in Nat
  BY BoundsAssumption DEF TypeOK, Images, TxsOK
<1>4. \A c \in Chunks : /\ image.chunks[c] \in 0..MaxWrites /\ disk.chunks[c] \in 0..MaxWrites
                        /\ answer.chunks[c] \in 0..MaxWrites
  BY DEF TypeOK, Contents
<1>. QED  BY <1>1, <1>2, <1>3, <1>4, BoundsAssumption

LEMMA WrittenIsNewest ==
    ASSUME OrderInv, NEW img \in Images, NEW c \in Chunks, clock < MaxWrites, Newest(img),
           \A d \in Chunks : img.chunks[d] <= clock
    PROVE  /\ Written(img, c) \in Images /\ Newest(Written(img, c))
           /\ \A d \in Chunks : Written(img, c).chunks[d] <= clock + 1
<1> DEFINE w == Written(img, c)
<1>1. /\ w \in Images /\ w.chunks = [img.chunks EXCEPT ![c] = clock + 1]
      /\ w.dirty = img.dirty \union {c}
  BY WrittenImage, Typed DEF OrderInv
<1>2. img.chunks \in [Chunks -> 0..MaxWrites] /\ clock \in Nat /\ img.dirty \in SUBSET Chunks
  BY Typed DEF OrderInv, Images, Contents
<1> HIDE DEF w
<1>3. \A d \in Chunks : w.chunks[d] = IF d = c THEN clock + 1 ELSE img.chunks[d]
  BY <1>1, <1>2
<1>4. \A d \in Chunks : w.chunks[d] <= clock + 1
  BY <1>2, <1>3
<1>5. ASSUME NEW d \in w.dirty
      PROVE  /\ disk.chunks[d] <= w.chunks[d]
             /\ \A i \in Waits : d \in DOMAIN txs[i].data => txs[i].data[d] <= w.chunks[d]
  <2>1. CASE d = c
    <3>1. disk.chunks[c] <= clock /\ disk.chunks[c] \in Nat /\ w.chunks[c] = clock + 1
      BY <1>3, Typed DEF OrderInv, Counted
    <3>2. \A i \in Waits : c \in DOMAIN txs[i].data =>
                              txs[i].data[c] <= clock /\ txs[i].data[c] \in Nat
      BY Typed DEF OrderInv, Carried
    <3>. QED  BY <2>1, <3>1, <3>2, <1>2
  <2>2. CASE d # c
    <3>1. d \in img.dirty /\ d \in Chunks /\ w.chunks[d] = img.chunks[d]
      BY <2>2, <1>1, <1>2, <1>3
    <3>. QED  BY <3>1 DEF Newest
  <2>. QED  BY <2>1, <2>2
<1>. QED  BY <1>1, <1>4, <1>5 DEF Newest, w

\* Whatever a handler does between two awaits: it makes an image img, and keeps it,
\* or creates a transaction, without data or with all that is dirty in img.
LEMMA HandlerStep ==
    ASSUME OrderInv, TypeOK', clock <= clock', disk' = disk, answer' = answer,
           NEW img \in Images, Newest(img), \A c \in Chunks : img.chunks[c] <= clock',
           image'.chunks = img.chunks,
           \/ image'.dirty = img.dirty /\ txs' = txs
           \/ /\ image'.dirty = img.dirty
              /\ \E op \in Ops : \E by \in Flows \union {"timer", "message"} :
                    txs' = Append(txs, Tx(op, by, NoData))
           \/ /\ image'.dirty = {}
              /\ \E by \in Flows \union {"timer", "message"} :
                    txs' = Append(txs, Tx("putChunks", by, DirtyData(img)))
    PROVE  OrderInv'
<1>1. clock \in Nat /\ clock' \in Nat
  BY Typed, BoundsAssumption DEF OrderInv, TypeOK
<1>2. Counted'
  <2>1. \A c \in Chunks : /\ disk.chunks[c] \in Nat /\ disk.chunks[c] <= clock
                          /\ answer.chunks[c] \in Nat /\ answer.chunks[c] <= clock
    BY Typed DEF OrderInv, Counted
  <2>. QED  BY <2>1, <1>1 DEF Counted
<1>3. CASE image'.dirty = img.dirty /\ txs' = txs
  <2>1. TxsOK' /\ Ascending'
    BY <1>3 DEF OrderInv, TxsOK, Ascending, Waits
  <2>2. Carried'
    <3>1. \A i \in Waits : \A c \in DOMAIN txs[i].data :
              txs[i].data[c] \in Nat /\ txs[i].data[c] <= clock
      BY Typed DEF OrderInv, Carried
    <3>. QED  BY <3>1, <1>1, <1>3 DEF Carried, Waits
  <2>3. Newest(image)'
    BY <1>3 DEF Newest, Waits
  <2>. QED  BY <1>2, <2>1, <2>2, <2>3 DEF OrderInv
<1>4. ASSUME NEW t \in Transactions, txs' = Append(txs, t),
             DOMAIN t.data # {} => t.op = "putChunks" /\ image'.dirty = {},
             DOMAIN t.data \subseteq img.dirty,
             \A c \in DOMAIN t.data : t.data[c] = img.chunks[c],
             image'.dirty \subseteq img.dirty
      PROVE  OrderInv'
  <2> DEFINE n == Len(txs) + 1
  <2>1. /\ txs' \in Seq(Transactions) /\ Len(txs) \in Nat
        /\ \A i \in Waits : i < n /\ txs'[i] = txs[i]
        /\ txs'[n] = t
        /\ \A i \in Waits' : i \in Waits \/ i = n
    BY <1>4, Added DEF OrderInv
  <2>2. /\ \A i \in Waits : \A c \in DOMAIN txs[i].data :
              /\ c \in Chunks /\ txs[i].data[c] \in Nat /\ txs[i].data[c] <= clock
              /\ disk.chunks[c] <= txs[i].data[c]
        /\ \A c \in Chunks : img.chunks[c] \in Nat /\ disk.chunks[c] \in Nat
        /\ img.dirty \in SUBSET Chunks
    BY Typed DEF OrderInv, Carried, Ascending, Images, Contents
  <2>3. n \in Nat /\ n \notin Waits /\ \A i \in Waits : i \in Nat /\ ~(n < i)
    BY <2>1 DEF Waits
  <2> HIDE DEF n
  <2>4. TxsOK'
    BY <2>1, <1>4 DEF OrderInv, TxsOK
  <2>5. Carried'
    <3>1. ASSUME NEW i \in Waits', NEW c \in DOMAIN txs'[i].data
          PROVE  txs'[i].data[c] <= clock'
      <4>1. CASE i \in Waits
        BY <4>1, <2>1, <2>2, <1>1
      <4>2. CASE i = n
        BY <4>2, <2>1, <2>2, <1>4
      <4>. QED  BY <4>1, <4>2, <2>1
    <3>. QED  BY <3>1 DEF Carried
  <2>6. Ascending'
    <3>1. ASSUME NEW i \in Waits', NEW c \in DOMAIN txs'[i].data
          PROVE  disk'.chunks[c] <= txs'[i].data[c]
      <4>1. CASE i \in Waits
        BY <4>1, <2>1, <2>2
      <4>2. CASE i = n
        BY <4>2, <2>1, <2>2, <1>4 DEF Newest
      <4>. QED  BY <4>1, <4>2, <2>1
    <3>2. ASSUME NEW i \in Waits', NEW j \in Waits', i < j,
                 NEW c \in DOMAIN txs'[i].data \intersect DOMAIN txs'[j].data
          PROVE  txs'[i].data[c] <= txs'[j].data[c]
      <4>1. CASE i \in Waits /\ j \in Waits
        BY <4>1, <3>2, <2>1 DEF OrderInv, Ascending
      <4>2. CASE i \in Waits /\ j = n
        BY <4>2, <3>2, <2>1, <1>4 DEF Newest
      <4>3. CASE i = n
        BY <4>3, <3>2, <2>1, <2>3
      <4>. QED  BY <4>1, <4>2, <4>3, <2>1
    <3>. QED  BY <3>1, <3>2 DEF Ascending
  <2>7. Newest(image)'
    <3>1. CASE DOMAIN t.data = {}
      <4>1. ASSUME NEW c \in image'.dirty, NEW i \in Waits', c \in DOMAIN txs'[i].data
            PROVE  txs'[i].data[c] <= image'.chunks[c]
        BY <3>1, <4>1, <2>1, <1>4 DEF Newest
      <4>2. \A c \in image'.dirty : disk'.chunks[c] <= image'.chunks[c]
        BY <1>4 DEF Newest
      <4>. QED  BY <4>1, <4>2 DEF Newest
    <3>2. CASE DOMAIN t.data # {}
      BY <3>2, <1>4 DEF Newest
    <3>. QED  BY <3>1, <3>2
  <2>. QED  BY <1>2, <2>4, <2>5, <2>6, <2>7 DEF OrderInv
<1>5. ASSUME NEW op \in Ops, NEW by \in Flows \union {"timer", "message"},
             txs' = Append(txs, Tx(op, by, NoData)), image'.dirty = img.dirty
      PROVE  OrderInv'
  <2>1. Tx(op, by, NoData) \in Transactions /\ DOMAIN Tx(op, by, NoData).data = {}
    BY TxType, NoDataType
  <2>. QED  BY <2>1, <1>4, <1>5
<1>6. ASSUME NEW by \in Flows \union {"timer", "message"},
             txs' = Append(txs, Tx("putChunks", by, DirtyData(img))), image'.dirty = {}
      PROVE  OrderInv'
  <2> DEFINE d == DirtyData(img)
             t == Tx("putChunks", by, d)
  <2>1. /\ t \in Transactions /\ t.op = "putChunks" /\ DOMAIN t.data = img.dirty
        /\ \A c \in DOMAIN t.data : t.data[c] = img.chunks[c]
    <3>1. "putChunks" \in Ops
      BY DEF Ops, Writes
    <3>2. /\ d \in ChunkData /\ DOMAIN d = img.dirty
          /\ \A c \in img.dirty : d[c] = img.chunks[c]
      BY DirtyDataType
    <3> HIDE DEF d
    <3>3. t \in Transactions /\ t.op = "putChunks" /\ t.data = d
      BY <3>1, <3>2 DEF Tx, Transactions
    <3>. QED  BY <3>2, <3>3
  <2> HIDE DEF t
  <2>2. txs' = Append(txs, t)
    BY <1>6 DEF t
  <2>. QED  BY <2>1, <2>2, <1>4, <1>6
<1>. QED  BY <1>3, <1>5, <1>6

\* A transaction takes effect, and its chunks were the oldest on their way.
LEMMA CommitOrder ==
    ASSUME OrderInv, TypeOK', NEW i \in Waits, Commit(i)
    PROVE  OrderInv'
<1> USE DEF OrderInv
<1>1. /\ txs' = RemoveAt(txs, i) /\ UNCHANGED <<image, clock>> /\ MayRun(i)
      /\ disk' = Applied(txs[i])
      /\ answer' = answer \/ answer' = disk
  BY DEF Commit
<1>2. /\ txs' \in Seq(Transactions)
      /\ \A j \in Waits' : Kept(j, i) \in Waits \ {i} /\ txs'[j] = txs[Kept(j, i)]
      /\ \A j, k \in Waits' : j < k => Kept(j, i) < Kept(k, i)
  BY <1>1, Removed
<1>3. /\ clock \in Nat /\ i \in Nat
      /\ \A j \in Waits : \A c \in DOMAIN txs[j].data :
            c \in Chunks /\ txs[j].data[c] \in Nat /\ j \in Nat
      /\ \A c \in Chunks : disk.chunks[c] \in Nat /\ image.chunks[c] \in Nat
      /\ txs[i] \in Transactions /\ image.dirty \in SUBSET Chunks
  BY Typed DEF Waits
<1>4. \A c \in Chunks :
          disk'.chunks[c] = IF c \in DOMAIN txs[i].data THEN txs[i].data[c]
                            ELSE IF txs[i].op = "deleteDisk" THEN 0 ELSE disk.chunks[c]
  <2>1. disk = [meta |-> disk.meta, chunks |-> disk.chunks] /\ disk.chunks \in [Chunks -> 0..MaxWrites]
    BY DEF TypeOK, Contents
  <2>2. DOMAIN txs[i].data # {} => txs[i].op = "putChunks"
    BY DEF TxsOK
  <2>3. CASE txs[i].op = "putMeta"
    BY <2>1, <2>2, <2>3, <1>1 DEF Applied
  <2>4. CASE txs[i].op = "putChunks"
    BY <2>1, <2>4, <1>1 DEF Applied
  <2>5. CASE txs[i].op = "deleteDisk"
    BY <2>2, <2>5, <1>1 DEF Applied, EmptyDisk, Blank
  <2>6. CASE txs[i].op \in {"getMeta", "loadChunks"}
    BY <2>2, <2>6, <1>1 DEF Applied
  <2>. QED  BY <2>3, <2>4, <2>5, <2>6, <1>3 DEF Transactions, Ops, Writes
<1>5. ASSUME NEW j \in Waits \ {i}, NEW c \in DOMAIN txs[j].data \intersect DOMAIN txs[i].data
      PROVE  i < j
  <2>1. txs[i].op = "putChunks" /\ txs[j].op = "putChunks"
    BY <1>5 DEF TxsOK
  <2>2. "chunks" \in Scope(txs[i]) \intersect Scope(txs[j])
    BY <2>1 DEF Scope
  <2>3. ~(j < i)
    BY <2>2, <1>1 DEF MayRun, Waits
  <2>. QED  BY <2>3, <1>3 DEF Waits
<1>6. TxsOK' /\ Carried'
  <2>1. TxsOK'
    BY <1>2 DEF TxsOK
  <2>2. Carried'
    BY <1>1, <1>2 DEF Carried
  <2>. QED  BY <2>1, <2>2
<1>7. Counted'
  <2>1. ASSUME NEW c \in Chunks
        PROVE  image'.chunks[c] <= clock' /\ disk'.chunks[c] <= clock' /\ answer'.chunks[c] <= clock'
    BY <1>1, <1>3, <1>4 DEF Counted, Carried
  <2>. QED  BY <2>1 DEF Counted
<1>8. Ascending'
  <2>1. ASSUME NEW j \in Waits', NEW c \in DOMAIN txs'[j].data
        PROVE  disk'.chunks[c] <= txs'[j].data[c]
    <3>1. PICK k \in Waits \ {i} : k = Kept(j, i) /\ txs'[j] = txs[k]
      BY <1>2
    <3>2. CASE c \in DOMAIN txs[i].data
      BY <3>1, <3>2, <2>1, <1>3, <1>4, <1>5 DEF Ascending
    <3>3. CASE c \notin DOMAIN txs[i].data
      BY <3>1, <3>3, <2>1, <1>3, <1>4 DEF Ascending
    <3>. QED  BY <3>2, <3>3
  <2>2. ASSUME NEW j \in Waits', NEW k \in Waits', j < k,
               NEW c \in DOMAIN txs'[j].data \intersect DOMAIN txs'[k].data
        PROVE  txs'[j].data[c] <= txs'[k].data[c]
    BY <2>2, <1>2 DEF Ascending
  <2>. QED  BY <2>1, <2>2 DEF Ascending
<1>9. Newest(image)'
  <2>1. ASSUME NEW c \in image.dirty
        PROVE  disk'.chunks[c] <= image.chunks[c]
    BY <1>3, <1>4 DEF Newest
  <2>2. ASSUME NEW c \in image.dirty, NEW j \in Waits', c \in DOMAIN txs'[j].data
        PROVE  txs'[j].data[c] <= image.chunks[c]
    BY <2>2, <1>2 DEF Newest
  <2>. QED  BY <2>1, <2>2, <1>1 DEF Newest
<1>. QED  BY <1>6, <1>7, <1>8, <1>9

\* A transaction fails: what is left is in the same order.
LEMMA FailOrder ==
    ASSUME OrderInv, TypeOK', NEW i \in Waits, Fail(i)
    PROVE  OrderInv'
<1> USE DEF OrderInv
<1>1. txs' = RemoveAt(txs, i) /\ UNCHANGED <<image, disk, answer, clock>>
  BY DEF Fail
<1>2. /\ txs' \in Seq(Transactions)
      /\ \A j \in Waits' : Kept(j, i) \in Waits \ {i} /\ txs'[j] = txs[Kept(j, i)]
      /\ \A j, k \in Waits' : j < k => Kept(j, i) < Kept(k, i)
  BY <1>1, Removed
<1>3. TxsOK' /\ Carried' /\ Counted'
  <2>1. TxsOK'
    BY <1>2 DEF TxsOK
  <2>2. Carried' /\ Counted'
    BY <1>1, <1>2 DEF Carried, Counted
  <2>. QED  BY <2>1, <2>2
<1>4. Ascending'
  BY <1>1, <1>2 DEF Ascending
<1>5. Newest(image)'
  BY <1>1, <1>2 DEF Newest
<1>. QED  BY <1>3, <1>4, <1>5

----------------------------------------------------------------------------
(* Every step keeps the types.                                             *)

LEMMA FlowType ==
    ASSUME TypeOK
    PROVE  /\ flow = [boot |-> flow.boot, import |-> flow.import, wipe |-> flow.wipe]
           /\ \A b \in BootSteps : [flow EXCEPT !.boot = b] \in
                 [boot : BootSteps, import : {"idle", "flushing", "failed"},
                  wipe : {"idle", "deleting", "acked"}]
           /\ \A b \in {"idle", "flushing", "failed"} : [flow EXCEPT !.import = b] \in
                 [boot : BootSteps, import : {"idle", "flushing", "failed"},
                  wipe : {"idle", "deleting", "acked"}]
           /\ \A b \in {"idle", "deleting", "acked"} : [flow EXCEPT !.wipe = b] \in
                 [boot : BootSteps, import : {"idle", "flushing", "failed"},
                  wipe : {"idle", "deleting", "acked"}]
           /\ \A f \in Flows : \A o \in {"pending", "ok", "error"} :
                 [settled EXCEPT ![f] = o] \in [Flows -> {"pending", "ok", "error"}]
  BY DEF TypeOK

FlowOK == /\ flow \in [boot : BootSteps, import : {"idle", "flushing", "failed"},
                       wipe : {"idle", "deleting", "acked"}]
          /\ settled \in [Flows -> {"pending", "ok", "error"}]
          /\ machine \in [running : BOOLEAN, timer : BOOLEAN]
CountersOK == /\ opens \in 0..MaxOpens /\ clock \in 0..MaxWrites /\ wipedAt \in 0..clock
              /\ lost \in SUBSET Chunks /\ failures \in 0..MaxFailures
StoreOK == /\ image \in Images
           /\ disk \in [meta : BOOLEAN, chunks : Contents]
           /\ answer \in [meta : BOOLEAN, chunks : Contents]

LEMMA TypeParts == TypeOK <=> FlowOK /\ CountersOK /\ StoreOK
  BY DEF TypeOK, FlowOK, CountersOK, StoreOK, Images

LEMMA AppliedType ==
    ASSUME TypeOK, NEW t \in Transactions
    PROVE  Applied(t) \in [meta : BOOLEAN, chunks : Contents]
<1>1. disk = [meta |-> disk.meta, chunks |-> disk.chunks] /\ disk.chunks \in [Chunks -> 0..MaxWrites]
      /\ disk.meta \in BOOLEAN
  BY DEF TypeOK, Contents
<1>2. PICK S \in SUBSET Chunks : t.data \in [S -> 0..MaxWrites]
  BY DEF Transactions, ChunkData
<1>3. CASE t.op = "putMeta"
  BY <1>1, <1>3 DEF Applied, Contents
<1>4. CASE t.op = "putChunks"
  <2> DEFINE new == [c \in Chunks |-> IF c \in DOMAIN t.data THEN t.data[c] ELSE disk.chunks[c]]
  <2>1. new \in [Chunks -> 0..MaxWrites]
    BY <1>1, <1>2
  <2>2. Applied(t) = [meta |-> disk.meta, chunks |-> new]
    BY <1>1, <1>4 DEF Applied
  <2> HIDE DEF new
  <2>. QED  BY <1>1, <2>1, <2>2 DEF Contents
<1>5. CASE t.op = "deleteDisk"
  <2>1. [c \in Chunks |-> 0] \in [Chunks -> 0..MaxWrites]
    BY BoundsAssumption
  <2>. QED  BY <1>5, <2>1 DEF Applied, EmptyDisk, Blank, Contents
<1>6. CASE t.op \in {"getMeta", "loadChunks"}
  BY <1>1, <1>6 DEF Applied, Contents
<1>. QED  BY <1>3, <1>4, <1>5, <1>6 DEF Transactions, Ops, Writes

LEMMA BlankTypes ==
    /\ NoImage \in Images /\ EmptyDisk \in [meta : BOOLEAN, chunks : Contents]
    /\ NoImage.chunks = Blank /\ NoImage.dirty = {} /\ NoImage.attached = FALSE
<1>1. Blank \in Contents
  BY BoundsAssumption DEF Blank, Contents
<1>. QED  BY <1>1 DEF NoImage, EmptyDisk, Images

LEMMA FlowStep ==
    ASSUME TypeOK, TxsOK, Next
    PROVE  FlowOK'
<1> USE DEF FlowOK
<1>0. FlowOK
  BY TypeParts
<1>1. ASSUME NEW f \in Flows, NEW op, NEW data, Await(f, op, data)
      PROVE  settled' \in [Flows -> {"pending", "ok", "error"}]
  BY <1>1, <1>0 DEF Await
<1>2. ASSUME NEW t, NEW o \in {"pending", "ok", "error"}, Settle(t, o)
      PROVE  settled' \in [Flows -> {"pending", "ok", "error"}]
  BY <1>2, <1>0 DEF Settle
<1>3. "boot" \in Flows /\ "import" \in Flows /\ "wipe" \in Flows
  BY DEF Flows
<1>4. CASE Database
  BY <1>0, <1>2, <1>4 DEF Database, Commit, Fail
<1>5. CASE OpenPage \/ GotMeta \/ Upgraded \/ ChunksPut \/ BootFails \/ MetaPut
  BY <1>0, <1>1, <1>3, <1>5, FlowType
     DEF OpenPage, GotMeta, Upgraded, ChunksPut, BootFails, MetaPut, BootSteps
<1>6. CASE Loaded \/ Build
  BY <1>0, <1>1, <1>3, <1>6, FlowType DEF Loaded, Build, BootSteps
<1>7. CASE Start
  BY <1>0, <1>7, FlowType DEF Start, BootSteps
<1>8. ASSUME NEW c \in Chunks, GuestWrite(c) \/ Import(c) \/ ImportThrows(c)
      PROVE  FlowOK'
  <2>1. CASE GuestWrite(c)
    BY <1>0, <2>1, FlowType DEF GuestWrite
  <2>2. CASE Import(c)
    <3>1. flow' = [flow EXCEPT !.import = "flushing"] /\ machine' = [machine EXCEPT !.running = FALSE]
      BY <2>2 DEF Import
    <3>2. settled' \in [Flows -> {"pending", "ok", "error"}]
      BY <1>0, <1>3, <2>2 DEF Import
    <3>. QED  BY <1>0, <3>1, <3>2, FlowType
  <2>3. CASE ImportThrows(c)
    <3>1. flow' = [flow EXCEPT !.import = "failed"] /\ machine' = [machine EXCEPT !.running = FALSE]
      BY <2>3 DEF ImportThrows
    <3>. QED  BY <1>0, <2>3, <3>1, FlowType DEF ImportThrows
  <2>. QED  BY <1>8, <2>1, <2>2, <2>3
<1>9. CASE TimerFlush \/ FlushMessage \/ Imported \/ ImportNotStored
  BY <1>0, <1>9, FlowType DEF TimerFlush, FlushMessage, Imported, ImportNotStored
<1>10. CASE UserReset
  <2>1. (IF flow.import = "failed" THEN "idle" ELSE flow.import) \in {"idle", "flushing", "failed"}
    BY <1>0
  <2>. QED  BY <1>0, <1>10, <2>1, FlowType DEF UserReset
<1>11. CASE Wipe \/ Wiped
  <2>1. CASE Wipe
    <3>1. Stopped \in [running : BOOLEAN, timer : BOOLEAN]
      BY DEF Stopped
    <3>2. settled' \in [Flows -> {"pending", "ok", "error"}]
      BY <2>1, <1>1, <1>3 DEF Wipe
    <3>. QED  BY <2>1, <3>1, <3>2, FlowType DEF Wipe
  <2>2. CASE Wiped
    BY <1>0, <2>2, FlowType DEF Wiped
  <2>. QED  BY <1>11, <2>1, <2>2
<1>12. CASE ClosePage
  BY <1>12 DEF ClosePage, NoFlow, Waiting, Stopped, BootSteps
<1>. QED  BY <1>4, <1>5, <1>6, <1>7, <1>8, <1>9, <1>10, <1>11, <1>12 DEF Next, Boot

LEMMA CountersStep ==
    ASSUME TypeOK, TxsOK, Next
    PROVE  CountersOK'
<1> USE DEF CountersOK
<1>0. CountersOK /\ MaxOpens \in Nat /\ MaxWrites \in Nat /\ MaxFailures \in Nat
  BY TypeParts, BoundsAssumption
<1>1. \A i \in Waits : DOMAIN txs[i].data \in SUBSET Chunks
  BY Typed
<1>2. CASE Database
  <2>1. ASSUME NEW i \in Waits, Commit(i)
        PROVE  CountersOK'
    BY <1>0, <2>1 DEF Commit
  <2>2. ASSUME NEW i \in Waits, Fail(i)
        PROVE  CountersOK'
    BY <1>0, <1>1, <2>2 DEF Fail
  <2>. QED  BY <1>2, <2>1, <2>2 DEF Database, Waits
<1>3. CASE OpenPage \/ GotMeta \/ Upgraded \/ ChunksPut \/ BootFails \/ MetaPut \/ Start
  BY <1>0, <1>3 DEF OpenPage, GotMeta, Upgraded, ChunksPut, BootFails, MetaPut, Start
<1>4. CASE Loaded \/ Build
  BY <1>0, <1>4 DEF Loaded, Build
<1>5. ASSUME NEW c \in Chunks, GuestWrite(c) \/ Import(c) \/ ImportThrows(c)
      PROVE  CountersOK'
  BY <1>0, <1>5 DEF GuestWrite, Import, ImportThrows
<1>6. CASE TimerFlush \/ FlushMessage \/ Imported \/ ImportNotStored \/ UserReset
  BY <1>0, <1>6 DEF TimerFlush, FlushMessage, Imported, ImportNotStored, UserReset
<1>7. CASE Wipe \/ Wiped \/ ClosePage
  BY <1>0, <1>7 DEF Wipe, Wiped, ClosePage
<1>. QED  BY <1>2, <1>3, <1>4, <1>5, <1>6, <1>7 DEF Next, Boot

LEMMA StoreStep ==
    ASSUME TypeOK, TxsOK, Next
    PROVE  StoreOK'
<1> USE DEF StoreOK
<1>0. StoreOK /\ clock \in Nat /\ NoImage \in Images
  BY TypeParts, Typed, BlankTypes
<1>1. ASSUME NEW i \in Waits, Commit(i) \/ Fail(i)
      PROVE  StoreOK'
  <2>1. Applied(txs[i]) \in [meta : BOOLEAN, chunks : Contents]
    BY Typed, AppliedType
  <2>. QED  BY <1>0, <1>1, <2>1 DEF Commit, Fail
<1>2. CASE \/ OpenPage \/ GotMeta \/ Upgraded \/ ChunksPut \/ BootFails \/ Start
           \/ Imported \/ ImportNotStored \/ UserReset \/ Wiped
  BY <1>0, <1>2 DEF OpenPage, GotMeta, Upgraded, ChunksPut, BootFails, Start,
                    Imported, ImportNotStored, UserReset, Wiped
<1>3. CASE Loaded
  <2> DEFINE img == [chunks |-> answer.chunks, dirty |-> {}, attached |-> TRUE]
  <2>1. img \in Images
    BY <1>0 DEF Images
  <2>2. image' = img \/ (clock < MaxWrites /\ image' = TakeDirty(Written(img, Sys)))
    BY <1>3 DEF Loaded
  <2> HIDE DEF img
  <2>3. clock < MaxWrites => TakeDirty(Written(img, Sys)) \in Images
    BY <2>1, <1>0, SysAssumption, WrittenImage, TakenImage
  <2>. QED  BY <1>0, <1>3, <2>1, <2>2, <2>3 DEF Loaded
<1>4. CASE Build
  <2>1. Written(NoImage, Sys) \in Images
    BY <1>0, <1>4, SysAssumption, WrittenImage DEF Build
  <2>2. [Written(NoImage, Sys) EXCEPT !.attached = TRUE] \in Images
    BY <2>1 DEF Images
  <2>. QED  BY <1>0, <1>4, <2>2 DEF Build
<1>5. CASE MetaPut
  BY <1>0, <1>5, TakenImage DEF MetaPut
<1>6. ASSUME NEW c \in Chunks, GuestWrite(c) \/ Import(c) \/ ImportThrows(c)
      PROVE  StoreOK'
  <2>1. Written(image, c) \in Images
    BY <1>0, <1>6, WrittenImage DEF GuestWrite, Import, ImportThrows
  <2>2. Import(c) => image' \in Images
    BY <2>1, TakenImage DEF Import, FlushOf
  <2>. QED  BY <1>0, <1>6, <2>1, <2>2 DEF GuestWrite, Import, ImportThrows
<1>7. CASE TimerFlush \/ FlushMessage
  <2>1. image' \in Images
    BY <1>0, <1>7, TakenImage DEF TimerFlush, FlushMessage, FlushOf
  <2>. QED  BY <1>0, <1>7, <2>1 DEF TimerFlush, FlushMessage
<1>8. CASE Wipe
  <2>1. [image EXCEPT !.attached = FALSE] \in Images
    BY <1>0 DEF Images
  <2>. QED  BY <1>0, <1>8, <2>1 DEF Wipe
<1>9. CASE ClosePage
  BY <1>0, <1>9, BlankTypes DEF ClosePage
<1>. QED  BY <1>1, <1>2, <1>3, <1>4, <1>5, <1>6, <1>7, <1>8, <1>9 DEF Next, Boot, Database, Waits

LEMMA TypeStep == TypeOK /\ TxsOK /\ [Next]_vars => TypeOK'
<1>1. TypeOK /\ UNCHANGED vars => TypeOK'
  BY DEF vars, TypeOK
<1>2. TypeOK /\ TxsOK /\ Next => FlowOK' /\ CountersOK' /\ StoreOK'
  BY FlowStep, CountersStep, StoreStep
<1>3. TypeOK' <=> FlowOK' /\ CountersOK' /\ StoreOK'
  BY DEF TypeOK, FlowOK, CountersOK, StoreOK, Images
<1>. QED  BY <1>1, <1>2, <1>3

----------------------------------------------------------------------------
(* Every step keeps the order.                                             *)

LEMMA OpNames ==
    /\ {"getMeta", "loadChunks", "putMeta", "putChunks", "deleteDisk"} \subseteq Ops
    /\ {"boot", "import", "wipe"} \subseteq Flows
    /\ {"boot", "import", "wipe", "timer", "message"} \subseteq Flows \union {"timer", "message"}
  BY DEF Ops, Writes, Flows

LEMMA OrderStep ==
    ASSUME OrderInv, Next
    PROVE  OrderInv'
<1>0. /\ TypeOK' /\ image \in Images /\ Newest(image) /\ clock \in Nat
      /\ \A c \in Chunks : image.chunks[c] <= clock
  BY TypeStep, Typed DEF OrderInv, Counted
<1>1. ASSUME NEW i \in Waits, Commit(i) \/ Fail(i)
      PROVE  OrderInv'
  BY <1>0, <1>1, CommitOrder, FailOrder
<1>2. CASE \/ Upgraded \/ ChunksPut \/ BootFails \/ Start
           \/ Imported \/ ImportNotStored \/ UserReset \/ Wiped
  <2>1. UNCHANGED <<image, disk, txs, answer, clock>>
    BY <1>2 DEF Upgraded, ChunksPut, BootFails, Start, Imported, ImportNotStored, UserReset, Wiped
  <2>. QED  BY <1>0, <2>1, HandlerStep
<1>3. CASE OpenPage \/ GotMeta
  <2>1. /\ UNCHANGED <<image, disk, answer, clock>>
        /\ \/ txs' = txs \/ txs' = Append(txs, Tx("getMeta", "boot", NoData))
           \/ txs' = Append(txs, Tx("loadChunks", "boot", NoData))
    BY <1>3 DEF OpenPage, GotMeta, Await
  <2>. QED  BY <1>0, <2>1, OpNames, HandlerStep
<1>4. CASE Wipe
  <2>1. /\ UNCHANGED <<disk, answer, clock>>
        /\ image'.chunks = image.chunks /\ image'.dirty = image.dirty
        /\ txs' = Append(txs, Tx("deleteDisk", "wipe", NoData))
    BY <1>0, <1>4 DEF Wipe, Await, Images
  <2>. QED  BY <1>0, <2>1, OpNames, HandlerStep
<1>5. CASE Loaded
  <2> DEFINE img == [chunks |-> answer.chunks, dirty |-> {}, attached |-> TRUE]
             new == Written(img, Sys)
  <2>1. img \in Images /\ img.dirty = {} /\ img.chunks = answer.chunks
    BY DEF Images, OrderInv, TypeOK
  <2>2. Newest(img) /\ \A c \in Chunks : img.chunks[c] <= clock
    BY <2>1 DEF Newest, OrderInv, Counted
  <2>3. /\ UNCHANGED <<disk, answer>>
        /\ \/ image' = img /\ UNCHANGED <<txs, clock>>
           \/ /\ clock < MaxWrites /\ clock' = clock + 1 /\ image' = TakeDirty(new)
              /\ txs' = Append(txs, Tx("putChunks", "boot", DirtyData(new)))
    BY <1>5 DEF Loaded, Await
  <2> HIDE DEF img
  <2>4. CASE image' = img /\ UNCHANGED <<txs, clock>>
    BY <1>0, <2>1, <2>2, <2>3, <2>4, HandlerStep
  <2>5. CASE /\ clock < MaxWrites /\ clock' = clock + 1 /\ image' = TakeDirty(new)
             /\ txs' = Append(txs, Tx("putChunks", "boot", DirtyData(new)))
    <3>1. new \in Images /\ Newest(new) /\ \A c \in Chunks : new.chunks[c] <= clock + 1
      BY <2>1, <2>2, <2>5, SysAssumption, WrittenIsNewest
    <3> HIDE DEF new
    <3>2. image'.chunks = new.chunks /\ image'.dirty = {}
      BY <2>5, <3>1, TakenImage
    <3>. QED  BY <1>0, <2>3, <2>5, <3>1, <3>2, OpNames, HandlerStep
  <2>. QED  BY <2>3, <2>4, <2>5
<1>6. CASE Build
  <2> DEFINE new == Written(NoImage, Sys)
             img == [new EXCEPT !.attached = TRUE]
  <2>1. NoImage \in Images /\ NoImage.dirty = {} /\ \A c \in Chunks : NoImage.chunks[c] = 0
    BY BlankTypes DEF Blank
  <2>2. Newest(NoImage) /\ \A c \in Chunks : NoImage.chunks[c] <= clock
    BY <2>1, <1>0 DEF Newest
  <2>3. /\ UNCHANGED <<disk, answer>> /\ clock < MaxWrites /\ clock' = clock + 1 /\ image' = img
        /\ txs' = Append(txs, Tx("putMeta", "boot", NoData))
    BY <1>6 DEF Build, Await
  <2>4. new \in Images /\ Newest(new) /\ \A c \in Chunks : new.chunks[c] <= clock + 1
    BY <2>1, <2>2, <2>3, SysAssumption, WrittenIsNewest
  <2> HIDE DEF new
  <2>5. img.chunks = new.chunks /\ img.dirty = new.dirty
    BY <2>4 DEF Images
  <2>6. image'.chunks = new.chunks /\ image'.dirty = new.dirty
    BY <2>3, <2>5
  <2> HIDE DEF img
  <2>. QED  BY <1>0, <2>3, <2>4, <2>6, OpNames, HandlerStep
<1>7. CASE MetaPut
  <2>1. /\ UNCHANGED <<disk, answer, clock>> /\ image' = TakeDirty(image)
        /\ txs' = Append(txs, Tx("putChunks", "boot", DirtyData(image)))
    BY <1>7 DEF MetaPut, Await
  <2>. QED  BY <1>0, <2>1, OpNames, TakenImage, HandlerStep
<1>8. ASSUME NEW c \in Chunks, GuestWrite(c) \/ Import(c) \/ ImportThrows(c)
      PROVE  OrderInv'
  <2> DEFINE new == Written(image, c)
  <2>1. clock < MaxWrites /\ clock' = clock + 1 /\ UNCHANGED <<disk, answer>>
    BY <1>8 DEF GuestWrite, Import, ImportThrows
  <2>2. new \in Images /\ Newest(new) /\ \A d \in Chunks : new.chunks[d] <= clock + 1
    BY <1>0, <2>1, WrittenIsNewest
  <2>3. (image' = new /\ txs' = txs) \/ FlushOf(new, "import")
    BY <1>8 DEF GuestWrite, Import, ImportThrows
  <2> HIDE DEF new
  <2>4. /\ image'.chunks = new.chunks
        /\ \/ image' = new /\ txs' = txs
           \/ /\ image'.dirty = {}
              /\ txs' = Append(txs, Tx("putChunks", "import", DirtyData(new)))
    BY <2>2, <2>3, OpNames, FlushEffect
  <2>. QED  BY <1>0, <2>1, <2>2, <2>4, OpNames, HandlerStep
<1>9. CASE TimerFlush \/ FlushMessage
  <2>1. PICK by \in {"timer", "message"} : FlushOf(image, by)
    BY <1>9 DEF TimerFlush, FlushMessage
  <2>2. UNCHANGED <<disk, answer, clock>>
    BY <1>9 DEF TimerFlush, FlushMessage
  <2>3. /\ image'.chunks = image.chunks
        /\ \/ image' = image /\ txs' = txs
           \/ /\ image'.dirty = {}
              /\ txs' = Append(txs, Tx("putChunks", by, DirtyData(image)))
    BY <1>0, <2>1, OpNames, FlushEffect
  <2>. QED  BY <1>0, <2>2, <2>3, OpNames, HandlerStep
<1>10. CASE ClosePage
  <2>1. /\ image' = NoImage /\ txs' = << >> /\ answer' = EmptyDisk /\ UNCHANGED <<disk, clock>>
    BY <1>10 DEF ClosePage
  <2>2. Waits' = {}
    BY <2>1 DEF Waits
  <2>3. TxsOK' /\ Carried' /\ Ascending'
    BY <2>1, <2>2 DEF TxsOK, Carried, Ascending
  <2>4. Counted' /\ Newest(image)'
    BY <1>0, <2>1, BlankTypes DEF Counted, Newest, OrderInv, EmptyDisk, Blank
  <2>. QED  BY <1>0, <2>3, <2>4 DEF OrderInv
<1>. QED  BY <1>1, <1>2, <1>3, <1>4, <1>5, <1>6, <1>7, <1>8, <1>9, <1>10
          DEF Next, Boot, Database, Waits

LEMMA OrderStart == Init => OrderInv
<1> SUFFICES ASSUME Init PROVE OrderInv
  OBVIOUS
<1>1. /\ image = NoImage /\ disk = EmptyDisk /\ txs = << >> /\ answer = EmptyDisk /\ clock = 0
      /\ opens = 0 /\ wipedAt = 0 /\ lost = {} /\ failures = 0
      /\ flow = NoFlow /\ settled = Waiting /\ machine = Stopped
  BY DEF Init
<1>2. TypeOK
  <2>1. FlowOK
    BY <1>1 DEF FlowOK, NoFlow, Waiting, Stopped, BootSteps
  <2>2. CountersOK
    BY <1>1, BoundsAssumption DEF CountersOK
  <2>3. StoreOK
    BY <1>1, BlankTypes DEF StoreOK
  <2>. QED  BY <2>1, <2>2, <2>3, TypeParts
<1>3. Waits = {}
  BY <1>1 DEF Waits
<1>4. TxsOK /\ Carried /\ Ascending
  BY <1>1, <1>3 DEF TxsOK, Carried, Ascending
<1>5. Counted /\ Newest(image)
  BY <1>1, BlankTypes DEF Counted, Newest, EmptyDisk, Blank
<1>. QED  BY <1>2, <1>4, <1>5 DEF OrderInv

LEMMA OrderStutter == OrderInv /\ UNCHANGED vars => OrderInv'
  BY TypeStep DEF OrderInv, vars, TxsOK, Counted, Carried, Ascending, Newest, Waits

\* On its way from the image through the waiting transactions to the database a chunk
\* only gets newer, whatever handlers overlap and whichever transactions fail.
THEOREM Order == Spec => []OrderInv
<1>1. OrderInv /\ [Next]_vars => OrderInv'
  BY OrderStep, OrderStutter
<1>. QED  BY OrderStart, <1>1, PTL DEF Spec

\* What DOS has written never goes back to something older in the database, except when
\* the user wipes the drive: takeDirty's chunks are stored in the order they were taken.
THEOREM NeverRegresses == Spec => StoreNeverRegresses
<1>1. ASSUME OrderInv, [Next]_vars, NEW c \in Chunks, disk'.chunks[c] < disk.chunks[c]
      PROVE  disk' = EmptyDisk
  <2>1. \A i \in Waits : \A d \in DOMAIN txs[i].data :
            disk.chunks[d] <= txs[i].data[d] /\ disk.chunks[d] \in Nat /\ txs[i].data[d] \in Nat
    BY <1>1, Typed DEF OrderInv, Ascending
  <2>2. disk.chunks[c] \in Nat
    BY <1>1, Typed DEF OrderInv
  <2>3. ASSUME NEW i \in Waits, Commit(i)
        PROVE  disk' = EmptyDisk
    <3>1. disk' = Applied(txs[i]) /\ txs[i] \in Transactions
      BY <1>1, <2>3, Typed DEF Commit, OrderInv
    <3>2. disk = [meta |-> disk.meta, chunks |-> disk.chunks] /\ DOMAIN disk.chunks = Chunks
      BY <1>1 DEF OrderInv, TypeOK, Contents
    <3>3. CASE txs[i].op = "putMeta"
      <4>1. disk'.chunks[c] = disk.chunks[c]
        BY <3>1, <3>2, <3>3 DEF Applied
      <4>. QED  BY <4>1, <1>1, <2>2
    <3>4. CASE txs[i].op = "putChunks"
      <4>1. disk'.chunks[c] = IF c \in DOMAIN txs[i].data THEN txs[i].data[c] ELSE disk.chunks[c]
        BY <3>1, <3>2, <3>4 DEF Applied
      <4>. QED  BY <4>1, <1>1, <2>1, <2>2
    <3>5. CASE txs[i].op = "deleteDisk"
      BY <3>1, <3>5 DEF Applied
    <3>6. CASE txs[i].op \in {"getMeta", "loadChunks"}
      <4>1. disk' = disk
        BY <3>1, <3>6 DEF Applied
      <4>. QED  BY <4>1, <1>1, <2>2
    <3>. QED  BY <3>1, <3>3, <3>4, <3>5, <3>6 DEF Transactions, Ops, Writes
  <2>4. ASSUME ~ \E i \in Waits : Commit(i)
        PROVE  disk' = disk
    BY <2>4, <1>1
       DEF Next, Database, Boot, Waits, Fail, OpenPage, GotMeta, Loaded, Upgraded, Build, MetaPut,
           ChunksPut, BootFails, Start, GuestWrite, Import, ImportThrows, TimerFlush, FlushMessage,
           Imported, ImportNotStored, UserReset, Wipe, Wiped, ClosePage, vars
  <2>. QED  BY <1>1, <2>2, <2>3, <2>4
<1>2. OrderInv /\ [Next]_vars =>
          [\A c \in Chunks : disk'.chunks[c] < disk.chunks[c] => disk' = EmptyDisk]_vars
  BY <1>1
<1>. QED  BY <1>2, Order, PTL DEF Spec, StoreNeverRegresses

----------------------------------------------------------------------------
(* While the page lets nobody wipe or import before the machine has started. *)

\* The steps at which boot waits for the database, and for which transaction.
Asking == {"getMeta", "load", "upgrade", "putMeta", "putChunks"}
BootOp(b) == CASE b = "load" -> "loadChunks" [] b = "upgrade" -> "putChunks" [] OTHER -> b

\* Boot reads alone: until it has an image, nothing else is under way.
Reading ==
    /\ flow.boot \in {"closed", "getMeta", "load", "fetch"} => ~image.attached
    /\ flow.boot \in {"closed", "fetch"} => txs = << >>
    /\ flow.boot \in {"getMeta", "load"} =>
          \/ settled["boot"] = "ok" /\ txs = << >> /\ answer = disk
          \/ settled["boot"] = "pending" /\ txs = <<Tx(BootOp(flow.boot), "boot", NoData)>>
    /\ flow.boot \in {"upgrade", "putMeta", "putChunks", "mount"} => image.attached

\* Import, wipe and machine wait for boot to be done.
BootFirst ==
    flow.boot # "done" => flow.import = "idle" /\ flow.wipe = "idle" /\ machine = Stopped

\* Boot waits for one transaction of its own, the one of its step.
BootTx ==
    \A i \in Waits : txs[i].by = "boot" =>
        /\ settled["boot"] = "pending"
        /\ flow.boot \in Asking /\ txs[i].op = BootOp(flow.boot)
        /\ \A j \in Waits : txs[j].by = "boot" => j = i

\* Only a wipe deletes, an image is gone before that, and no write comes after it.
Quiet == \A i \in Waits : txs[i].op \notin Writes
WipeIsLast ==
    /\ \A i \in Waits : txs[i].by = "wipe" <=> txs[i].op = "deleteDisk"
    /\ \A i \in Waits : txs[i].op = "deleteDisk" =>
          /\ flow.wipe # "idle"
          /\ \A j \in Waits : i < j => txs[j].op \notin Writes
    /\ flow.wipe # "idle" => ~image.attached
    /\ flow.wipe = "acked" \/ (flow.wipe = "deleting" /\ settled["wipe"] = "ok")
          => disk = EmptyDisk /\ Quiet

\* The meta record is stored before anything but the system, and stays until a wipe.
OnlySystem ==
    \A c \in Chunks \ {Sys} :
        /\ disk.chunks[c] = 0 /\ \A i \in Waits : c \notin DOMAIN txs[i].data
        /\ image.attached => image.chunks[c] = 0 /\ c \notin image.dirty
MetaFirst ==
    /\ flow.boot \in {"load", "upgrade", "putChunks", "mount", "done"} /\ flow.wipe = "idle"
          => disk.meta
    /\ flow.boot = "putMeta" /\ settled["boot"] = "ok" => disk.meta
    /\ flow.boot = "fetch" => ~disk.meta
    /\ ~disk.meta => OnlySystem

\* Nothing is older than the last wipe.
Recent(v) == v = 0 \/ wipedAt < v
AllRecent ==
    /\ \A c \in Chunks : Recent(disk.chunks[c])
    /\ image.attached => \A c \in Chunks : Recent(image.chunks[c])
    /\ \A i \in Waits : \A c \in DOMAIN txs[i].data : Recent(txs[i].data[c])

\* CleanIsSaved without a choice: the newest that waits, if anything does, is v.
SavedAs(c, v) ==
    \/ disk.chunks[c] = v /\ \A i \in Waits : c \notin DOMAIN txs[i].data
    \/ \E i \in Waits : /\ c \in DOMAIN txs[i].data /\ txs[i].data[c] = v
                        /\ \A j \in Waits : i < j => c \notin DOMAIN txs[j].data
Clean ==
    image.attached =>
        \A c \in Chunks : c \notin image.dirty /\ c \notin lost => SavedAs(c, image.chunks[c])

IInv == /\ OrderInv /\ Reading /\ BootFirst /\ BootTx /\ WipeIsLast /\ MetaFirst
        /\ AllRecent /\ Clean

----------------------------------------------------------------------------
LEMMA FlowTypes ==
    ASSUME TypeOK, TxsOK
    PROVE  /\ flow \in [boot : BootSteps, import : {"idle", "flushing", "failed"},
                        wipe : {"idle", "deleting", "acked"}]
           /\ settled \in [Flows -> {"pending", "ok", "error"}]
           /\ "boot" \in Flows /\ "import" \in Flows /\ "wipe" \in Flows
           /\ image \in Images /\ Len(txs) \in Nat
  BY DEF TypeOK, TxsOK, Flows, Images

LEMMA BootFirstStep ==
    ASSUME TypeOK, TxsOK, BootFirst, Next, ~UserEarly
    PROVE  BootFirst'
<1> USE DEF BootFirst
<1>0. flow \in [boot : BootSteps, import : {"idle", "flushing", "failed"},
                wipe : {"idle", "deleting", "acked"}]
  BY FlowTypes
<1>1. CASE \/ Database \/ TimerFlush \/ FlushMessage
           \/ \E c \in Chunks : GuestWrite(c)
  BY <1>1 DEF Database, Commit, Fail, TimerFlush, FlushMessage, GuestWrite
<1>2. CASE Boot \/ OpenPage
  <2>1. CASE GotMeta \/ Loaded \/ Upgraded \/ Build \/ MetaPut \/ ChunksPut \/ BootFails \/ OpenPage
    BY <2>1, <1>0 DEF GotMeta, Loaded, Upgraded, Build, MetaPut, ChunksPut, BootFails, OpenPage, Open
  <2>2. CASE Start
    BY <2>2, <1>0 DEF Start
  <2>. QED  BY <1>2, <2>1, <2>2 DEF Boot
<1>3. ASSUME NEW c \in Chunks, Import(c) \/ ImportThrows(c)
      PROVE  BootFirst'
  BY <1>3, <1>0 DEF Import, ImportThrows
<1>4. CASE Imported \/ ImportNotStored \/ UserReset \/ Wipe \/ Wiped
  BY <1>4, <1>0 DEF Imported, ImportNotStored, UserReset, Wipe, Wiped
<1>5. CASE ClosePage
  BY <1>5 DEF ClosePage, NoFlow
<1>. QED  BY <1>1, <1>2, <1>3, <1>4, <1>5 DEF Next

LEMMA Alone ==
    ASSUME Reading, NEW i \in Waits, flow.boot \in {"getMeta", "load"}
    PROVE  /\ txs = <<Tx(BootOp(flow.boot), "boot", NoData)>> /\ i = 1
           /\ settled["boot"] = "pending"
           /\ txs[i].op = BootOp(flow.boot) /\ txs[i].by = "boot"
<1> DEFINE t == Tx(BootOp(flow.boot), "boot", NoData)
<1>1. t.op = BootOp(flow.boot) /\ t.by = "boot"
  BY DEF Tx
<1> HIDE DEF t
<1>2. txs # << >>
  BY DEF Waits
<1>3. txs = <<t>> /\ settled["boot"] = "pending"
  BY <1>2 DEF Reading, t
<1>4. Len(<<t>>) = 1 /\ <<t>>[1] = t
  OBVIOUS
<1>5. i = 1
  BY <1>3, <1>4 DEF Waits
<1>. QED  BY <1>1, <1>3, <1>4, <1>5 DEF t

LEMMA ReadingStep ==
    ASSUME TypeOK, TxsOK, BootFirst, Reading, Next, ~UserEarly
    PROVE  Reading'
<1> USE DEF Reading
<1>0. /\ flow \in [boot : BootSteps, import : {"idle", "flushing", "failed"},
                   wipe : {"idle", "deleting", "acked"}]
      /\ settled \in [Flows -> {"pending", "ok", "error"}] /\ "boot" \in Flows
      /\ image \in Images
  BY FlowTypes
<1>1. ASSUME NEW i \in Waits, Commit(i)
      PROVE  Reading'
  <2>1. flow' = flow /\ image' = image /\ txs' = RemoveAt(txs, i)
    BY <1>1 DEF Commit
  <2>2. CASE flow.boot \in {"getMeta", "load"}
    <3>1. txs = <<Tx(BootOp(flow.boot), "boot", NoData)>> /\ i = 1
      BY <2>2, Alone
    <3>2. txs[i].op \in {"getMeta", "loadChunks"} /\ txs[i].by = "boot"
      BY <2>2, Alone DEF BootOp
    <3>3. settled'["boot"] = "ok" /\ answer' = disk /\ disk' = disk
      BY <3>2, <1>0, <1>1 DEF Commit, Settle, Applied
    <3>4. txs' = << >>
      BY <3>1, <2>1 DEF RemoveAt
    <3>. QED  BY <2>1, <2>2, <3>3, <3>4
  <2>3. CASE flow.boot \notin {"getMeta", "load"}
    <3>1. flow.boot \notin {"closed", "fetch"}
      BY <1>1 DEF Waits
    <3>. QED  BY <2>1, <2>3, <3>1
  <2>. QED  BY <2>2, <2>3
<1>2. ASSUME NEW i \in Waits, Fail(i)
      PROVE  Reading'
  <2>1. flow' = flow /\ image' = image
    BY <1>2 DEF Fail
  <2>2. flow.boot \notin {"closed", "fetch"}
    BY <1>2 DEF Waits
  <2>3. flow.boot \notin {"getMeta", "load"}
    <3>1. SUFFICES ASSUME flow.boot \in {"getMeta", "load"} PROVE FALSE
      OBVIOUS
    <3>2. txs[i].op \in {"getMeta", "loadChunks"}
      BY <3>1, Alone DEF BootOp
    <3>. QED  BY <3>2, <1>2 DEF Fail
  <2>. QED  BY <2>1, <2>2, <2>3
<1>3. CASE OpenPage
  <2>1. flow.boot = "closed" /\ flow'.boot = "getMeta" /\ image' = image
    BY <1>0, <1>3 DEF OpenPage, Open
  <2>2. settled'["boot"] = "pending" /\ txs' = Append(txs, Tx("getMeta", "boot", NoData))
    BY <1>0, <1>3 DEF OpenPage, Await
  <2>. QED  BY <2>1, <2>2 DEF BootOp
<1>4. CASE GotMeta
  <2>1. flow.boot = "getMeta" /\ image' = image /\ answer' = answer /\ disk' = disk
    BY <1>4 DEF GotMeta
  <2>2. txs = << >> /\ answer = disk
    BY <1>4 DEF GotMeta, Resumes
  <2>3. \/ /\ flow'.boot = "load" /\ settled'["boot"] = "pending"
           /\ txs' = Append(txs, Tx("loadChunks", "boot", NoData))
        \/ flow'.boot = "fetch" /\ txs' = txs
    BY <1>0, <1>4 DEF GotMeta, Await
  <2>. QED  BY <2>1, <2>2, <2>3 DEF BootOp
<1>5. CASE Loaded
  <2>1. flow'.boot \in {"mount", "upgrade"}
    BY <1>0, <1>5 DEF Loaded
  <2>2. image'.attached
    <3> DEFINE img == [chunks |-> answer.chunks, dirty |-> {}, attached |-> TRUE]
    <3>1. image' = img \/ (clock < MaxWrites /\ image' = TakeDirty(Written(img, Sys)))
      BY <1>5 DEF Loaded
    <3>2. img \in Images /\ img.attached /\ clock \in Nat
      BY Typed DEF Images, TypeOK
    <3> HIDE DEF img
    <3>3. clock < MaxWrites => TakeDirty(Written(img, Sys)).attached = img.attached
      BY <3>2, SysAssumption, WrittenImage, TakenImage
    <3>. QED  BY <3>1, <3>2, <3>3
  <2>. QED  BY <2>1, <2>2
<1>6. CASE Build
  <2>1. flow'.boot = "putMeta"
    BY <1>0, <1>6 DEF Build
  <2>2. Written(NoImage, Sys) \in Images
    BY <1>6, BlankTypes, Typed, SysAssumption, WrittenImage DEF Build
  <2>3. image'.attached
    BY <1>6, <2>2 DEF Build, Images
  <2>. QED  BY <2>1, <2>3
<1>7. CASE Upgraded \/ MetaPut \/ ChunksPut \/ BootFails \/ Start
  <2>1. flow'.boot \in {"mount", "putChunks", "failed", "done"}
    BY <1>0, <1>7 DEF Upgraded, MetaPut, ChunksPut, BootFails, Start
  <2>2. image'.attached = image.attached
    BY <1>0, <1>7, TakenImage DEF Upgraded, MetaPut, ChunksPut, BootFails, Start
  <2>3. flow'.boot \in {"mount", "putChunks"} => flow.boot \in {"upgrade", "putMeta", "putChunks"}
    BY <1>0, <1>7 DEF Upgraded, MetaPut, ChunksPut, BootFails, Start
  <2>. QED  BY <2>1, <2>2, <2>3
<1>8. CASE \/ \E c \in Chunks : GuestWrite(c) \/ Import(c) \/ ImportThrows(c)
           \/ UserReset \/ Wipe
  <2>1. flow.boot = "done"
    BY <1>8 DEF GuestWrite, Import, ImportThrows, UserReset, Wipe, BootFirst, Stopped
  <2>2. flow'.boot = flow.boot
    BY <1>0, <1>8 DEF GuestWrite, Import, ImportThrows, UserReset, Wipe
  <2>. QED  BY <2>1, <2>2
<1>9. CASE Imported \/ ImportNotStored \/ Wiped
  <2>1. flow.boot = "done"
    BY <1>9 DEF Imported, ImportNotStored, Wiped, BootFirst
  <2>2. flow'.boot = flow.boot
    BY <1>0, <1>9 DEF Imported, ImportNotStored, Wiped
  <2>. QED  BY <2>1, <2>2
<1>10. CASE TimerFlush \/ FlushMessage
  <2>1. /\ image'.attached = image.attached
        /\ ~image.attached => txs' = txs
    BY <1>0, <1>10, TakenImage DEF TimerFlush, FlushMessage, FlushOf
  <2>2. UNCHANGED <<flow, settled, answer, disk>>
    BY <1>10 DEF TimerFlush, FlushMessage
  <2>. QED  BY <2>1, <2>2
<1>11. CASE ClosePage
  BY <1>11, BlankTypes DEF ClosePage, NoFlow
<1>. QED  BY <1>1, <1>2, <1>3, <1>4, <1>5, <1>6, <1>7, <1>8, <1>9, <1>10, <1>11
          DEF Next, Boot, Database, Waits

LEMMA AddedTx ==
    ASSUME TxsOK, NEW op \in Ops, NEW by \in Flows \union {"timer", "message"},
           NEW data \in ChunkData, txs' = Append(txs, Tx(op, by, data))
    PROVE  /\ \A i \in Waits : i \in Waits' /\ i < Len(txs) + 1 /\ txs'[i] = txs[i]
           /\ Len(txs) + 1 \in Waits' /\ Len(txs) + 1 \notin Waits
           /\ txs'[Len(txs) + 1].op = op /\ txs'[Len(txs) + 1].by = by
           /\ txs'[Len(txs) + 1].data = data
           /\ \A i \in Waits' : i \in Waits \/ i = Len(txs) + 1
<1> DEFINE t == Tx(op, by, data)
<1>1. t \in Transactions /\ t.op = op /\ t.by = by /\ t.data = data
  BY TxType
<1>2. txs' = Append(txs, t)
  OBVIOUS
<1> HIDE DEF t
<1>3. Len(txs) + 1 \notin Waits
  BY DEF Waits, TxsOK
<1>. QED  BY <1>1, <1>2, <1>3, Added

\* A handler that did not wait adds a transaction by somebody, and boot's step stays.
LEMMA OthersKeepBootTx ==
    ASSUME TxsOK, BootTx, NEW op \in Ops, NEW by \in {"import", "wipe", "timer", "message"},
           NEW data \in ChunkData, txs' = Append(txs, Tx(op, by, data)),
           settled'["boot"] = settled["boot"], flow'.boot = flow.boot
    PROVE  BootTx'
<1>1. /\ \A i \in Waits : i \in Waits' /\ txs'[i] = txs[i]
      /\ txs'[Len(txs) + 1].by # "boot"
      /\ \A i \in Waits' : i \in Waits \/ i = Len(txs) + 1
  BY AddedTx, OpNames
<1>. QED  BY <1>1 DEF BootTx

LEMMA BootAdds ==
    ASSUME TxsOK, NEW op \in Ops, NEW data \in ChunkData,
           \A i \in Waits : txs[i].by # "boot",
           txs' = Append(txs, Tx(op, "boot", data)), settled'["boot"] = "pending",
           flow'.boot \in Asking, op = BootOp(flow'.boot)
    PROVE  BootTx'
<1>1. /\ \A i \in Waits : i \in Waits' /\ txs'[i] = txs[i]
      /\ txs'[Len(txs) + 1].op = op
      /\ \A i \in Waits' : i \in Waits \/ i = Len(txs) + 1
  BY AddedTx, OpNames
<1>. QED  BY <1>1 DEF BootTx

LEMMA BootTxStep ==
    ASSUME TypeOK, TxsOK, BootTx, Next
    PROVE  BootTx'
<1>0. /\ flow \in [boot : BootSteps, import : {"idle", "flushing", "failed"},
                   wipe : {"idle", "deleting", "acked"}]
      /\ settled \in [Flows -> {"pending", "ok", "error"}]
      /\ "boot" \in Flows /\ "import" \in Flows /\ "wipe" \in Flows
      /\ image \in Images /\ clock \in Nat
  BY FlowTypes, Typed
<1>1. ASSUME NEW i \in Waits, Commit(i) \/ Fail(i)
      PROVE  BootTx'
  <2>1. /\ flow' = flow /\ txs' = RemoveAt(txs, i)
        /\ \/ settled' = settled
           \/ \E o \in {"ok", "error"} : Settle(txs[i], o)
    BY <1>1 DEF Commit, Fail
  <2>2. txs[i].by = "boot" \/ settled'["boot"] = settled["boot"]
    BY <1>0, <2>1 DEF Settle
  <2>3. /\ \A j \in Waits' : Kept(j, i) \in Waits \ {i} /\ txs'[j] = txs[Kept(j, i)]
        /\ \A j, k \in Waits' : Kept(j, i) = Kept(k, i) => j = k
    <3>1. /\ \A j \in Waits' : Kept(j, i) \in Waits \ {i} /\ txs'[j] = txs[Kept(j, i)]
          /\ \A j, k \in Waits' : j < k => Kept(j, i) < Kept(k, i)
      BY <2>1, Removed
    <3>2. i \in Int /\ \A j \in Waits' : j \in Int
      BY DEF Waits
    <3>. QED  BY <3>1, <3>2 DEF Kept
  <2>4. CASE txs[i].by = "boot"
    <3>1. \A j \in Waits' : txs'[j].by # "boot"
      BY <2>3, <2>4 DEF BootTx
    <3>. QED  BY <3>1 DEF BootTx
  <2>5. CASE txs[i].by # "boot"
    BY <2>1, <2>2, <2>3, <2>5 DEF BootTx
  <2>. QED  BY <2>4, <2>5
<1>2. ASSUME settled["boot"] # "pending" \/ flow.boot \notin Asking
      PROVE  \A i \in Waits : txs[i].by # "boot"
  BY <1>2 DEF BootTx
<1>3. CASE OpenPage
  <2>1. flow.boot = "closed" /\ flow'.boot = "getMeta" /\ settled'["boot"] = "pending"
    BY <1>0, <1>3 DEF OpenPage, Open, Await
  <2>2. txs' = Append(txs, Tx("getMeta", "boot", NoData))
    BY <1>3 DEF OpenPage, Await
  <2>3. flow.boot \notin Asking /\ flow'.boot \in Asking /\ "getMeta" = BootOp(flow'.boot)
    BY <2>1 DEF Asking, BootOp
  <2>. QED  BY <1>2, <2>1, <2>2, <2>3, OpNames, NoDataType, BootAdds
<1>4. CASE GotMeta
  <2>1. settled["boot"] = "ok"
    BY <1>4 DEF GotMeta, Resumes
  <2>2. CASE answer.meta
    <3>1. /\ flow'.boot = "load" /\ settled'["boot"] = "pending"
          /\ txs' = Append(txs, Tx("loadChunks", "boot", NoData))
      BY <1>0, <1>4, <2>2 DEF GotMeta, Await
    <3>2. flow'.boot \in Asking /\ "loadChunks" = BootOp(flow'.boot)
      BY <3>1 DEF Asking, BootOp
    <3>. QED  BY <1>2, <2>1, <3>1, <3>2, OpNames, NoDataType, BootAdds
  <2>3. CASE ~answer.meta
    BY <1>2, <1>4, <2>1, <2>3 DEF GotMeta, BootTx, Waits
  <2>. QED  BY <2>2, <2>3
<1>5. CASE Loaded
  <2> DEFINE img == [chunks |-> answer.chunks, dirty |-> {}, attached |-> TRUE]
             new == Written(img, Sys)
  <2>1. settled["boot"] = "ok"
    BY <1>5 DEF Loaded, Resumes
  <2>2. \/ txs' = txs
        \/ /\ clock < MaxWrites /\ flow'.boot = "upgrade" /\ settled'["boot"] = "pending"
           /\ txs' = Append(txs, Tx("putChunks", "boot", DirtyData(new)))
    BY <1>0, <1>5 DEF Loaded, Await
  <2>3. CASE txs' = txs
    BY <1>2, <2>1, <2>3 DEF BootTx, Waits
  <2>4. CASE /\ clock < MaxWrites /\ flow'.boot = "upgrade" /\ settled'["boot"] = "pending"
             /\ txs' = Append(txs, Tx("putChunks", "boot", DirtyData(new)))
    <3>1. img \in Images
      BY DEF Images, TypeOK
    <3>2. DirtyData(new) \in ChunkData
      BY <1>0, <2>4, <3>1, SysAssumption, WrittenImage, DirtyDataType
    <3>3. flow'.boot \in Asking /\ "putChunks" = BootOp(flow'.boot)
      BY <2>4 DEF Asking, BootOp
    <3> HIDE DEF new
    <3>. QED  BY <1>2, <2>1, <2>4, <3>2, <3>3, OpNames, BootAdds
  <2>. QED  BY <2>2, <2>3, <2>4
<1>6. CASE Build
  <2>1. /\ flow.boot = "fetch" /\ flow'.boot = "putMeta" /\ settled'["boot"] = "pending"
        /\ txs' = Append(txs, Tx("putMeta", "boot", NoData))
    BY <1>0, <1>6 DEF Build, Await
  <2>2. flow.boot \notin Asking /\ flow'.boot \in Asking /\ "putMeta" = BootOp(flow'.boot)
    BY <2>1 DEF Asking, BootOp
  <2>. QED  BY <1>2, <2>1, <2>2, OpNames, NoDataType, BootAdds
<1>7. CASE MetaPut
  <2>1. /\ settled["boot"] = "ok" /\ flow'.boot = "putChunks" /\ settled'["boot"] = "pending"
        /\ txs' = Append(txs, Tx("putChunks", "boot", DirtyData(image)))
    BY <1>0, <1>7 DEF MetaPut, Await, Resumes
  <2>2. flow'.boot \in Asking /\ "putChunks" = BootOp(flow'.boot)
    BY <2>1 DEF Asking, BootOp
  <2>. QED  BY <1>0, <1>2, <2>1, <2>2, OpNames, DirtyDataType, BootAdds
<1>8. CASE Upgraded \/ ChunksPut \/ BootFails \/ Start
  <2>1. settled["boot"] # "pending" \/ flow.boot \notin Asking
    BY <1>8 DEF Upgraded, ChunksPut, BootFails, Start, Resumes, Asking
  <2>2. txs' = txs
    BY <1>8 DEF Upgraded, ChunksPut, BootFails, Start
  <2>. QED  BY <1>2, <2>1, <2>2 DEF BootTx, Waits
<1>9. CASE \/ \E c \in Chunks : GuestWrite(c) \/ ImportThrows(c)
           \/ Imported \/ ImportNotStored \/ UserReset \/ Wiped
  <2>1. txs' = txs /\ settled' = settled /\ flow'.boot = flow.boot
    BY <1>0, <1>9 DEF GuestWrite, ImportThrows, Imported, ImportNotStored, UserReset, Wiped
  <2>. QED  BY <2>1 DEF BootTx, Waits
<1>10. ASSUME NEW by \in {"import", "timer", "message"}, NEW img \in Images, FlushOf(img, by),
              settled'["boot"] = settled["boot"], flow'.boot = flow.boot
       PROVE  BootTx'
  <2>1. txs' = txs \/ txs' = Append(txs, Tx("putChunks", by, DirtyData(img)))
    BY <1>10 DEF FlushOf
  <2>2. CASE txs' = txs
    BY <1>10, <2>2 DEF BootTx, Waits
  <2>3. CASE txs' = Append(txs, Tx("putChunks", by, DirtyData(img)))
    BY <1>10, <2>3, OpNames, DirtyDataType, OthersKeepBootTx
  <2>. QED  BY <2>1, <2>2, <2>3
<1>11. CASE TimerFlush \/ FlushMessage
  BY <1>0, <1>10, <1>11 DEF TimerFlush, FlushMessage
<1>12. ASSUME NEW c \in Chunks, Import(c)
       PROVE  BootTx'
  <2>1. Written(image, c) \in Images
    BY <1>0, <1>12, WrittenImage DEF Import
  <2>2. /\ FlushOf(Written(image, c), "import")
        /\ settled'["boot"] = settled["boot"] /\ flow'.boot = flow.boot
    BY <1>0, <1>12 DEF Import
  <2>. QED  BY <1>10, <2>1, <2>2
<1>13. CASE Wipe
  <2>1. /\ txs' = Append(txs, Tx("deleteDisk", "wipe", NoData))
        /\ settled'["boot"] = settled["boot"] /\ flow'.boot = flow.boot
    BY <1>0, <1>13 DEF Wipe, Await
  <2>. QED  BY <2>1, OpNames, NoDataType, OthersKeepBootTx
<1>14. CASE ClosePage
  BY <1>14 DEF ClosePage, BootTx, Waits
<1>. QED  BY <1>1, <1>3, <1>4, <1>5, <1>6, <1>7, <1>8, <1>9, <1>11, <1>12, <1>13, <1>14
          DEF Next, Boot, Database, Waits

\* While no wipe is under way a write may be added.
LEMMA OthersKeepWipe ==
    ASSUME TxsOK, WipeIsLast, flow.wipe = "idle", flow'.wipe = "idle",
           \/ txs' = txs
           \/ \E op \in Ops \ {"deleteDisk"} : \E by \in {"boot", "import", "timer", "message"} :
              \E data \in ChunkData : txs' = Append(txs, Tx(op, by, data))
    PROVE  WipeIsLast'
<1>1. CASE txs' = txs
  BY <1>1 DEF WipeIsLast, Waits
<1>2. ASSUME NEW op \in Ops \ {"deleteDisk"}, NEW by \in {"boot", "import", "timer", "message"},
             NEW data \in ChunkData, txs' = Append(txs, Tx(op, by, data))
      PROVE  WipeIsLast'
  <2>1. /\ \A i \in Waits : i \in Waits' /\ txs'[i] = txs[i]
        /\ txs'[Len(txs) + 1].op = op /\ txs'[Len(txs) + 1].by = by
        /\ \A i \in Waits' : i \in Waits \/ i = Len(txs) + 1
    BY <1>2, AddedTx, OpNames
  <2>2. \A i \in Waits' : txs'[i].op # "deleteDisk" /\ txs'[i].by # "wipe"
    BY <2>1 DEF WipeIsLast
  <2>. QED  BY <2>2 DEF WipeIsLast
<1>. QED  BY <1>1, <1>2

LEMMA WipeStep ==
    ASSUME TypeOK, TxsOK, BootFirst, WipeIsLast, Next
    PROVE  WipeIsLast'
<1>0. /\ flow \in [boot : BootSteps, import : {"idle", "flushing", "failed"},
                   wipe : {"idle", "deleting", "acked"}]
      /\ settled \in [Flows -> {"pending", "ok", "error"}]
      /\ "boot" \in Flows /\ "import" \in Flows /\ "wipe" \in Flows
      /\ image \in Images /\ clock \in Nat
  BY FlowTypes, Typed
<1>1. ASSUME NEW i \in Waits, Commit(i)
      PROVE  WipeIsLast'
  <2>1. /\ txs' = RemoveAt(txs, i) /\ flow' = flow /\ image' = image
        /\ disk' = Applied(txs[i]) /\ Settle(txs[i], "ok") /\ MayRun(i)
    BY <1>1 DEF Commit
  <2>2. /\ \A j \in Waits' : Kept(j, i) \in Waits \ {i} /\ txs'[j] = txs[Kept(j, i)]
        /\ \A j, k \in Waits' : j < k => Kept(j, i) < Kept(k, i)
    BY <2>1, Removed
  <2>3. ASSUME txs[i].by = "wipe"
        PROVE  disk' = EmptyDisk /\ Quiet'
    <3>1. txs[i].op = "deleteDisk"
      BY <2>3 DEF WipeIsLast
    <3>2. \A j \in Waits : j < i => FALSE
      <4>1. ASSUME NEW j \in Waits, j < i PROVE FALSE
        <5>1. txs[j].op \in Ops
          BY Typed DEF Transactions
        <5>2. Scope(txs[j]) \intersect Scope(txs[i]) # {}
          BY <3>1, <5>1 DEF Scope, Ops, Writes
        <5>. QED  BY <4>1, <5>2, <2>1 DEF MayRun, Waits
      <4>. QED  BY <4>1
    <3>3. \A j \in Waits \ {i} : i < j
      BY <3>2 DEF Waits
    <3>4. \A j \in Waits \ {i} : txs[j].op \notin Writes
      BY <3>1, <3>3 DEF WipeIsLast
    <3>. QED  BY <2>1, <2>2, <3>1, <3>4 DEF Applied, Quiet
  <2>4. ASSUME txs[i].by # "wipe", disk = EmptyDisk, Quiet
        PROVE  disk' = EmptyDisk /\ Quiet'
    <3>1. txs[i].op \notin Writes
      BY <2>4 DEF Quiet
    <3>2. disk' = EmptyDisk
      BY <2>1, <2>4, <3>1 DEF Applied, Writes
    <3>. QED  BY <2>2, <2>4, <3>2 DEF Quiet
  <2>5. txs[i].by # "wipe" => settled'["wipe"] = settled["wipe"]
    BY <1>0, <2>1 DEF Settle
  <2>6. flow.wipe = "acked" \/ (flow.wipe = "deleting" /\ settled'["wipe"] = "ok")
            => disk' = EmptyDisk /\ Quiet'
    BY <2>3, <2>4, <2>5 DEF WipeIsLast
  <2>7. /\ \A j \in Waits' : txs'[j].by = "wipe" <=> txs'[j].op = "deleteDisk"
        /\ \A j \in Waits' : txs'[j].op = "deleteDisk" =>
              flow.wipe # "idle" /\ \A k \in Waits' : j < k => txs'[k].op \notin Writes
    BY <2>2 DEF WipeIsLast
  <2>. QED  BY <2>1, <2>6, <2>7 DEF WipeIsLast
<1>2. ASSUME NEW i \in Waits, Fail(i)
      PROVE  WipeIsLast'
  <2>1. /\ txs' = RemoveAt(txs, i) /\ flow' = flow /\ image' = image /\ disk' = disk
        /\ settled' = settled \/ Settle(txs[i], "error")
    BY <1>2 DEF Fail
  <2>2. /\ \A j \in Waits' : Kept(j, i) \in Waits \ {i} /\ txs'[j] = txs[Kept(j, i)]
        /\ \A j, k \in Waits' : j < k => Kept(j, i) < Kept(k, i)
    BY <2>1, Removed
  <2>3. settled'["wipe"] = "ok" => settled["wipe"] = "ok"
    BY <1>0, <2>1 DEF Settle
  <2>4. Quiet => Quiet'
    BY <2>2 DEF Quiet
  <2>5. /\ \A j \in Waits' : txs'[j].by = "wipe" <=> txs'[j].op = "deleteDisk"
        /\ \A j \in Waits' : txs'[j].op = "deleteDisk" =>
              flow.wipe # "idle" /\ \A k \in Waits' : j < k => txs'[k].op \notin Writes
    BY <2>2 DEF WipeIsLast
  <2>. QED  BY <2>1, <2>3, <2>4, <2>5 DEF WipeIsLast
<1>3. CASE OpenPage \/ GotMeta \/ Loaded \/ Build \/ MetaPut
  <2>1. flow.wipe = "idle" /\ flow'.wipe = flow.wipe
    BY <1>0, <1>3 DEF OpenPage, GotMeta, Loaded, Build, MetaPut, Open, BootFirst
  <2>2. \/ txs' = txs
        \/ \E op \in Ops \ {"deleteDisk"} : \E data \in ChunkData :
              txs' = Append(txs, Tx(op, "boot", data))
    <3>1. CASE OpenPage \/ GotMeta \/ Build
      BY <3>1, OpNames, NoDataType DEF OpenPage, GotMeta, Build, Await
    <3>2. CASE MetaPut
      BY <3>2, <1>0, OpNames, DirtyDataType DEF MetaPut, Await
    <3>3. CASE Loaded
      <4> DEFINE img == [chunks |-> answer.chunks, dirty |-> {}, attached |-> TRUE]
                 new == Written(img, Sys)
      <4>1. \/ txs' = txs
            \/ clock < MaxWrites /\ txs' = Append(txs, Tx("putChunks", "boot", DirtyData(new)))
        BY <3>3 DEF Loaded, Await
      <4>2. img \in Images
        BY DEF Images, TypeOK
      <4>3. clock < MaxWrites => DirtyData(new) \in ChunkData
        BY <1>0, <4>2, SysAssumption, WrittenImage, DirtyDataType
      <4> HIDE DEF new
      <4>. QED  BY <4>1, <4>3, OpNames
    <3>. QED  BY <1>3, <3>1, <3>2, <3>3
  <2>. QED  BY <2>1, <2>2, OthersKeepWipe
<1>4. CASE \/ Upgraded \/ ChunksPut \/ BootFails \/ Start \/ Imported \/ ImportNotStored \/ UserReset
           \/ \E c \in Chunks : GuestWrite(c) \/ ImportThrows(c)
  <2>1. /\ UNCHANGED <<txs, settled, disk>> /\ flow'.wipe = flow.wipe
    BY <1>0, <1>4 DEF Upgraded, ChunksPut, BootFails, Start, Imported, ImportNotStored, UserReset,
                      GuestWrite, ImportThrows
  <2>2. image'.attached = image.attached
    <3>1. \A c \in Chunks : clock < MaxWrites => Written(image, c).attached = image.attached
      BY <1>0, WrittenImage
    <3>. QED  BY <1>4, <3>1 DEF Upgraded, ChunksPut, BootFails, Start, Imported, ImportNotStored,
                                UserReset, GuestWrite, ImportThrows
  <2>. QED  BY <2>1, <2>2 DEF WipeIsLast, Quiet, Waits
<1>5. ASSUME NEW by \in {"import", "timer", "message"}, NEW img \in Images, FlushOf(img, by),
             img.attached = image.attached, disk' = disk,
             settled'["wipe"] = settled["wipe"], flow'.wipe = flow.wipe
      PROVE  WipeIsLast'
  <2>1. /\ image'.attached = img.attached
        /\ \/ txs' = txs
           \/ img.attached /\ txs' = Append(txs, Tx("putChunks", by, DirtyData(img)))
    BY <1>5, TakenImage DEF FlushOf
  <2>2. CASE txs' = txs
    BY <1>5, <2>1, <2>2 DEF WipeIsLast, Quiet, Waits
  <2>3. CASE img.attached /\ txs' = Append(txs, Tx("putChunks", by, DirtyData(img)))
    <3>1. flow.wipe = "idle"
      BY <1>0, <1>5, <2>3 DEF WipeIsLast
    <3>. QED  BY <1>5, <2>3, <3>1, OpNames, DirtyDataType, OthersKeepWipe
  <2>. QED  BY <2>1, <2>2, <2>3
<1>6. CASE TimerFlush \/ FlushMessage
  BY <1>0, <1>5, <1>6 DEF TimerFlush, FlushMessage
<1>7. ASSUME NEW c \in Chunks, Import(c)
      PROVE  WipeIsLast'
  <2>1. Written(image, c) \in Images /\ Written(image, c).attached = image.attached
    BY <1>0, <1>7, WrittenImage DEF Import
  <2>2. /\ FlushOf(Written(image, c), "import") /\ disk' = disk
        /\ settled'["wipe"] = settled["wipe"] /\ flow'.wipe = flow.wipe
    BY <1>0, <1>7 DEF Import
  <2>. QED  BY <1>5, <2>1, <2>2
<1>8. CASE Wipe
  <2>1. /\ flow.wipe = "idle" /\ flow'.wipe = "deleting" /\ settled'["wipe"] = "pending"
        /\ ~image'.attached
        /\ txs' = Append(txs, Tx("deleteDisk", "wipe", NoData))
    BY <1>0, <1>8 DEF Wipe, Await, Images
  <2>2. /\ \A i \in Waits : txs'[i] = txs[i]
        /\ txs'[Len(txs) + 1].op = "deleteDisk" /\ txs'[Len(txs) + 1].by = "wipe"
        /\ \A i \in Waits' : i \in Waits \/ i = Len(txs) + 1
    BY <2>1, AddedTx, OpNames, NoDataType
  <2>3. /\ \A i \in Waits' : txs'[i].by = "wipe" <=> txs'[i].op = "deleteDisk"
        /\ \A i \in Waits' : txs'[i].op = "deleteDisk" => i = Len(txs) + 1
    BY <2>1, <2>2 DEF WipeIsLast
  <2>4. \A i \in Waits' : ~(Len(txs) + 1 < i)
    BY <2>2 DEF Waits, TxsOK
  <2>. QED  BY <2>1, <2>3, <2>4 DEF WipeIsLast
<1>9. CASE Wiped
  <2>1. UNCHANGED <<txs, settled, disk, image>> /\ flow'.wipe = "acked"
        /\ flow.wipe = "deleting" /\ settled["wipe"] = "ok"
    BY <1>0, <1>9 DEF Wiped, Resumes
  <2>. QED  BY <2>1 DEF WipeIsLast, Quiet, Waits
<1>10. CASE ClosePage
  BY <1>10 DEF ClosePage, WipeIsLast, Waits, NoFlow
<1>. QED  BY <1>1, <1>2, <1>3, <1>4, <1>6, <1>7, <1>8, <1>9, <1>10
          DEF Next, Boot, Database, Waits

LEMMA AppliedMeta ==
    ASSUME TypeOK, NEW t \in Transactions
    PROVE  /\ t.op = "deleteDisk" => Applied(t) = EmptyDisk
           /\ Applied(t).meta = IF t.op = "putMeta" THEN TRUE
                                ELSE IF t.op = "deleteDisk" THEN FALSE ELSE disk.meta
           /\ t.op \notin {"deleteDisk", "putChunks"} => Applied(t).chunks = disk.chunks
           /\ t.op = "putChunks" => \A c \in Chunks : Applied(t).chunks[c] =
                                        IF c \in DOMAIN t.data THEN t.data[c] ELSE disk.chunks[c]
<1>1. disk = [meta |-> disk.meta, chunks |-> disk.chunks] /\ disk.chunks \in [Chunks -> 0..MaxWrites]
      /\ disk.meta \in BOOLEAN
  BY DEF TypeOK, Contents
<1>2. CASE t.op = "putMeta"
  BY <1>1, <1>2 DEF Applied
<1>3. CASE t.op = "putChunks"
  BY <1>1, <1>3 DEF Applied
<1>4. CASE t.op = "deleteDisk"
  BY <1>1, <1>4 DEF Applied, EmptyDisk
<1>5. CASE t.op \in {"getMeta", "loadChunks"}
  BY <1>1, <1>5 DEF Applied
<1>. QED  BY <1>2, <1>3, <1>4, <1>5 DEF Transactions, Ops, Writes

\* When a delete commits, nothing that waits carries a chunk.
LEMMA DeleteIsAlone ==
    ASSUME TypeOK, TxsOK, WipeIsLast, NEW i \in Waits, MayRun(i), txs[i].op = "deleteDisk"
    PROVE  \A j \in Waits \ {i} : txs[j].op \notin Writes
<1>1. ASSUME NEW j \in Waits, j < i
      PROVE  FALSE
  <2>1. txs[j].op \in Ops
    BY Typed DEF Transactions
  <2>2. Scope(txs[j]) \intersect Scope(txs[i]) # {}
    BY <2>1 DEF Scope, Ops, Writes
  <2>. QED  BY <1>1, <2>2 DEF MayRun, Waits
<1>2. \A j \in Waits \ {i} : i < j
  BY <1>1 DEF Waits
<1>. QED  BY <1>2 DEF WipeIsLast

\* Steps that store nothing: an image as sparse as before, and no chunks added.
LEMMA KeepOnlySystem ==
    ASSUME TxsOK, OnlySystem, disk' = disk,
           \/ image' = image
           \/ /\ ~image'.attached
           \/ /\ \A c \in Chunks \ {Sys} : image'.chunks[c] = 0 /\ c \notin image'.dirty,
           \/ txs' = txs
           \/ \E op \in Ops : \E by \in Flows \union {"timer", "message"} : \E data \in ChunkData :
                 /\ \A c \in Chunks \ {Sys} : c \notin DOMAIN data
                 /\ txs' = Append(txs, Tx(op, by, data))
    PROVE  OnlySystem'
<1>1. ASSUME NEW c \in Chunks \ {Sys}, NEW i \in Waits'
      PROVE  c \notin DOMAIN txs'[i].data
  <2>1. CASE txs' = txs
    BY <2>1 DEF OnlySystem, Waits
  <2>2. ASSUME NEW op \in Ops, NEW by \in Flows \union {"timer", "message"}, NEW data \in ChunkData,
               c \notin DOMAIN data, txs' = Append(txs, Tx(op, by, data))
        PROVE  c \notin DOMAIN txs'[i].data
    <3>1. /\ \A j \in Waits : txs'[j] = txs[j]
          /\ txs'[Len(txs) + 1].data = data
          /\ i \in Waits \/ i = Len(txs) + 1
      BY <2>2, AddedTx
    <3>. QED  BY <2>2, <3>1 DEF OnlySystem
  <2>. QED  BY <2>1, <2>2
<1>2. \A c \in Chunks \ {Sys} :
          /\ disk'.chunks[c] = 0
          /\ image'.attached => image'.chunks[c] = 0 /\ c \notin image'.dirty
  BY DEF OnlySystem
<1>. QED  BY <1>1, <1>2 DEF OnlySystem

LEMMA MetaStep ==
    ASSUME TypeOK, TxsOK, Reading, BootFirst, BootTx, WipeIsLast, MetaFirst, Next, ~UserEarly
    PROVE  MetaFirst'
<1>0. /\ flow \in [boot : BootSteps, import : {"idle", "flushing", "failed"},
                   wipe : {"idle", "deleting", "acked"}]
      /\ settled \in [Flows -> {"pending", "ok", "error"}]
      /\ "boot" \in Flows /\ "import" \in Flows /\ "wipe" \in Flows
      /\ image \in Images /\ clock \in Nat /\ disk.meta \in BOOLEAN
  BY FlowTypes, Typed DEF TypeOK
<1>1. ASSUME NEW i \in Waits, Commit(i)
      PROVE  MetaFirst'
  <2>1. /\ txs' = RemoveAt(txs, i) /\ flow' = flow /\ image' = image
        /\ disk' = Applied(txs[i]) /\ Settle(txs[i], "ok") /\ MayRun(i) /\ txs[i] \in Transactions
    BY <1>1, Typed DEF Commit
  <2>2. \A j \in Waits' : Kept(j, i) \in Waits \ {i} /\ txs'[j] = txs[Kept(j, i)]
    BY <2>1, Removed
  <2>3. /\ flow.boot # "fetch"
        /\ txs[i].op = "deleteDisk" => flow.wipe # "idle" /\ ~image.attached
    BY DEF Reading, Waits, WipeIsLast
  <2>4. CASE txs[i].op = "deleteDisk"
    <3>1. flow.wipe # "idle" /\ flow.boot = "done" /\ ~image.attached
      BY <2>3, <2>4 DEF BootFirst
    <3>2. \A j \in Waits' : DOMAIN txs'[j].data = {}
      <4>1. \A j \in Waits \ {i} : txs[j].op \notin Writes
        BY <2>1, <2>4, DeleteIsAlone
      <4>2. \A j \in Waits \ {i} : DOMAIN txs[j].data = {}
        BY <4>1 DEF TxsOK, Writes
      <4>. QED  BY <2>2, <4>2
    <3>3. \A c \in Chunks : disk'.chunks[c] = 0
      <4>1. disk' = EmptyDisk
        BY <2>1, <2>4, AppliedMeta
      <4>. QED  BY <4>1 DEF EmptyDisk, Blank
    <3>4. OnlySystem'
      BY <2>1, <3>1, <3>2, <3>3 DEF OnlySystem
    <3>. QED  BY <2>1, <3>1, <3>4 DEF MetaFirst
  <2>5. CASE txs[i].op # "deleteDisk"
    <3>1. disk'.meta = (disk.meta \/ txs[i].op = "putMeta")
      BY <1>0, <2>1, <2>5, AppliedMeta
    <3>2. ~disk'.meta => OnlySystem'
      <4>1. SUFFICES ASSUME ~disk'.meta PROVE OnlySystem'
        OBVIOUS
      <4>2. OnlySystem
        BY <3>1, <4>1 DEF MetaFirst
      <4>3. \A c \in Chunks \ {Sys} : disk'.chunks[c] = 0
        <5>1. txs[i].op \in Ops
          BY <2>1 DEF Transactions
        <5>. QED  BY <2>1, <2>5, <4>2, <5>1, AppliedMeta DEF OnlySystem, Ops, Writes
      <4>. QED  BY <2>1, <2>2, <4>2, <4>3 DEF OnlySystem
    <3>3. flow.boot = "putMeta" /\ settled'["boot"] = "ok" => disk'.meta
      <4>1. CASE txs[i].by = "boot"
        BY <3>1, <4>1 DEF BootTx, BootOp
      <4>2. CASE txs[i].by # "boot"
        <5>1. settled'["boot"] = settled["boot"]
          BY <1>0, <2>1, <4>2 DEF Settle
        <5>. QED  BY <3>1, <5>1 DEF MetaFirst
      <4>. QED  BY <4>1, <4>2
    <3>. QED  BY <2>1, <2>3, <3>1, <3>2, <3>3 DEF MetaFirst
  <2>. QED  BY <2>4, <2>5
<1>2. ASSUME NEW i \in Waits, Fail(i)
      PROVE  MetaFirst'
  <2>1. /\ txs' = RemoveAt(txs, i) /\ flow' = flow /\ image' = image /\ disk' = disk
        /\ settled' = settled \/ Settle(txs[i], "error")
    BY <1>2 DEF Fail
  <2>2. \A j \in Waits' : Kept(j, i) \in Waits \ {i} /\ txs'[j] = txs[Kept(j, i)]
    BY <2>1, Removed
  <2>3. settled'["boot"] = "ok" => settled["boot"] = "ok"
    BY <1>0, <2>1 DEF Settle
  <2>4. OnlySystem => OnlySystem'
    BY <2>1, <2>2 DEF OnlySystem
  <2>. QED  BY <2>1, <2>3, <2>4 DEF MetaFirst
<1>3. CASE OpenPage \/ GotMeta
  <2>1. /\ disk' = disk /\ image' = image
        /\ \/ txs' = txs
           \/ \E op \in Ops : txs' = Append(txs, Tx(op, "boot", NoData))
    BY <1>3, OpNames DEF OpenPage, GotMeta, Await
  <2>2. OnlySystem => OnlySystem'
    BY <2>1, OpNames, NoDataType, KeepOnlySystem
  <2>3. \/ flow'.boot = "getMeta"
        \/ flow'.boot = "load" /\ disk.meta
        \/ flow'.boot = "fetch" /\ ~disk.meta
    BY <1>0, <1>3 DEF OpenPage, GotMeta, Resumes, Reading
  <2>. QED  BY <2>1, <2>2, <2>3 DEF MetaFirst
<1>4. CASE Loaded \/ MetaPut
  <2>1. disk.meta /\ disk' = disk
    BY <1>4 DEF Loaded, MetaPut, Resumes, MetaFirst, BootFirst
  <2>2. flow'.boot # "fetch"
    BY <1>0, <1>4 DEF Loaded, MetaPut
  <2>. QED  BY <2>1, <2>2 DEF MetaFirst
<1>5. CASE Build
  <2>1. /\ ~disk.meta /\ disk' = disk /\ flow'.boot = "putMeta" /\ settled'["boot"] = "pending"
        /\ txs' = Append(txs, Tx("putMeta", "boot", NoData))
        /\ image' = [Written(NoImage, Sys) EXCEPT !.attached = TRUE]
    BY <1>0, <1>5 DEF Build, Await, MetaFirst
  <2>2. /\ Written(NoImage, Sys) \in Images
        /\ Written(NoImage, Sys).chunks = [NoImage.chunks EXCEPT ![Sys] = clock + 1]
        /\ Written(NoImage, Sys).dirty = NoImage.dirty \union {Sys}
    BY <1>0, <1>5, BlankTypes, SysAssumption, WrittenImage DEF Build
  <2>3. \A c \in Chunks \ {Sys} : image'.chunks[c] = 0 /\ c \notin image'.dirty
    BY <2>1, <2>2, BlankTypes DEF Images, Blank
  <2>4. OnlySystem'
    BY <2>1, <2>3, OpNames, NoDataType, KeepOnlySystem DEF MetaFirst
  <2>. QED  BY <2>1, <2>4 DEF MetaFirst
<1>6. CASE Upgraded \/ ChunksPut \/ Start
  <2>1. disk.meta /\ disk' = disk
    BY <1>6 DEF Upgraded, ChunksPut, Start, MetaFirst, BootFirst
  <2>2. flow'.boot # "fetch"
    BY <1>0, <1>6 DEF Upgraded, ChunksPut, Start
  <2>. QED  BY <2>1, <2>2 DEF MetaFirst
<1>7. CASE BootFails
  <2>1. UNCHANGED <<disk, image, txs>> /\ flow'.boot = "failed"
    BY <1>0, <1>7 DEF BootFails
  <2>2. OnlySystem => OnlySystem'
    BY <2>1, KeepOnlySystem
  <2>. QED  BY <2>1, <2>2 DEF MetaFirst
<1>8. ASSUME NEW c \in Chunks, GuestWrite(c) \/ Import(c) \/ ImportThrows(c)
      PROVE  MetaFirst'
  <2>1. flow.boot = "done" /\ image.attached /\ flow.wipe = "idle"
    BY <1>0, <1>8 DEF GuestWrite, Import, ImportThrows, BootFirst, Stopped, WipeIsLast
  <2>2. disk.meta /\ disk' = disk /\ flow'.boot = flow.boot
    BY <1>0, <1>8, <2>1 DEF GuestWrite, Import, ImportThrows, MetaFirst
  <2>. QED  BY <2>1, <2>2 DEF MetaFirst
<1>9. CASE TimerFlush \/ FlushMessage
  <2>1. PICK by \in {"timer", "message"} : FlushOf(image, by)
    BY <1>9 DEF TimerFlush, FlushMessage
  <2>2. UNCHANGED <<disk, flow, settled>>
    BY <1>9 DEF TimerFlush, FlushMessage
  <2>3. OnlySystem => OnlySystem'
    <3>1. SUFFICES ASSUME OnlySystem PROVE OnlySystem'
      OBVIOUS
    <3>2. CASE image' = image /\ txs' = txs
      BY <2>2, <3>1, <3>2, KeepOnlySystem
    <3>3. CASE /\ image.attached /\ image' = TakeDirty(image)
               /\ txs' = Append(txs, Tx("putChunks", by, DirtyData(image)))
      <4> DEFINE d == DirtyData(image)
      <4>1. d \in ChunkData /\ \A c \in Chunks \ {Sys} : c \notin DOMAIN d
        BY <1>0, <3>1, <3>3, DirtyDataType DEF OnlySystem
      <4>2. \A c \in Chunks \ {Sys} : image'.chunks[c] = 0 /\ c \notin image'.dirty
        BY <1>0, <3>1, <3>3, TakenImage DEF OnlySystem
      <4> HIDE DEF d
      <4>. QED  BY <2>2, <3>1, <3>3, <4>1, <4>2, OpNames, KeepOnlySystem DEF d
    <3>. QED  BY <2>1, <3>2, <3>3 DEF FlushOf
  <2>. QED  BY <2>2, <2>3 DEF MetaFirst
<1>10. CASE Imported \/ ImportNotStored \/ UserReset \/ Wiped
  <2>1. /\ UNCHANGED <<disk, image, txs, settled>> /\ flow'.boot = flow.boot
        /\ flow'.wipe = "idle" => flow.wipe = "idle"
    BY <1>0, <1>10 DEF Imported, ImportNotStored, UserReset, Wiped
  <2>2. OnlySystem => OnlySystem'
    BY <2>1, KeepOnlySystem
  <2>. QED  BY <2>1, <2>2 DEF MetaFirst
<1>11. CASE Wipe
  <2>1. /\ flow.boot = "done" /\ flow'.boot = "done" /\ flow'.wipe = "deleting" /\ disk' = disk
        /\ ~image'.attached /\ txs' = Append(txs, Tx("deleteDisk", "wipe", NoData))
    BY <1>0, <1>11 DEF Wipe, Await, Images
  <2>2. OnlySystem => OnlySystem'
    BY <2>1, OpNames, NoDataType, KeepOnlySystem
  <2>. QED  BY <2>1, <2>2 DEF MetaFirst
<1>12. CASE ClosePage
  <2>1. disk' = disk /\ txs' = << >> /\ ~image'.attached /\ flow'.boot = "closed"
    BY <1>12, BlankTypes DEF ClosePage, NoFlow
  <2>2. OnlySystem => OnlySystem'
    BY <2>1 DEF OnlySystem, Waits
  <2>. QED  BY <2>1, <2>2 DEF MetaFirst
<1>. QED  BY <1>1, <1>2, <1>3, <1>4, <1>5, <1>6, <1>7, <1>8, <1>9, <1>10, <1>11, <1>12
          DEF Next, Boot, Database, Waits

\* A handler keeps or creates transactions of what is no older than the last wipe.
LEMMA HandlerRecent ==
    ASSUME TypeOK, TxsOK, AllRecent, disk' = disk, wipedAt' = wipedAt, NEW img \in Images,
           image'.attached => image'.chunks = img.chunks /\ \A c \in Chunks : Recent(img.chunks[c]),
           \/ txs' = txs
           \/ \E op \in Ops : \E by \in Flows \union {"timer", "message"} :
                 txs' = Append(txs, Tx(op, by, NoData))
           \/ /\ \A c \in Chunks : Recent(img.chunks[c])
              /\ \E by \in Flows \union {"timer", "message"} :
                    txs' = Append(txs, Tx("putChunks", by, DirtyData(img)))
    PROVE  AllRecent'
<1> USE DEF Recent
<1>1. /\ \A c \in Chunks : Recent(disk'.chunks[c])
      /\ image'.attached => \A c \in Chunks : Recent(image'.chunks[c])
  BY DEF AllRecent
<1>2. ASSUME NEW op \in Ops, NEW by \in Flows \union {"timer", "message"}, NEW data \in ChunkData,
             txs' = Append(txs, Tx(op, by, data)), \A c \in DOMAIN data : Recent(data[c])
      PROVE  \A i \in Waits' : \A c \in DOMAIN txs'[i].data : Recent(txs'[i].data[c])
  <2>1. /\ \A i \in Waits : txs'[i] = txs[i]
        /\ txs'[Len(txs) + 1].data = data
        /\ \A i \in Waits' : i \in Waits \/ i = Len(txs) + 1
    BY <1>2, AddedTx
  <2>. QED  BY <1>2, <2>1 DEF AllRecent
<1>3. CASE txs' = txs
  BY <1>1, <1>3 DEF AllRecent, Waits
<1>4. ASSUME NEW op \in Ops, NEW by \in Flows \union {"timer", "message"},
             txs' = Append(txs, Tx(op, by, NoData))
      PROVE  AllRecent'
  BY <1>1, <1>2, <1>4, NoDataType DEF AllRecent
<1>5. ASSUME NEW by \in Flows \union {"timer", "message"}, \A c \in Chunks : Recent(img.chunks[c]),
             txs' = Append(txs, Tx("putChunks", by, DirtyData(img)))
      PROVE  AllRecent'
  <2> DEFINE d == DirtyData(img)
  <2>1. /\ d \in ChunkData /\ DOMAIN d = img.dirty /\ \A c \in img.dirty : d[c] = img.chunks[c]
        /\ img.dirty \subseteq Chunks
    BY DirtyDataType DEF Images
  <2> HIDE DEF d
  <2>2. \A c \in DOMAIN d : Recent(d[c])
    BY <1>5, <2>1
  <2>3. txs' = Append(txs, Tx("putChunks", by, d))
    BY <1>5 DEF d
  <2>. QED  BY <1>1, <1>2, <2>1, <2>2, <2>3, OpNames DEF AllRecent
<1>. QED  BY <1>3, <1>4, <1>5

LEMMA WrittenIsRecent ==
    ASSUME TypeOK, TxsOK, NEW img \in Images, NEW c \in Chunks, clock < MaxWrites,
           \A d \in Chunks : Recent(img.chunks[d])
    PROVE  \A d \in Chunks : Recent(Written(img, c).chunks[d])
<1>1. clock \in Nat /\ wipedAt \in Nat /\ wipedAt <= clock
  BY BoundsAssumption DEF TypeOK
<1>2. Written(img, c).chunks = [img.chunks EXCEPT ![c] = clock + 1]
  BY <1>1, WrittenImage
<1>3. \A d \in Chunks : Written(img, c).chunks[d] = IF d = c THEN clock + 1 ELSE img.chunks[d]
  BY <1>2 DEF Images, Contents
<1>. QED  BY <1>1, <1>3 DEF Recent

LEMMA RecentStep ==
    ASSUME OrderInv, Reading, BootFirst, WipeIsLast, AllRecent, Next
    PROVE  AllRecent'
<1>0. TypeOK /\ TxsOK /\ image \in Images /\ clock \in Nat
  BY Typed DEF OrderInv
<1>1. ASSUME NEW i \in Waits, Commit(i) \/ Fail(i)
      PROVE  AllRecent'
  <2>1. /\ txs' = RemoveAt(txs, i) /\ wipedAt' = wipedAt /\ image' = image /\ txs[i] \in Transactions
        /\ disk' = disk \/ disk' = Applied(txs[i])
    BY <1>0, <1>1, Typed DEF Commit, Fail
  <2>2. \A j \in Waits' : Kept(j, i) \in Waits \ {i} /\ txs'[j] = txs[Kept(j, i)]
    BY <1>0, <2>1, Removed
  <2>3. \A c \in Chunks : \/ disk'.chunks[c] = disk.chunks[c] \/ disk'.chunks[c] = 0
                          \/ c \in DOMAIN txs[i].data /\ disk'.chunks[c] = txs[i].data[c]
    <3>1. EmptyDisk.chunks = [c \in Chunks |-> 0]
      BY DEF EmptyDisk, Blank
    <3>3. ASSUME disk' = Applied(txs[i]), txs[i].op = "deleteDisk", NEW c \in Chunks
          PROVE  disk'.chunks[c] = 0
      BY <1>0, <2>1, <3>1, <3>3, AppliedMeta
    <3>4. ASSUME disk' = Applied(txs[i]), txs[i].op = "putChunks", NEW c \in Chunks
          PROVE  disk'.chunks[c] = IF c \in DOMAIN txs[i].data THEN txs[i].data[c] ELSE disk.chunks[c]
      BY <1>0, <2>1, <3>4, AppliedMeta
    <3>5. ASSUME disk' = Applied(txs[i]), txs[i].op \notin {"deleteDisk", "putChunks"}
          PROVE  disk'.chunks = disk.chunks
      BY <1>0, <2>1, <3>5, AppliedMeta
    <3>. QED  BY <2>1, <3>3, <3>4, <3>5
  <2>4. \A c \in Chunks : Recent(disk'.chunks[c])
    BY <2>1, <2>3 DEF AllRecent, Recent
  <2>5. \A j \in Waits' : \A c \in DOMAIN txs'[j].data : Recent(txs'[j].data[c])
    BY <2>1, <2>2 DEF AllRecent, Recent
  <2>6. image'.attached => \A c \in Chunks : Recent(image'.chunks[c])
    BY <2>1 DEF AllRecent, Recent
  <2>. QED  BY <2>1, <2>4, <2>5, <2>6 DEF AllRecent, Recent
<1>2. CASE \/ OpenPage \/ GotMeta \/ Upgraded \/ ChunksPut \/ BootFails \/ Start
           \/ Imported \/ ImportNotStored \/ UserReset
  <2>1. /\ UNCHANGED <<image, disk, wipedAt>>
        /\ \/ txs' = txs
           \/ \E op \in Ops : txs' = Append(txs, Tx(op, "boot", NoData))
    BY <1>2, OpNames DEF OpenPage, GotMeta, Upgraded, ChunksPut, BootFails, Start,
                         Imported, ImportNotStored, UserReset, Await
  <2>. QED  BY <1>0, <2>1, OpNames, HandlerRecent DEF AllRecent
<1>3. CASE Wipe
  <2>1. /\ UNCHANGED <<disk, wipedAt>> /\ ~image'.attached
        /\ txs' = Append(txs, Tx("deleteDisk", "wipe", NoData))
    BY <1>0, <1>3 DEF Wipe, Await, Images
  <2>. QED  BY <1>0, <2>1, OpNames, HandlerRecent
<1>4. CASE Wiped
  <2>1. /\ disk = EmptyDisk /\ Quiet /\ ~image.attached
    BY <1>4 DEF Wiped, Resumes, WipeIsLast
  <2>2. UNCHANGED <<disk, txs, image>>
    BY <1>4 DEF Wiped
  <2>3. \A i \in Waits : DOMAIN txs[i].data = {}
    BY <1>0, <2>1 DEF Quiet, TxsOK, Writes
  <2>. QED  BY <2>1, <2>2, <2>3 DEF AllRecent, Recent, EmptyDisk, Blank, Waits
<1>5. CASE Loaded
  <2> DEFINE img == [chunks |-> answer.chunks, dirty |-> {}, attached |-> TRUE]
             new == Written(img, Sys)
  <2>1. img \in Images /\ img.chunks = answer.chunks /\ answer = disk
    BY <1>0, <1>5 DEF Images, TypeOK, Loaded, Resumes, Reading
  <2>2. \A c \in Chunks : Recent(img.chunks[c])
    BY <2>1 DEF AllRecent
  <2>3. /\ UNCHANGED <<disk, wipedAt>>
        /\ \/ image' = img /\ txs' = txs
           \/ /\ clock < MaxWrites /\ image' = TakeDirty(new)
              /\ txs' = Append(txs, Tx("putChunks", "boot", DirtyData(new)))
    BY <1>5 DEF Loaded, Await
  <2> HIDE DEF img
  <2>4. CASE image' = img /\ txs' = txs
    BY <1>0, <2>1, <2>2, <2>3, <2>4, HandlerRecent
  <2>5. CASE /\ clock < MaxWrites /\ image' = TakeDirty(new)
             /\ txs' = Append(txs, Tx("putChunks", "boot", DirtyData(new)))
    <3>1. new \in Images /\ \A c \in Chunks : Recent(new.chunks[c])
      BY <1>0, <2>1, <2>2, <2>5, SysAssumption, WrittenImage, WrittenIsRecent
    <3> HIDE DEF new
    <3>. QED  BY <1>0, <2>3, <2>5, <3>1, OpNames, TakenImage, HandlerRecent
  <2>. QED  BY <2>3, <2>4, <2>5
<1>6. CASE Build
  <2> DEFINE new == Written(NoImage, Sys)
  <2>1. NoImage \in Images /\ \A c \in Chunks : Recent(NoImage.chunks[c])
    BY BlankTypes DEF Blank, Recent
  <2>2. /\ UNCHANGED <<disk, wipedAt>> /\ clock < MaxWrites
        /\ image' = [new EXCEPT !.attached = TRUE]
        /\ txs' = Append(txs, Tx("putMeta", "boot", NoData))
    BY <1>6 DEF Build, Await
  <2>3. new \in Images /\ \A c \in Chunks : Recent(new.chunks[c])
    BY <1>0, <2>1, <2>2, SysAssumption, WrittenImage, WrittenIsRecent
  <2> HIDE DEF new
  <2>4. image'.chunks = new.chunks
    BY <2>2, <2>3 DEF Images
  <2>. QED  BY <1>0, <2>2, <2>3, <2>4, OpNames, HandlerRecent
<1>7. CASE MetaPut
  <2>1. image.attached /\ \A c \in Chunks : Recent(image.chunks[c])
    BY <1>7 DEF MetaPut, Reading, AllRecent
  <2>2. /\ UNCHANGED <<disk, wipedAt>> /\ image' = TakeDirty(image)
        /\ txs' = Append(txs, Tx("putChunks", "boot", DirtyData(image)))
    BY <1>7 DEF MetaPut, Await
  <2>. QED  BY <1>0, <2>1, <2>2, OpNames, TakenImage, HandlerRecent
<1>8. ASSUME NEW c \in Chunks, GuestWrite(c) \/ Import(c) \/ ImportThrows(c)
      PROVE  AllRecent'
  <2> DEFINE new == Written(image, c)
  <2>1. clock < MaxWrites /\ UNCHANGED <<disk, wipedAt>> /\ image.attached
    BY <1>8 DEF GuestWrite, Import, ImportThrows
  <2>2. new \in Images /\ \A d \in Chunks : Recent(new.chunks[d])
    BY <1>0, <2>1, WrittenImage, WrittenIsRecent DEF AllRecent
  <2>3. (image' = new /\ txs' = txs) \/ FlushOf(new, "import")
    BY <1>8 DEF GuestWrite, Import, ImportThrows
  <2> HIDE DEF new
  <2>4. /\ image'.chunks = new.chunks
        /\ \/ txs' = txs
           \/ txs' = Append(txs, Tx("putChunks", "import", DirtyData(new)))
    BY <2>2, <2>3, OpNames, FlushEffect
  <2>. QED  BY <1>0, <2>1, <2>2, <2>4, OpNames, HandlerRecent
<1>9. CASE TimerFlush \/ FlushMessage
  <2>1. PICK by \in {"timer", "message"} : FlushOf(image, by)
    BY <1>9 DEF TimerFlush, FlushMessage
  <2>2. UNCHANGED <<disk, wipedAt>>
    BY <1>9 DEF TimerFlush, FlushMessage
  <2>3. /\ image'.chunks = image.chunks /\ image'.attached = image.attached
        /\ \/ txs' = txs
           \/ image.attached /\ txs' = Append(txs, Tx("putChunks", by, DirtyData(image)))
    BY <1>0, <2>1, OpNames, FlushEffect
  <2>. QED  BY <1>0, <2>2, <2>3, OpNames, HandlerRecent DEF AllRecent
<1>10. CASE ClosePage
  <2>1. UNCHANGED <<disk, wipedAt>> /\ txs' = << >> /\ ~image'.attached
    BY <1>10, BlankTypes DEF ClosePage
  <2>. QED  BY <2>1 DEF AllRecent, Recent, Waits
<1>. QED  BY <1>1, <1>2, <1>3, <1>4, <1>5, <1>6, <1>7, <1>8, <1>9, <1>10
          DEF Next, Boot, Database, Waits

\* Whatever is clean in the image that a handler makes is saved afterwards, too.
LEMMA HandlerClean ==
    ASSUME TypeOK, TxsOK, disk' = disk, NEW img \in Images,
           \A c \in Chunks : c \notin img.dirty /\ c \notin lost' => SavedAs(c, img.chunks[c]),
           image'.chunks = img.chunks,
           \/ image'.dirty = img.dirty /\ txs' = txs
           \/ /\ image'.dirty = img.dirty
              /\ \E op \in Ops : \E by \in Flows \union {"timer", "message"} :
                    txs' = Append(txs, Tx(op, by, NoData))
           \/ /\ image'.dirty = {}
              /\ \E by \in Flows \union {"timer", "message"} :
                    txs' = Append(txs, Tx("putChunks", by, DirtyData(img)))
    PROVE  Clean'
<1>1. CASE image'.dirty = img.dirty /\ txs' = txs
  BY <1>1 DEF Clean, SavedAs, Waits
<1>2. ASSUME NEW op \in Ops, NEW by \in Flows \union {"timer", "message"}, NEW data \in ChunkData,
             txs' = Append(txs, Tx(op, by, data)),
             NEW c \in Chunks, c \notin image'.dirty, c \notin lost',
             c \in DOMAIN data \/ c \notin img.dirty,
             c \in DOMAIN data => data[c] = img.chunks[c]
      PROVE  SavedAs(c, image.chunks[c])'
  <2> DEFINE n == Len(txs) + 1
  <2>1. /\ \A i \in Waits : i \in Waits' /\ i < n /\ txs'[i] = txs[i]
        /\ n \in Waits' /\ txs'[n].data = data
        /\ \A i \in Waits' : i \in Waits \/ i = n
    BY <1>2, AddedTx
  <2>2. n \in Nat /\ \A i \in Waits' : i \in Nat /\ ~(n < i)
    BY <2>1 DEF Waits, TxsOK
  <2> HIDE DEF n
  <2>3. CASE c \in DOMAIN data
    BY <1>2, <2>1, <2>2, <2>3 DEF SavedAs
  <2>4. CASE c \notin DOMAIN data
    <3>1. SavedAs(c, img.chunks[c])
      BY <1>2, <2>4
    <3>2. CASE disk.chunks[c] = img.chunks[c] /\ \A i \in Waits : c \notin DOMAIN txs[i].data
      BY <2>1, <2>4, <3>2 DEF SavedAs
    <3>3. CASE \E i \in Waits : /\ c \in DOMAIN txs[i].data /\ txs[i].data[c] = img.chunks[c]
                                /\ \A j \in Waits : i < j => c \notin DOMAIN txs[j].data
      <4>1. PICK i \in Waits : /\ c \in DOMAIN txs[i].data /\ txs[i].data[c] = img.chunks[c]
                               /\ \A j \in Waits : i < j => c \notin DOMAIN txs[j].data
        BY <3>3
      <4>2. /\ i \in Waits' /\ c \in DOMAIN txs'[i].data /\ txs'[i].data[c] = image'.chunks[c]
            /\ \A j \in Waits' : i < j => c \notin DOMAIN txs'[j].data
        BY <2>1, <2>4, <4>1
      <4>. QED  BY <4>2 DEF SavedAs
    <3>. QED  BY <3>1, <3>2, <3>3 DEF SavedAs
  <2>. QED  BY <2>3, <2>4
<1>3. ASSUME NEW op \in Ops, NEW by \in Flows \union {"timer", "message"},
             txs' = Append(txs, Tx(op, by, NoData)), image'.dirty = img.dirty
      PROVE  Clean'
  <2>1. ASSUME NEW c \in Chunks, c \notin image'.dirty, c \notin lost'
        PROVE  SavedAs(c, image.chunks[c])'
    BY <1>2, <1>3, <2>1, NoDataType
  <2>. QED  BY <2>1 DEF Clean
<1>4. ASSUME NEW by \in Flows \union {"timer", "message"}, image'.dirty = {},
             txs' = Append(txs, Tx("putChunks", by, DirtyData(img)))
      PROVE  Clean'
  <2> DEFINE d == DirtyData(img)
  <2>1. d \in ChunkData /\ DOMAIN d = img.dirty /\ \A c \in img.dirty : d[c] = img.chunks[c]
    BY DirtyDataType
  <2> HIDE DEF d
  <2>2. txs' = Append(txs, Tx("putChunks", by, d))
    BY <1>4 DEF d
  <2>3. ASSUME NEW c \in Chunks, c \notin lost'
        PROVE  SavedAs(c, image.chunks[c])'
    BY <1>2, <1>4, <2>1, <2>2, <2>3, OpNames
  <2>. QED  BY <2>3 DEF Clean
<1>. QED  BY <1>1, <1>3, <1>4

\* What ends takes a chunk to the database, or its chunks are lost.
LEMMA EndClean ==
    ASSUME OrderInv, WipeIsLast, Clean, NEW i \in Waits, Commit(i) \/ Fail(i)
    PROVE  Clean'
<1>0. TypeOK /\ TxsOK /\ i \in Int
  BY DEF OrderInv, Waits
<1>1. /\ txs' = RemoveAt(txs, i) /\ image' = image /\ MayRun(i) /\ txs[i] \in Transactions
  BY <1>0, Typed DEF Commit, Fail
<1>2. /\ \A j \in Waits' : Kept(j, i) \in Waits \ {i} /\ txs'[j] = txs[Kept(j, i)]
      /\ \A j, k \in Waits' : j < k => Kept(j, i) < Kept(k, i)
      /\ \A k \in Waits \ {i} : \E j \in Waits' : k = Kept(j, i)
  BY <1>0, <1>1, Removed
<1>3. ASSUME NEW j \in Waits, j < i, NEW c \in DOMAIN txs[j].data
      PROVE  c \notin DOMAIN txs[i].data
  <2>1. SUFFICES ASSUME c \in DOMAIN txs[i].data PROVE FALSE
    OBVIOUS
  <2>2. txs[i].op = "putChunks" /\ txs[j].op = "putChunks"
    BY <1>0, <1>3, <2>1 DEF TxsOK
  <2>3. "chunks" \in Scope(txs[j]) \intersect Scope(txs[i])
    BY <2>2 DEF Scope
  <2>. QED  BY <1>1, <1>3, <2>3 DEF MayRun, Waits
<1>4. SUFFICES ASSUME image.attached, NEW c \in Chunks, c \notin image.dirty, c \notin lost'
               PROVE  SavedAs(c, image.chunks[c])'
  BY <1>1 DEF Clean
<1>5. SavedAs(c, image.chunks[c])
  <2>1. lost \subseteq lost'
    BY DEF Commit, Fail
  <2>. QED  BY <1>4, <2>1 DEF Clean
<1>6. \/ c \in DOMAIN txs[i].data /\ disk'.chunks[c] = txs[i].data[c]
      \/ c \notin DOMAIN txs[i].data /\ disk'.chunks[c] = disk.chunks[c]
  <2>1. CASE Fail(i)
    BY <1>4, <2>1 DEF Fail
  <2>2. CASE Commit(i)
    <3>1. txs[i].op # "deleteDisk"
      BY <1>4 DEF WipeIsLast
    <3>2. disk' = Applied(txs[i])
      BY <2>2 DEF Commit
    <3>3. CASE txs[i].op = "putChunks"
      BY <1>0, <1>1, <3>2, <3>3, AppliedMeta
    <3>4. CASE txs[i].op # "putChunks"
      <4>1. disk'.chunks = disk.chunks
        BY <1>0, <1>1, <3>1, <3>2, <3>4, AppliedMeta
      <4>2. c \notin DOMAIN txs[i].data
        BY <1>0, <3>4 DEF TxsOK
      <4>. QED  BY <4>1, <4>2
    <3>. QED  BY <3>3, <3>4
  <2>. QED  BY <2>1, <2>2
<1>7. CASE disk.chunks[c] = image.chunks[c] /\ \A j \in Waits : c \notin DOMAIN txs[j].data
  BY <1>1, <1>2, <1>6, <1>7 DEF SavedAs
<1>8. ASSUME NEW m \in Waits, c \in DOMAIN txs[m].data, txs[m].data[c] = image.chunks[c],
             \A j \in Waits : m < j => c \notin DOMAIN txs[j].data
      PROVE  SavedAs(c, image.chunks[c])'
  <2>1. CASE m = i
    <3>1. \A j \in Waits \ {i} : c \notin DOMAIN txs[j].data
      BY <1>0, <1>3, <1>8, <2>1 DEF Waits
    <3>. QED  BY <1>1, <1>2, <1>6, <1>8, <2>1, <3>1 DEF SavedAs
  <2>2. CASE m # i
    <3>1. PICK k \in Waits' : m = Kept(k, i)
      BY <1>2, <2>2
    <3>2. /\ c \in DOMAIN txs'[k].data /\ txs'[k].data[c] = image'.chunks[c]
          /\ \A j \in Waits' : k < j => c \notin DOMAIN txs'[j].data
      BY <1>1, <1>2, <1>8, <3>1
    <3>. QED  BY <3>2 DEF SavedAs
  <2>. QED  BY <2>1, <2>2
<1>. QED  BY <1>5, <1>7, <1>8 DEF SavedAs

LEMMA CleanStep ==
    ASSUME OrderInv, Reading, BootFirst, WipeIsLast, MetaFirst, Clean, Next
    PROVE  Clean'
<1>0. TypeOK /\ TxsOK /\ image \in Images /\ clock \in Nat
  BY Typed DEF OrderInv
<1>1. ASSUME NEW i \in Waits, Commit(i) \/ Fail(i)
      PROVE  Clean'
  BY <1>1, EndClean
<1>2. CASE \/ OpenPage \/ GotMeta \/ Upgraded \/ ChunksPut \/ BootFails \/ Start
           \/ Imported \/ ImportNotStored \/ UserReset \/ Wiped
  <2>1. /\ UNCHANGED <<image, disk, lost>>
        /\ \/ txs' = txs
           \/ \E op \in Ops : txs' = Append(txs, Tx(op, "boot", NoData))
    BY <1>2, OpNames DEF OpenPage, GotMeta, Upgraded, ChunksPut, BootFails, Start,
                         Imported, ImportNotStored, UserReset, Wiped, Await
  <2>2. CASE image.attached
    BY <1>0, <2>1, <2>2, OpNames, HandlerClean DEF Clean
  <2>3. CASE ~image.attached
    BY <2>1, <2>3 DEF Clean
  <2>. QED  BY <2>2, <2>3
<1>3. CASE Wipe \/ ClosePage
  <2>1. ~image'.attached
    BY <1>0, <1>3, BlankTypes DEF Wipe, ClosePage, Images
  <2>. QED  BY <2>1 DEF Clean
<1>4. CASE Loaded
  <2> DEFINE img == [chunks |-> answer.chunks, dirty |-> {}, attached |-> TRUE]
             new == Written(img, Sys)
  <2>1. img \in Images /\ img.chunks = answer.chunks /\ img.dirty = {} /\ answer = disk /\ txs = << >>
    BY <1>0, <1>4 DEF Images, TypeOK, Loaded, Resumes, Reading
  <2>2. \A c \in Chunks : SavedAs(c, img.chunks[c])
    BY <2>1 DEF SavedAs, Waits
  <2>3. /\ UNCHANGED disk
        /\ \/ image' = img /\ txs' = txs
           \/ /\ clock < MaxWrites /\ image' = TakeDirty(new)
              /\ txs' = Append(txs, Tx("putChunks", "boot", DirtyData(new)))
    BY <1>4 DEF Loaded, Await
  <2> HIDE DEF img
  <2>4. CASE image' = img /\ txs' = txs
    BY <1>0, <2>1, <2>2, <2>3, <2>4, HandlerClean
  <2>5. CASE /\ clock < MaxWrites /\ image' = TakeDirty(new)
             /\ txs' = Append(txs, Tx("putChunks", "boot", DirtyData(new)))
    <3>1. /\ new \in Images /\ new.chunks = [img.chunks EXCEPT ![Sys] = clock + 1]
          /\ new.dirty = img.dirty \union {Sys}
      BY <1>0, <2>1, <2>5, SysAssumption, WrittenImage
    <3> HIDE DEF new
    <3>2. \A c \in Chunks : c \notin new.dirty => SavedAs(c, new.chunks[c])
      BY <2>1, <2>2, <3>1 DEF Images, Contents
    <3>. QED  BY <1>0, <2>3, <2>5, <3>1, <3>2, OpNames, TakenImage, HandlerClean
  <2>. QED  BY <2>3, <2>4, <2>5
<1>5. CASE Build
  <2> DEFINE new == Written(NoImage, Sys)
             img == [new EXCEPT !.attached = TRUE]
  <2>1. /\ UNCHANGED disk /\ clock < MaxWrites
        /\ image' = img /\ txs' = Append(txs, Tx("putMeta", "boot", NoData))
    BY <1>5 DEF Build, Await
  <2>2. OnlySystem /\ txs = << >>
    BY <1>5 DEF Build, Reading, MetaFirst
  <2>3. /\ new \in Images /\ new.chunks = [NoImage.chunks EXCEPT ![Sys] = clock + 1]
        /\ new.dirty = NoImage.dirty \union {Sys}
    BY <1>0, <2>1, BlankTypes, SysAssumption, WrittenImage
  <2> HIDE DEF new
  <2>4. img \in Images /\ img.chunks = new.chunks /\ img.dirty = new.dirty
    BY <2>3 DEF Images
  <2> HIDE DEF img
  <2>5. \A c \in Chunks \ {Sys} : img.chunks[c] = 0
    BY <2>3, <2>4, BlankTypes DEF Blank
  <2>6. \A c \in Chunks : c \notin img.dirty => SavedAs(c, img.chunks[c])
    BY <2>2, <2>3, <2>4, <2>5 DEF SavedAs, OnlySystem
  <2>. QED  BY <1>0, <2>1, <2>4, <2>6, OpNames, HandlerClean
<1>6. CASE MetaPut
  <2>1. image.attached
    BY <1>6 DEF MetaPut, Reading
  <2>2. /\ UNCHANGED <<disk, lost>> /\ image' = TakeDirty(image)
        /\ txs' = Append(txs, Tx("putChunks", "boot", DirtyData(image)))
    BY <1>6 DEF MetaPut, Await
  <2>. QED  BY <1>0, <2>1, <2>2, OpNames, TakenImage, HandlerClean DEF Clean
<1>7. ASSUME NEW c \in Chunks, GuestWrite(c) \/ Import(c) \/ ImportThrows(c)
      PROVE  Clean'
  <2> DEFINE new == Written(image, c)
  <2>1. clock < MaxWrites /\ UNCHANGED disk /\ lost' = lost \ {c} /\ image.attached
    BY <1>7 DEF GuestWrite, Import, ImportThrows
  <2>2. /\ new \in Images /\ new.chunks = [image.chunks EXCEPT ![c] = clock + 1]
        /\ new.dirty = image.dirty \union {c}
    BY <1>0, <2>1, WrittenImage
  <2>3. (image' = new /\ txs' = txs) \/ FlushOf(new, "import")
    BY <1>7 DEF GuestWrite, Import, ImportThrows
  <2> HIDE DEF new
  <2>4. ASSUME NEW d \in Chunks, d \notin new.dirty, d \notin lost'
        PROVE  SavedAs(d, new.chunks[d])
    <3>1. d # c /\ d \notin image.dirty /\ d \notin lost
      BY <2>1, <2>2, <2>4
    <3>2. new.chunks[d] = image.chunks[d]
      BY <1>0, <2>2, <3>1 DEF Images, Contents
    <3>. QED  BY <2>1, <3>1, <3>2 DEF Clean
  <2>5. /\ image'.chunks = new.chunks
        /\ \/ image' = new /\ txs' = txs
           \/ /\ image'.dirty = {}
              /\ txs' = Append(txs, Tx("putChunks", "import", DirtyData(new)))
    BY <2>2, <2>3, OpNames, FlushEffect
  <2>. QED  BY <1>0, <2>1, <2>2, <2>4, <2>5, OpNames, HandlerClean
<1>8. CASE TimerFlush \/ FlushMessage
  <2>1. PICK by \in {"timer", "message"} : FlushOf(image, by)
    BY <1>8 DEF TimerFlush, FlushMessage
  <2>2. UNCHANGED <<disk, lost>>
    BY <1>8 DEF TimerFlush, FlushMessage
  <2>3. /\ image'.chunks = image.chunks /\ image'.attached = image.attached
        /\ \/ image' = image /\ txs' = txs
           \/ /\ image'.dirty = {}
              /\ txs' = Append(txs, Tx("putChunks", by, DirtyData(image)))
    BY <1>0, <2>1, OpNames, FlushEffect
  <2>4. CASE image.attached
    BY <1>0, <2>2, <2>3, <2>4, OpNames, HandlerClean DEF Clean
  <2>5. CASE ~image.attached
    BY <2>3, <2>5 DEF Clean
  <2>. QED  BY <2>4, <2>5
<1>. QED  BY <1>1, <1>2, <1>3, <1>4, <1>5, <1>6, <1>7, <1>8
          DEF Next, Boot, Database, Waits

----------------------------------------------------------------------------
LEMMA InitIInv == Init => IInv
<1> SUFFICES ASSUME Init PROVE IInv
  OBVIOUS
<1>1. OrderInv
  BY OrderStart
<1>2. /\ image = NoImage /\ disk = EmptyDisk /\ txs = << >> /\ flow = NoFlow /\ machine = Stopped
      /\ ~image.attached /\ Waits = {}
  BY BlankTypes DEF Init, Waits
<1>3. Reading /\ BootFirst /\ BootTx /\ WipeIsLast
  BY <1>2 DEF Reading, BootFirst, BootTx, WipeIsLast, NoFlow
<1>4. \A c \in Chunks : disk.chunks[c] = 0
  BY <1>2 DEF EmptyDisk, Blank
<1>5. MetaFirst /\ AllRecent /\ Clean
  BY <1>2, <1>4 DEF MetaFirst, OnlySystem, AllRecent, Recent, Clean, NoFlow
<1>. QED  BY <1>1, <1>3, <1>5 DEF IInv

LEMMA Stutter == IInv /\ UNCHANGED vars => IInv'
<1> SUFFICES ASSUME IInv, UNCHANGED vars PROVE IInv'
  OBVIOUS
<1>1. OrderInv' /\ Waits' = Waits
  BY OrderStutter DEF IInv, vars, Waits
<1>2. (Reading /\ BootFirst /\ BootTx)'
  BY <1>1 DEF IInv, vars, Reading, BootFirst, BootTx
<1>3. (WipeIsLast /\ MetaFirst)'
  BY <1>1 DEF IInv, vars, WipeIsLast, Quiet, MetaFirst, OnlySystem
<1>4. (AllRecent /\ Clean)'
  BY <1>1 DEF IInv, vars, AllRecent, Recent, Clean, SavedAs
<1>. QED  BY <1>1, <1>2, <1>3, <1>4 DEF IInv

LEMMA Inductive ==
    ASSUME ~UserEarly
    PROVE  Spec => []IInv
<1>1. IInv /\ Next => IInv'
  BY OrderStep, ReadingStep, BootFirstStep, BootTxStep, WipeStep, MetaStep, RecentStep, CleanStep
     DEF IInv, OrderInv
<1>2. IInv /\ [Next]_vars => IInv'
  BY <1>1, Stutter
<1>. QED  BY InitIInv, <1>2, PTL DEF Spec

LEMMA SavedIsSettling ==
    ASSUME TxsOK, NEW c \in Chunks, NEW v, SavedAs(c, v)
    PROVE  Settling(c) = v
<1>1. CASE disk.chunks[c] = v /\ \A i \in Waits : c \notin DOMAIN txs[i].data
  BY <1>1 DEF Settling, Pending, Waits
<1>2. ASSUME NEW i \in Waits, c \in DOMAIN txs[i].data, txs[i].data[c] = v,
             \A j \in Waits : i < j => c \notin DOMAIN txs[j].data
      PROVE  Settling(c) = v
  <2>1. i \in Pending(c) /\ \A j \in Pending(c) : j \in Int /\ i \in Int /\ j <= i
    BY <1>2 DEF Pending, Waits, TxsOK
  <2>2. i = CHOOSE k \in Pending(c) : \A j \in Pending(c) : j <= k
    <3>1. \A k \in Pending(c) : (\A j \in Pending(c) : j <= k) => k = i
      BY <2>1
    <3>. QED  BY <2>1, <3>1
  <2>. QED  BY <1>2, <2>1, <2>2 DEF Settling
<1>. QED  BY <1>1, <1>2 DEF SavedAs

\* A chunk that is not marked dirty is saved or on its way, unless the very transaction
\* that held it has failed: no overlap of the timer's flush, the page's and an import's
\* loses a write (takeDirty, flush and the handlers of worker.ts).
THEOREM NothingForgotten ==
    ASSUME ~UserEarly
    PROVE  Spec => []CleanIsSaved
<1>1. IInv => CleanIsSaved
  BY SavedIsSettling DEF IInv, OrderInv, Clean, CleanIsSaved
<1>. QED  BY <1>1, Inductive, PTL

\* The page is told that the drive is wiped only when nothing of it is left, and no
\* later machine runs with anything older than the wipe; every variable has its type.
THEOREM WipesAreWipes ==
    ASSUME ~UserEarly
    PROVE  Spec => []Consistent
<1>1. IInv => Consistent
  <2> SUFFICES ASSUME IInv PROVE Consistent
    OBVIOUS
  <2>1. TypeOK /\ AckMeansWiped
    BY DEF IInv, OrderInv, WipeIsLast, AckMeansWiped
  <2>2. NoOldDrive
    <3>1. \A c \in Chunks : image.chunks[c] \in Nat /\ image.chunks[c] <= clock
      BY Typed DEF IInv, OrderInv, Counted
    <3>2. wipedAt \in Nat /\ clock \in Nat
      BY <2>1, BoundsAssumption DEF TypeOK
    <3>3. image.attached => \A c \in Chunks : Recent(image.chunks[c])
      BY DEF IInv, AllRecent
    <3>. QED  BY <3>1, <3>2, <3>3 DEF NoOldDrive, Recent
  <2>. QED  BY <2>1, <2>2 DEF Consistent
<1>. QED  BY <1>1, Inductive, PTL
=============================================================================
