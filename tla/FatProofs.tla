------------------------------ MODULE FatProofs -----------------------------
(***************************************************************************)
(* Proofs about the FAT driver that imports into drive C: with, for a      *)
(* volume and a directory of any size, any archive, and any order of       *)
(* imports, deletions and failures.                                        *)
(***************************************************************************)
EXTENDS FatFs, FiniteSetTheorems, SequenceTheorems, WellFoundedInduction, TLAPS

LEMMA FirstOfMany ==
    ASSUME NEW T \in SUBSET Nat, T # {}
    PROVE  \E x \in T : \A y \in T : x <= y
<1>1. PICK x \in T : \A y \in T : <<y, x>> \notin OpToRel(<, Nat)
  BY WFMin, NatLessThanWellFounded
<1>2. \A y \in T : ~(y < x)
  BY <1>1 DEF OpToRel
<1>. QED  BY <1>2

(* Induction up to a bound, for a set of numbers.                          *)
LEMMA UpTo ==
    ASSUME NEW n \in Nat, NEW T, 0 \in T, \A i \in 0..(n - 1) : i \in T => i + 1 \in T
    PROVE  \A i \in 0..n : i \in T
<1> DEFINE B == {i \in 0..n : i \notin T}
<1>1. CASE B = {}
  BY <1>1
<1>2. CASE B # {}
  <2>0. B \in SUBSET Nat
    OBVIOUS
  <2>1. PICK x \in B : \A y \in B : x <= y
    BY <1>2, <2>0, FirstOfMany
  <2>2. x - 1 \in 0..(n - 1) /\ x - 1 \notin B
    BY <2>1
  <2>3. x - 1 \in T
    BY <2>2
  <2>. QED  BY <2>1, <2>2, <2>3
<1>. QED  BY <1>1, <1>2

----------------------------------------------------------------------------
(* The first place of a sequence where one of some is found.               *)
LEMMA FirstOfFound ==
    ASSUME NEW order, NEW some, DOMAIN order \in SUBSET Nat
    PROVE  \/ FirstOf(order, some) = << >> /\ \A i \in DOMAIN order : order[i] \notin some
           \/ \E i \in DOMAIN order : order[i] \in some /\ FirstOf(order, some) = <<order[i]>>
<1> DEFINE at == {i \in DOMAIN order : order[i] \in some}
<1>1. CASE at = {}
  BY <1>1 DEF FirstOf
<1>2. CASE at # {}
  <2>1. PICK x \in at : \A y \in at : x <= y
    BY <1>2, FirstOfMany
  <2>2. Min(at) \in at
    BY <2>1 DEF Min
  <2>. QED  BY <1>2, <2>2 DEF FirstOf
<1>. QED  BY <1>1, <1>2

LEMMA NumberTypes ==
    /\ N \in Nat \ {0} /\ Eoc = N + 2 /\ Eoc \in Nat /\ Clusters = 2..(N + 1)
    /\ Clusters \subseteq 0..Eoc /\ Clusters \subseteq Nat /\ 0 \notin Clusters /\ Eoc \notin Clusters
    /\ RootSlots \in Nat /\ DirSlots \in Nat /\ DirSlots >= 3
  BY SizeAssumption DEF Eoc, Clusters

(* The search meets every cluster, wherever it starts.                     *)
LEMMA Wraps ==
    ASSUME NEW hint \in 2..Eoc, NEW c \in Clusters
    PROVE  \E i \in 1..N : 2 + ((hint + i - 3) % N) = c
<1>1. N \in Nat \ {0} /\ c \in 2..(N + 1) /\ hint \in 2..(N + 2)
  BY NumberTypes
<1> DEFINE i == IF c >= hint THEN c - hint + 1 ELSE IF hint = N + 2 THEN c - 1 ELSE c - hint + N + 1
           x == hint + i - 3
<1>2. i \in 1..N /\ x \in Nat /\ (x = c - 2 \/ x = c - 2 + N)
  BY <1>1
<1>3. c - 2 \in 0..(N - 1)
  BY <1>1
<1> HIDE DEF i, x
<1>4. /\ x \div N \in Int /\ x % N \in 0..(N - 1) /\ x = N * (x \div N) + (x % N)
  BY <1>1, <1>2
<1>5. x % N = c - 2
  <2> DEFINE q == x \div N
             m == x % N
  <2>1. N * q = x - m /\ m \in 0..(N - 1) /\ q \in Int
    BY <1>1, <1>2, <1>4
  <2> HIDE DEF q, m
  <2>2. -N < N * q - (c - 2) + m + (c - 2) - m /\ N * q < 2 * N /\ N * q > -N
    BY <1>1, <1>2, <1>3, <2>1
  <2>3. q = 0 \/ q = 1
    BY <1>1, <2>1, <2>2
  <2>4. N * q = 0 \/ N * q = N
    BY <1>1, <2>3
  <2>5. m = c - 2
    BY <1>1, <1>2, <1>3, <2>1, <2>4
  <2>. QED  BY <2>5 DEF m
<1>6. 2 + ((hint + i - 3) % N) = c
  BY <1>1, <1>5 DEF x
<1>. QED  BY <1>2, <1>6

LEMMA OrderInClusters ==
    ASSUME NEW x \in Int
    PROVE  2 + (x % N) \in Clusters
<1>1. x % N \in 0..(N - 1)
  BY NumberTypes
<1>. QED  BY <1>1, NumberTypes

----------------------------------------------------------------------------
(* Volumes: what every operator takes and gives back.                      *)
SlotsOf(c) == 1..(IF c = Root THEN RootSlots ELSE DirSlots)
FineEntry(e) ==
    /\ e.kind \in {"never", "deleted", "file", "dir"} /\ e.name \in OnDrive
    /\ e.first \in {0} \union Clusters /\ e.size \in {0} \union AllSizes
    /\ e.kind = "dir" /\ e.name[1] \notin {".", ".."} => e.first \in Clusters
FineContent(content) ==
    \A c \in 0..(N + 1) :
        /\ c \in DOMAIN content /\ {"entries", "piece"} \subseteq DOMAIN content[c]
        /\ \A s \in SlotsOf(c) : s \in DOMAIN content[c].entries /\ FineEntry(content[c].entries[s])
HasFields(v) == {"fat", "hint", "content"} \subseteq DOMAIN v
Volume(v) ==
    HasFields(v) /\ v.fat \in Fats /\ v.hint \in 2..Eoc /\ FineContent(v.content)
Space(v) == Cardinality(FreeClusters(v))

LEMMA FreeFinite ==
    ASSUME NEW v
    PROVE  IsFiniteSet(FreeClusters(v)) /\ Space(v) \in Nat
<1>1. IsFiniteSet(Clusters)
  BY FS_Interval, NumberTypes
<1>2. FreeClusters(v) \in SUBSET Clusters
  BY DEF FreeClusters
<1>. QED  BY <1>1, <1>2, FS_Subset, FS_CardinalityType DEF Space

LEMMA AllocClusterGives ==
    ASSUME NEW v, Volume(v)
    PROVE  LET r == AllocCluster(v)
           IN  \/ r = Thrown(v) /\ Space(v) = 0
               \/ /\ r.ok /\ r.got \in FreeClusters(v)
                  /\ r.vol = [v EXCEPT !.hint = r.got + 1, !.fat[r.got] = Eoc]
                  /\ Volume(r.vol) /\ r.vol.content = v.content /\ Space(r.vol) = Space(v) - 1
<1> DEFINE order == [i \in 1..N |-> 2 + ((v.hint + i - 3) % N)]
           first == FirstOf(order, FreeClusters(v))
           r == AllocCluster(v)
<1>1. v.hint \in 2..Eoc /\ v.fat \in Fats
  BY DEF Volume
<1>2. DOMAIN order = 1..N /\ DOMAIN order \in SUBSET Nat
  BY NumberTypes
<1>3. r = GivenOut(v, first)
  BY DEF AllocCluster
<1>4. \/ first = << >> /\ \A i \in 1..N : order[i] \notin FreeClusters(v)
      \/ \E i \in 1..N : order[i] \in FreeClusters(v) /\ first = <<order[i]>>
  <2> HIDE DEF order
  <2>. QED  BY <1>2, FirstOfFound
<1> HIDE DEF first, r
<1>5. CASE first = << >> /\ \A i \in 1..N : order[i] \notin FreeClusters(v)
  <2>1. \A c \in Clusters : c \notin FreeClusters(v)
    BY <1>1, <1>5, Wraps
  <2>2. FreeClusters(v) = {}
    BY <2>1 DEF FreeClusters
  <2>3. Space(v) = 0
    BY <2>2, FS_EmptySet DEF Space
  <2>. QED  BY <1>3, <1>5, <2>3 DEF GivenOut, r
<1>6. CASE \E i \in 1..N : order[i] \in FreeClusters(v) /\ first = <<order[i]>>
  <2>1. PICK c \in FreeClusters(v) : first = <<c>>
    BY <1>6
  <2>2. c \in 2..(N + 1) /\ v.fat[c] = Free
    BY <2>1, NumberTypes DEF FreeClusters
  <2> DEFINE w == [v EXCEPT !.hint = c + 1, !.fat[c] = Eoc]
  <2>3. r = Returned(w, c)
    BY <1>3, <2>1 DEF GivenOut
  <2>4. /\ HasFields(w) /\ w.fat = [v.fat EXCEPT ![c] = Eoc]
        /\ w.hint = c + 1 /\ w.content = v.content
    BY DEF Volume, HasFields
  <2> HIDE DEF w
  <2>5. w.fat \in Fats /\ w.hint \in 2..Eoc
    BY <1>1, <2>2, <2>4, NumberTypes DEF Fats
  <2>6. Volume(w)
    BY <2>4, <2>5 DEF Volume
  <2>7. FreeClusters(w) = FreeClusters(v) \ {c}
    BY <1>1, <2>2, <2>4, NumberTypes DEF Fats, FreeClusters, Free
  <2>8. Space(w) = Space(v) - 1
    BY <2>1, <2>7, FreeFinite, FS_RemoveElement DEF Space
  <2>9. r.ok /\ r.got = c /\ r.vol = w
    BY <2>3 DEF Returned
  <2>10. r.vol = [v EXCEPT !.hint = r.got + 1, !.fat[r.got] = Eoc]
    BY <2>9 DEF w
  <2>. QED  BY <2>1, <2>4, <2>6, <2>8, <2>9, <2>10 DEF r
<1>. QED  BY <1>4, <1>5, <1>6

----------------------------------------------------------------------------
(* Chains are sequences of clusters.                                       *)
Longer(fat, first, chain) ==
    LET c == IF chain = << >> THEN first ELSE fat[Last(chain)]
    IN  IF c \in Clusters THEN Append(chain, c) ELSE chain
Links(fat, first, upTo, m) ==
    upTo = [n \in 0..m |-> IF n = 0 THEN << >> ELSE Longer(fat, first, upTo[n - 1])]

LEMMA ChainsExist ==
    ASSUME NEW fat, NEW first
    PROVE  \E upTo : Links(fat, first, upTo, N)
<1> DEFINE T == {m \in 0..N : \E upTo : Links(fat, first, upTo, m)}
<1>1. 0 \in T
  <2> DEFINE f == [n \in 0..0 |-> << >>]
  <2>1. Links(fat, first, f, 0)
    BY DEF Links
  <2>. QED  BY <2>1, NumberTypes
<1>2. ASSUME NEW m \in 0..(N - 1), m \in T PROVE m + 1 \in T
  <2>1. PICK g : Links(fat, first, g, m)
    BY <1>2
  <2> DEFINE f == [n \in 0..(m + 1) |-> IF n = 0 THEN << >> ELSE Longer(fat, first, g[n - 1])]
  <2>2. ASSUME NEW n \in 0..m PROVE f[n] = g[n]
    <3>1. g[n] = IF n = 0 THEN << >> ELSE Longer(fat, first, g[n - 1])
      BY <2>1 DEF Links
    <3>2. n \in 0..(m + 1)
      BY NumberTypes
    <3> HIDE DEF Links
    <3>. QED  BY <3>1, <3>2
  <2>3. ASSUME NEW n \in 0..(m + 1)
        PROVE  f[n] = IF n = 0 THEN << >> ELSE Longer(fat, first, f[n - 1])
    <3>1. n = 0 \/ n - 1 \in 0..m
      BY NumberTypes
    <3>2. n = 0 \/ f[n - 1] = g[n - 1]
      BY <2>2, <3>1
    <3>. QED  BY <3>2
  <2>4. Links(fat, first, f, m + 1)
    BY <2>3 DEF Links
  <2>. QED  BY <2>4, NumberTypes
<1>3. \A m \in 0..N : m \in T
  <2> HIDE DEF T
  <2>. QED  BY <1>1, <1>2, UpTo, NumberTypes
<1>. QED  BY <1>3, NumberTypes

LinkedFrom(fat, first, s) ==
    /\ s \in Seq(Clusters) /\ (s # << >> => s[1] = first)
    /\ \A i \in 1..(Len(s) - 1) : fat[s[i]] = s[i + 1]

LEMMA LastOf ==
    ASSUME NEW S, NEW s \in Seq(S), s # << >>
    PROVE  Last(s) = s[Len(s)] /\ Len(s) \in Nat \ {0} /\ Last(s) \in S
<1>1. Len(s) \in Nat \ {0}
  BY EmptySeq
<1>. QED  BY <1>1 DEF Last

LEMMA LongerIsLinked ==
    ASSUME NEW fat, NEW first, NEW s, LinkedFrom(fat, first, s)
    PROVE  LinkedFrom(fat, first, Longer(fat, first, s)) /\ Len(Longer(fat, first, s)) <= Len(s) + 1
<1> DEFINE c == IF s = << >> THEN first ELSE fat[Last(s)]
           t == Append(s, c)
<1>1. s \in Seq(Clusters) /\ Len(s) \in Nat
  BY DEF LinkedFrom
<1>2. CASE c \in Clusters
  <2>1. Longer(fat, first, s) = t
    BY <1>2 DEF Longer
  <2>2. /\ t \in Seq(Clusters) /\ Len(t) = Len(s) + 1 /\ t[Len(s) + 1] = c
        /\ \A i \in 1..Len(s) : t[i] = s[i]
    <3> HIDE DEF c
    <3>. QED  BY <1>1, <1>2, AppendProperties
  <2>3. t[1] = first
    <3>1. CASE s = << >>
      BY <2>2, <3>1
    <3>2. CASE s # << >>
      BY <1>1, <2>2, <3>2, LastOf DEF LinkedFrom
    <3>. QED  BY <3>1, <3>2
  <2>4. ASSUME NEW i \in 1..(Len(t) - 1) PROVE fat[t[i]] = t[i + 1]
    <3> HIDE DEF t
    <3>1. i \in 1..Len(s)
      BY <1>1, <2>2
    <3>2. CASE i = Len(s)
      <4>1. Last(s) = s[Len(s)] /\ s # << >>
        BY <1>1, <3>1, LastOf
      <4>. QED  BY <2>2, <3>1, <3>2, <4>1
    <3>3. CASE i # Len(s)
      <4>1. i \in 1..(Len(s) - 1) /\ i + 1 \in 1..Len(s)
        BY <1>1, <3>1, <3>3
      <4>. QED  BY <2>2, <3>1, <4>1 DEF LinkedFrom
    <3>. QED  BY <3>2, <3>3
  <2> HIDE DEF t
  <2>. QED  BY <1>1, <2>1, <2>2, <2>3, <2>4 DEF LinkedFrom
<1>3. CASE c \notin Clusters
  BY <1>1, <1>3 DEF Longer
<1>. QED  BY <1>2, <1>3

LEMMA LinksGive ==
    ASSUME NEW fat, NEW first, NEW upTo, Links(fat, first, upTo, N)
    PROVE  \A m \in 0..N : /\ LinkedFrom(fat, first, upTo[m]) /\ Len(upTo[m]) <= m
                           /\ first \notin Clusters => upTo[m] = << >>
                           /\ first \in Clusters /\ m # 0 => upTo[m] # << >>
<1> DEFINE T == {m \in 0..N : /\ LinkedFrom(fat, first, upTo[m]) /\ Len(upTo[m]) <= m
                              /\ first \notin Clusters => upTo[m] = << >>
                              /\ first \in Clusters /\ m # 0 => upTo[m] # << >>}
<1>1. 0 \in T
  <2>1. upTo[0] = << >>
    BY NumberTypes DEF Links
  <2>2. Len(<< >>) = 0 /\ << >> \in Seq(Clusters)
    OBVIOUS
  <2>3. 1..(0 - 1) = {}
    OBVIOUS
  <2>4. LinkedFrom(fat, first, << >>)
    BY <2>2, <2>3 DEF LinkedFrom
  <2>. QED  BY <2>1, <2>2, <2>4, NumberTypes
<1>2. ASSUME NEW m \in 0..(N - 1), m \in T PROVE m + 1 \in T
  <2> DEFINE s == upTo[m]
             t == Longer(fat, first, s)
  <2>1. upTo[m + 1] = t /\ m + 1 \in 0..N /\ m \in Nat
    BY NumberTypes DEF Links
  <2>2. LinkedFrom(fat, first, s) /\ Len(s) <= m
    BY <1>2
  <2>3. LinkedFrom(fat, first, t) /\ Len(t) <= Len(s) + 1
    BY <2>2, LongerIsLinked
  <2>4. Len(s) \in Nat /\ Len(t) \in Nat
    BY <2>2, <2>3 DEF LinkedFrom
  <2>5. first \notin Clusters => t = << >>
    BY <1>2 DEF Longer
  <2>6. first \in Clusters => t # << >>
    <3> DEFINE c == IF s = << >> THEN first ELSE fat[Last(s)]
    <3>1. c \in Clusters => Append(s, c) # << >>
      <4> HIDE DEF c, s
      <4>. QED  BY <2>2, AppendProperties DEF LinkedFrom
    <3>2. t = IF c \in Clusters THEN Append(s, c) ELSE s
      BY DEF Longer
    <3>3. first \in Clusters /\ s = << >> => c \in Clusters
      OBVIOUS
    <3> HIDE DEF c, s, t
    <3>. QED  BY <3>1, <3>2, <3>3
  <2>7. Len(t) <= m + 1
    BY <2>1, <2>2, <2>3, <2>4
  <2> HIDE DEF t, s
  <2>. QED  BY <2>1, <2>3, <2>5, <2>6, <2>7
<1>3. \A m \in 0..N : m \in T
  <2> HIDE DEF T
  <2>. QED  BY <1>1, <1>2, UpTo, NumberTypes
<1>. QED  BY <1>3

LEMMA ChainGives ==
    ASSUME NEW v, NEW first
    PROVE  /\ LinkedFrom(v.fat, first, Chain(v, first)) /\ Len(Chain(v, first)) \in 0..N
           /\ Chain(v, first) # << >> <=> first \in Clusters
<1> DEFINE upTo == CHOOSE f : Links(v.fat, first, f, N)
<1>1. Links(v.fat, first, upTo, N)
  BY ChainsExist
<1>2. Chain(v, first) = upTo[N]
  BY DEF Chain, Links, Longer
<1> HIDE DEF upTo
<1>3. N \in 0..N /\ N # 0
  BY NumberTypes
<1>4. Len(Chain(v, first)) \in Nat
  BY <1>1, <1>2, <1>3, LinksGive DEF LinkedFrom
<1>. QED  BY <1>1, <1>2, <1>3, <1>4, LinksGive, NumberTypes

LEMMA ChainInClusters ==
    ASSUME NEW v, NEW first
    PROVE  Chain(v, first) \in Seq(Clusters)
  BY ChainGives DEF LinkedFrom

(* A sequence of linked clusters whose last has no successor is the chain. *)
LEMMA ChainIs ==
    ASSUME NEW v, NEW first, NEW s, LinkedFrom(v.fat, first, s), Len(s) <= N,
           IF s = << >> THEN first \notin Clusters ELSE v.fat[Last(s)] \notin Clusters
    PROVE  Chain(v, first) = s
<1> DEFINE upTo == CHOOSE f : Links(v.fat, first, f, N)
           T == {m \in 0..N : IF m <= Len(s) THEN upTo[m] = SubSeq(s, 1, m) ELSE upTo[m] = s}
<1>1. Links(v.fat, first, upTo, N)
  BY ChainsExist
<1>2. Chain(v, first) = upTo[N]
  BY DEF Chain, Links, Longer
<1> HIDE DEF upTo
<1>3. s \in Seq(Clusters) /\ Len(s) \in Nat
  BY DEF LinkedFrom
<1>4. 0 \in T
  <2>1. upTo[0] = << >>
    BY <1>1, NumberTypes DEF Links
  <2>2. SubSeq(s, 1, 0) = << >>
    BY <1>3, EmptySeq
  <2>3. 0 <= Len(s) /\ 0 \in 0..N
    BY <1>3, NumberTypes
  <2>. QED  BY <2>1, <2>2, <2>3
<1>5. ASSUME NEW m \in 0..(N - 1), m \in T PROVE m + 1 \in T
  <2>1. upTo[m + 1] = Longer(v.fat, first, upTo[m]) /\ m + 1 \in 0..N /\ m \in Nat
    BY <1>1, NumberTypes DEF Links
  <2>2. CASE m < Len(s)
    <3> DEFINE t == SubSeq(s, 1, m)
    <3>1. upTo[m] = t
      BY <1>3, <1>5, <2>1, <2>2
    <3>2. /\ t \in Seq(Clusters) /\ Len(t) = m /\ \A i \in 1..m : t[i] = s[i]
          /\ SubSeq(s, 1, m + 1) = Append(t, s[m + 1])
      BY <1>3, <2>1, <2>2
    <3>3. s[m + 1] \in Clusters
      BY <1>3, <2>1, <2>2
    <3> HIDE DEF t
    <3>4. s[m + 1] = IF t = << >> THEN first ELSE v.fat[Last(t)]
      <4>1. CASE m = 0
        <5>1. t = << >> /\ s # << >>
          BY <1>3, <2>2, <3>2, <4>1, EmptySeq
        <5>. QED  BY <4>1, <5>1 DEF LinkedFrom
      <4>2. CASE m # 0
        <5>1. t # << >> /\ Last(t) = s[m]
          BY <2>1, <3>2, <4>2, LastOf
        <5>2. m \in 1..(Len(s) - 1)
          BY <1>3, <2>1, <2>2, <4>2
        <5>. QED  BY <5>1, <5>2 DEF LinkedFrom
      <4>. QED  BY <4>1, <4>2
    <3>5. upTo[m + 1] = SubSeq(s, 1, m + 1)
      BY <2>1, <3>1, <3>2, <3>3, <3>4 DEF Longer
    <3>. QED  BY <1>3, <2>1, <2>2, <3>5
  <2>3. CASE ~(m < Len(s))
    <3>1. upTo[m] = s
      <4>1. m = Len(s) => SubSeq(s, 1, m) = s
        BY <1>3
      <4>. QED  BY <1>3, <1>5, <2>1, <2>3, <4>1
    <3>2. Longer(v.fat, first, s) = s
      BY DEF Longer
    <3>3. ~(m + 1 <= Len(s))
      BY <1>3, <2>1, <2>3
    <3>. QED  BY <2>1, <3>1, <3>2, <3>3
  <2>. QED  BY <2>2, <2>3
<1>6. \A m \in 0..N : m \in T
  <2> HIDE DEF T
  <2>. QED  BY <1>4, <1>5, UpTo, NumberTypes
<1>7. N \in T
  BY <1>6, NumberTypes
<1>8. N = Len(s) => SubSeq(s, 1, N) = s
  BY <1>3
<1>. QED  BY <1>2, <1>3, <1>7, <1>8, NumberTypes

----------------------------------------------------------------------------
(* Places of entries.                                                      *)
LEMMA Quotient ==
    ASSUME NEW a \in Nat, NEW b \in Nat \ {0}, NEW l \in Nat, a < l * b
    PROVE  a \div b \in 0..(l - 1) /\ a % b \in 0..(b - 1)
<1> DEFINE q == a \div b
           r == a % b
<1>1. q \in Int /\ r \in 0..(b - 1) /\ a = b * q + r
  OBVIOUS
<1> HIDE DEF q, r
<1>2. q >= 0
  <2>1. CASE q <= -1
    <3>1. b * q <= -b
      BY <1>1, <2>1
    <3>. QED  BY <1>1, <3>1
  <2>. QED  BY <1>1, <2>1
<1>3. q < l
  <2>1. CASE q >= l
    <3>1. b * q >= l * b
      BY <1>1, <2>1
    <3>. QED  BY <1>1, <3>1
  <2>. QED  BY <1>1, <2>1
<1>4. q \in 0..(l - 1) /\ r \in 0..(b - 1)
  BY <1>1, <1>2, <1>3
<1>. QED  BY <1>4 DEF q, r

PlacesOK(v, dir) ==
    /\ DOMAIN Places(v, dir) \in SUBSET Nat
    /\ \A i \in DOMAIN Places(v, dir) :
          \E c \in 0..(N + 1) : \E s \in SlotsOf(c) : Places(v, dir)[i] = <<c, s>>

LEMMA PlacesThere ==
    ASSUME NEW v, NEW dir
    PROVE  PlacesOK(v, dir)
<1>1. CASE dir = Root
  <2>1. Places(v, dir) = [i \in 1..RootSlots |-> <<Root, i>>]
    BY <1>1 DEF Places
  <2>2. Root \in 0..(N + 1) /\ SlotsOf(Root) = 1..RootSlots
    BY NumberTypes DEF Root, SlotsOf
  <2>. QED  BY <2>1, <2>2, NumberTypes DEF PlacesOK
<1>2. CASE dir # Root
  <2> DEFINE chain == Chain(v, dir)
             l == Len(chain)
  <2>1. chain \in Seq(Clusters) /\ l \in Nat /\ \A k \in 1..l : chain[k] \in Clusters
    BY ChainInClusters
  <2>2. Places(v, dir) = PlacesIn(chain)
    BY <1>2 DEF Places
  <2> HIDE DEF chain
  <2>3. /\ DOMAIN PlacesIn(chain) = 1..(l * DirSlots)
        /\ \A i \in 1..(l * DirSlots) :
              PlacesIn(chain)[i] = <<chain[((i - 1) \div DirSlots) + 1], ((i - 1) % DirSlots) + 1>>
    BY DEF PlacesIn
  <2>4. ASSUME NEW i \in 1..(l * DirSlots)
        PROVE  \E c \in 0..(N + 1) : \E s \in SlotsOf(c) : PlacesIn(chain)[i] = <<c, s>>
    <3> DEFINE c == chain[((i - 1) \div DirSlots) + 1]
               s == ((i - 1) % DirSlots) + 1
    <3>1. l * DirSlots \in Nat
      BY <2>1, NumberTypes
    <3>2. (i - 1) \in Nat /\ i - 1 < l * DirSlots /\ DirSlots \in Nat \ {0}
      BY <3>1, NumberTypes
    <3> HIDE DEF l
    <3>3. (i - 1) \div DirSlots \in 0..(l - 1) /\ (i - 1) % DirSlots \in 0..(DirSlots - 1)
      BY <3>2, <2>1, Quotient
    <3>4. ((i - 1) \div DirSlots) + 1 \in 1..l /\ s \in 1..DirSlots
      BY <3>3, <2>1, NumberTypes
    <3>5. c \in Clusters
      BY <3>4, <2>1
    <3>6. c \in 0..(N + 1) /\ s \in SlotsOf(c)
      BY <3>4, <3>5, NumberTypes DEF SlotsOf, Root
    <3>. QED  BY <2>3, <3>6
  <2>5. DOMAIN PlacesIn(chain) \in SUBSET Nat
    BY <2>3
  <2>. QED  BY <2>2, <2>3, <2>4, <2>5 DEF PlacesOK
<1>. QED  BY <1>1, <1>2

----------------------------------------------------------------------------
(* Short names.                                                            *)
LEMMA ImageFew ==
    ASSUME NEW f, NEW S, IsFiniteSet(S)
    PROVE  IsFiniteSet({f[x] : x \in S}) /\ Cardinality({f[x] : x \in S}) <= Cardinality(S)
<1> DEFINE T == {f[x] : x \in S}
           g == [x \in S |-> f[x]]
<1>1. g \in Surjection(S, T)
  BY DEF Surjection
<1>. QED  BY <1>1, FS_Surjection

LEMMA MostPlaces ==
    /\ N * DirSlots \in Nat /\ (N * DirSlots) + RootSlots \in Nat
    /\ \A l \in 0..N : l * DirSlots \in 0..(N * DirSlots)
<1>1. ASSUME NEW l \in 0..N PROVE l * DirSlots \in 0..(N * DirSlots)
  BY NumberTypes
<1>. QED  BY <1>1, NumberTypes

LEMMA PlacesFew ==
    ASSUME NEW v, NEW dir
    PROVE  \E m \in 0..((N * DirSlots) + RootSlots) : DOMAIN Places(v, dir) = 1..m
<1>1. CASE dir = Root
  BY <1>1, NumberTypes, MostPlaces DEF Places
<1>2. CASE dir # Root
  <2> DEFINE l == Len(Chain(v, dir))
  <2>1. l \in 0..N
    BY ChainGives
  <2>2. DOMAIN Places(v, dir) = 1..(l * DirSlots)
    BY <1>2 DEF Places, PlacesIn
  <2> HIDE DEF l
  <2>3. l * DirSlots \in 0..(N * DirSlots)
    BY <2>1, MostPlaces
  <2>. QED  BY <2>2, <2>3, NumberTypes, MostPlaces
<1>. QED  BY <1>1, <1>2

LEMMA TakenFew ==
    ASSUME NEW v, NEW dir
    PROVE  /\ IsFiniteSet(Taken(v, dir))
           /\ Cardinality(Taken(v, dir)) \in 0..((N * DirSlots) + RootSlots)
<1> DEFINE places == Places(v, dir)
           J == {j \in DOMAIN places : /\ EntryAt(v, places[j]).kind # "deleted"
                                       /\ \A k \in 1..j : EntryAt(v, places[k]).kind # "never"}
           f == [j \in J |-> EntryAt(v, places[j]).name]
<1>1. PICK m \in 0..((N * DirSlots) + RootSlots) : DOMAIN places = 1..m
  BY PlacesFew
<1>2. Taken(v, dir) = {f[j] : j \in J}
  BY DEF Taken, List, InUse
<1>3. J \in SUBSET (1..m)
  BY <1>1
<1> HIDE DEF J, f
<1>4. IsFiniteSet(1..m) /\ Cardinality(1..m) = m /\ m \in Nat
  BY <1>1, FS_Interval, MostPlaces
<1>5. IsFiniteSet(J) /\ Cardinality(J) <= m
  BY <1>3, <1>4, FS_Subset
<1>6. IsFiniteSet(Taken(v, dir)) /\ Cardinality(Taken(v, dir)) <= Cardinality(J)
  BY <1>2, <1>5, ImageFew
<1>7. Cardinality(Taken(v, dir)) \in Nat /\ Cardinality(J) \in Nat
  BY <1>5, <1>6, FS_CardinalityType
<1>. QED  BY <1>1, <1>5, <1>6, <1>7, MostPlaces

\* A name for the drive is not taken, and a long name is always numbered.
LEMMA ShortNameGives ==
    ASSUME NEW v, NEW dir, NEW name, name.stem \in Names
    PROVE  LET short == ShortName(name, Taken(v, dir))
           IN  /\ short \in OnDrive /\ short \notin Taken(v, dir) /\ short[1] = name.stem
               /\ name.kind = "long" => short[2] # 0
<1> DEFINE taken == Taken(v, dir)
           m == Cardinality(taken) + 1
           fits == name.kind # "long" /\ <<name.stem, 0>> \notin taken
           untaken == {n \in 1..m : <<name.stem, n>> \notin taken}
           short == ShortName(name, taken)
<1>1. IsFiniteSet(taken) /\ m \in 1..((N * DirSlots) + RootSlots + 1) /\ m \in Nat
  BY TakenFew, MostPlaces
<1>2. untaken # {}
  <2>1. SUFFICES ASSUME untaken = {} PROVE FALSE
    OBVIOUS
  <2> DEFINE f == [n \in 1..m |-> <<name.stem, n>>]
  <2>2. f \in [1..m -> taken]
    BY <2>1
  <2>3. IsFiniteSet(1..m) /\ Cardinality(1..m) = m /\ Cardinality(taken) < m
    BY <1>1, FS_Interval, FS_CardinalityType
  <2> HIDE DEF m, taken
  <2>4. \E x, y \in 1..m : x # y /\ f[x] = f[y]
    <3> HIDE DEF f
    <3>. QED  BY <1>1, <2>2, <2>3, FS_PigeonHole
  <2>. QED  BY <2>4
<1>3. short = <<name.stem, IF fits THEN 0 ELSE Min(untaken)>>
  BY DEF ShortName
<1>4. Min(untaken) \in untaken
  <2>1. untaken \in SUBSET Nat
    OBVIOUS
  <2> HIDE DEF untaken
  <2>2. PICK x \in untaken : \A y \in untaken : x <= y
    BY <1>2, <2>1, FirstOfMany
  <2>. QED  BY <2>2 DEF Min
<1>5. Min(untaken) \in 1..m /\ <<name.stem, Min(untaken)>> \notin taken
  BY <1>4
<1> HIDE DEF taken, m, untaken, short
<1>6. CASE fits
  <2>1. short = <<name.stem, 0>>
    BY <1>3, <1>6
  <2>2. 0 \in 0..((N * DirSlots) + RootSlots + 1)
    BY MostPlaces
  <2>. QED  BY <1>6, <2>1, <2>2 DEF OnDrive, taken, short
<1>7. CASE ~fits
  <2>1. short = <<name.stem, Min(untaken)>>
    BY <1>3, <1>7
  <2>2. Min(untaken) \in 0..((N * DirSlots) + RootSlots + 1) /\ Min(untaken) # 0
    BY <1>1, <1>5, MostPlaces
  <2>. QED  BY <1>5, <2>1, <2>2 DEF OnDrive, taken, short
<1>. QED  BY <1>6, <1>7

LEMMA NamesGiven ==
    /\ {"", ".", ".."} \subseteq Names
    /\ \A name \in AllNames : name.stem \in Names \ {".", ".."}
    /\ \A stem \in Names : <<stem, 0>> \in OnDrive
<1>1. {"", ".", ".."} \subseteq Names /\ \A name \in AllNames : name.stem \in Names
  BY DEF Names
<1>2. \A name \in AllNames : name.stem \notin {".", ".."}
  BY NameAssumption
<1>3. 0 \in 0..((N * DirSlots) + RootSlots + 1)
  BY MostPlaces
<1>4. \A stem \in Names : <<stem, 0>> \in OnDrive
  BY <1>3 DEF OnDrive
<1>. QED  BY <1>1, <1>2, <1>4

LEMMA EmptyFine == FineEntry(Never) /\ FineEntry(Deleted)
<1>1. <<"", 0>> \in OnDrive
  BY NamesGiven
<1>. QED  BY <1>1 DEF FineEntry, Never, Deleted, Entry

----------------------------------------------------------------------------
(* Entries that are there.                                                 *)
LEMMA EntryIsFine ==
    ASSUME NEW v, Volume(v), NEW c \in 0..(N + 1), NEW s \in SlotsOf(c)
    PROVE  FineEntry(EntryAt(v, <<c, s>>))
  BY DEF Volume, FineContent, EntryAt

\* What is listed is at a place of the directory, and what is found is listed.
LEMMA Listed ==
    ASSUME NEW v, NEW dir, NEW p \in List(v, dir)
    PROVE  /\ \E i \in DOMAIN Places(v, dir) : Places(v, dir)[i] = p
           /\ \E c \in 0..(N + 1) : \E s \in SlotsOf(c) : p = <<c, s>>
<1>1. PICK i \in DOMAIN Places(v, dir) : Places(v, dir)[i] = p
  BY DEF List, InUse
<1>. QED  BY <1>1, PlacesThere DEF PlacesOK

LEMMA ExistingThere ==
    ASSUME NEW v, NEW dir, NEW name, NEW kind \in {"file", "dir"}, Existing(v, dir, name, kind) # << >>
    PROVE  LET p == Head(Existing(v, dir, name, kind))
           IN  /\ Existing(v, dir, name, kind) = <<p>> /\ p \in List(v, dir)
               /\ EntryAt(v, p).kind = kind /\ IsName(name, EntryAt(v, p).name)
<1> DEFINE places == Places(v, dir)
           some == {p \in List(v, dir) : EntryAt(v, p).kind = kind /\ IsName(name, EntryAt(v, p).name)}
           there == Existing(v, dir, name, kind)
<1>1. there = FirstOf(places, some)
  BY DEF Existing
<1>2. DOMAIN places \in SUBSET Nat
  BY PlacesThere DEF PlacesOK
<1> HIDE DEF places, some, there
<1>3. \/ there = << >>
      \/ \E i \in DOMAIN places : places[i] \in some /\ there = <<places[i]>>
  BY <1>1, <1>2, FirstOfFound
<1>4. ASSUME NEW p \in some, there = <<p>>
      PROVE  /\ there = <<Head(there)>> /\ Head(there) \in List(v, dir)
             /\ EntryAt(v, Head(there)).kind = kind /\ IsName(name, EntryAt(v, Head(there)).name)
  <2>1. Head(there) = p
    BY <1>4
  <2>. QED  BY <1>4, <2>1 DEF some
<1>. QED  BY <1>3, <1>4 DEF there

LEMMA ExistingIsFine ==
    ASSUME NEW v, Volume(v), NEW dir, NEW name, NEW kind \in {"file", "dir"}, name.stem \notin {".", ".."},
           Existing(v, dir, name, kind) # << >>
    PROVE  LET e == EntryAt(v, Head(Existing(v, dir, name, kind)))
           IN  FineEntry(e) /\ (kind = "dir" => e.first \in Clusters)
<1> DEFINE p == Head(Existing(v, dir, name, kind))
<1>1. p \in List(v, dir) /\ EntryAt(v, p).kind = kind /\ IsName(name, EntryAt(v, p).name)
  BY ExistingThere
<1> HIDE DEF p
<1>2. \E c \in 0..(N + 1) : \E s \in SlotsOf(c) : p = <<c, s>>
  BY <1>1, Listed
<1>3. FineEntry(EntryAt(v, p))
  BY <1>2, EntryIsFine
<1>4. EntryAt(v, p).name[1] = name.stem
  BY <1>1 DEF IsName
<1>. QED  BY <1>1, <1>3, <1>4 DEF FineEntry, p

RootFull(v) == \A i \in 1..RootSlots : EntryAt(v, <<Root, i>>).kind \in {"file", "dir"}

LEMMA NoOpenPlace ==
    ASSUME NEW v, Volume(v), OpenPlace(v, Root) = << >>
    PROVE  RootFull(v)
<1> DEFINE places == Places(v, Root)
           some == {p \in ToSet(places) : EntryAt(v, p).kind \in {"never", "deleted"}}
<1>1. places = [i \in 1..RootSlots |-> <<Root, i>>]
  BY DEF Places
<1>2. FirstOf(places, some) = << >>
  BY DEF OpenPlace
<1>3. \A i \in DOMAIN places : places[i] \notin some
  <2>1. DOMAIN places \in SUBSET Nat
    BY PlacesThere DEF PlacesOK
  <2> HIDE DEF places, some
  <2>2. \/ \A i \in DOMAIN places : places[i] \notin some
        \/ \E i \in DOMAIN places : FirstOf(places, some) = <<places[i]>>
    BY <2>1, FirstOfFound
  <2>. QED  BY <1>2, <2>2
<1>4. ASSUME NEW i \in 1..RootSlots
      PROVE  EntryAt(v, <<Root, i>>).kind \in {"file", "dir"}
  <2>1. places[i] = <<Root, i>> /\ i \in DOMAIN places
    BY <1>1
  <2>2. <<Root, i>> \in ToSet(places)
    <3> HIDE DEF places
    <3>. QED  BY <2>1 DEF ToSet
  <2>3. EntryAt(v, <<Root, i>>).kind \notin {"never", "deleted"}
    BY <2>1, <2>2, <1>3
  <2>4. Root \in 0..(N + 1) /\ i \in SlotsOf(Root)
    BY NumberTypes DEF Root, SlotsOf
  <2>. QED  BY <2>3, <2>4, EntryIsFine DEF FineEntry
<1>. QED  BY <1>4 DEF RootFull

----------------------------------------------------------------------------
(* What the operations on directories take of the free space.              *)
LEMMA SpaceKept ==
    ASSUME NEW v, NEW w, w.fat = v.fat
    PROVE  Space(w) = Space(v)
  BY DEF Space, FreeClusters

LEMMA EmptiedKeeps ==
    ASSUME NEW content, FineContent(content), NEW c \in Clusters, NEW empty,
           {"entries", "piece"} \subseteq DOMAIN empty, empty.entries = [i \in 1..DirSlots |-> Never]
    PROVE  FineContent([content EXCEPT ![c] = empty])
<1> DEFINE new == [content EXCEPT ![c] = empty]
<1>1. c # Root
  BY NumberTypes DEF Root
<1>2. ASSUME NEW d \in 0..(N + 1)
      PROVE  /\ d \in DOMAIN new /\ {"entries", "piece"} \subseteq DOMAIN new[d]
             /\ \A s \in SlotsOf(d) : s \in DOMAIN new[d].entries /\ FineEntry(new[d].entries[s])
  <2>1. d \in DOMAIN content
    BY DEF FineContent
  <2>2. CASE d = c
    <3>1. new[d] = empty
      BY <2>1, <2>2
    <3>2. SlotsOf(d) = 1..DirSlots
      BY <1>1, <2>2 DEF SlotsOf
    <3>3. FineEntry(Never)
      BY EmptyFine
    <3>5. d \in DOMAIN new
      BY <2>1
    <3> HIDE DEF new
    <3>. QED  BY <3>1, <3>2, <3>3, <3>5
  <2>3. CASE d # c
    <3>1. new[d] = content[d] /\ d \in DOMAIN new
      BY <2>1, <2>3
    <3> HIDE DEF new
    <3>. QED  BY <3>1 DEF FineContent
  <2>. QED  BY <2>2, <2>3
<1> HIDE DEF new
<1>3. FineContent(new)
  BY <1>2 DEF FineContent
<1>. QED  BY <1>3 DEF new

LEMMA ZeroedKeeps ==
    ASSUME NEW content, FineContent(content), NEW c \in Clusters
    PROVE  FineContent([content EXCEPT ![c] = Zeroed])
<1>1. {"entries", "piece"} \subseteq DOMAIN Zeroed /\ Zeroed.entries = [i \in 1..DirSlots |-> Never]
  BY DEF Zeroed, Holding
<1>. QED  BY <1>1, EmptiedKeeps

LEMMA PieceKeeps ==
    ASSUME NEW content, FineContent(content), NEW c \in Clusters, NEW version, NEW i
    PROVE  FineContent([content EXCEPT ![c] = Piece(version, i)])
<1> DEFINE piece == Piece(version, i)
<1>1. {"entries", "piece"} \subseteq DOMAIN piece /\ piece.entries = [s \in 1..DirSlots |-> Never]
  BY DEF Piece, Holding
<1> HIDE DEF piece
<1>2. FineContent([content EXCEPT ![c] = piece])
  BY <1>1, EmptiedKeeps
<1>. QED  BY <1>2 DEF piece

LEMMA LinkKeeps ==
    ASSUME NEW u, NEW w, u.fat \in Fats, NEW c \in Clusters, NEW x, x \in Clusters => u.fat[x] # Free,
           w.fat = [u.fat EXCEPT ![x] = c]
    PROVE  w.fat \in Fats /\ Space(w) = Space(u)
<1>1. c \in 0..Eoc /\ c # Free
  BY NumberTypes DEF Free
<1>2. w.fat \in Fats
  BY <1>1 DEF Fats
<1>3. ASSUME NEW d \in Clusters PROVE w.fat[d] = Free <=> u.fat[d] = Free
  BY <1>1, NumberTypes DEF Fats
<1>4. FreeClusters(w) = FreeClusters(u)
  BY <1>3 DEF FreeClusters
<1>. QED  BY <1>2, <1>4 DEF Space

LEMMA FreeSlotGives ==
    ASSUME NEW v, Volume(v), NEW dir
    PROVE  LET r == FreeSlot(v, dir)
           IN  \/ r.ok /\ Volume(r.vol) /\ Space(r.vol) >= Space(v) - (IF dir = Root THEN 0 ELSE 1)
               \/ ~r.ok /\ r.vol = v /\ (IF dir = Root THEN RootFull(v) ELSE Space(v) = 0)
<1> DEFINE r == FreeSlot(v, dir)
           a == AllocCluster(v)
           open == OpenPlace(v, dir)
<1>1. Space(v) \in Nat
  BY FreeFinite
<1>2. CASE open # << >>
  <2>1. r = Returned(v, Head(open))
    BY <1>2 DEF FreeSlot
  <2>2. r.ok /\ r.vol = v
    BY <2>1 DEF Returned
  <2>. QED  BY <1>1, <2>2
<1>3. CASE open = << >> /\ dir = Root
  <2>1. r = Thrown(v)
    BY <1>3 DEF FreeSlot
  <2>2. ~r.ok /\ r.vol = v
    BY <2>1 DEF Thrown
  <2>. QED  BY <1>3, <2>2, NoOpenPlace
<1>4. CASE open = << >> /\ dir # Root /\ ~a.ok
  <2>1. r = a
    BY <1>4 DEF FreeSlot, Then
  <2>2. a = Thrown(v) /\ Space(v) = 0
    BY <1>4, AllocClusterGives
  <2>3. ~r.ok /\ r.vol = v
    BY <2>1, <2>2 DEF Thrown
  <2>. QED  BY <1>4, <2>2, <2>3
<1>5. CASE open = << >> /\ dir # Root /\ a.ok
  <2> DEFINE last == Last(Chain(v, dir))
             end == IF v.fat[last] = Free THEN 0 ELSE last
             w == [a.vol EXCEPT !.fat[end] = a.got, !.content[a.got] = Zeroed]
  <2>1. r = Returned(w, <<a.got, 1>>)
    BY <1>5 DEF FreeSlot, Then
  <2>2. /\ a.got \in FreeClusters(v) /\ Volume(a.vol) /\ Space(a.vol) = Space(v) - 1
        /\ a.vol = [v EXCEPT !.hint = a.got + 1, !.fat[a.got] = Eoc]
    <3>1. ~Thrown(v).ok
      BY DEF Thrown
    <3>2. a # Thrown(v)
      BY <1>5, <3>1
    <3>. QED  BY <3>2, AllocClusterGives
  <2>3. a.vol.fat = [v.fat EXCEPT ![a.got] = Eoc]
    BY <2>2 DEF Volume, HasFields
  <2> HIDE DEF a, end
  <2>4. /\ HasFields(w) /\ w.hint = a.vol.hint /\ w.fat = [a.vol.fat EXCEPT ![end] = a.got]
        /\ w.content = [a.vol.content EXCEPT ![a.got] = Zeroed]
    BY <2>2 DEF Volume, HasFields
  <2>5. a.got \in Clusters /\ a.got \in 0..Eoc /\ a.got # Free
    BY <2>2, NumberTypes DEF FreeClusters, Free
  <2> HIDE DEF w
  <2>6. FineContent(w.content)
    <3>1. FineContent(a.vol.content)
      BY <2>2 DEF Volume
    <3>. QED  BY <2>4, <2>5, <3>1, ZeroedKeeps
  <2>7. end \in Clusters => a.vol.fat[end] # Free
    <3>1. v.fat \in Fats
      BY DEF Volume
    <3>2. end \in Clusters => v.fat[end] # Free
      BY NumberTypes DEF end
    <3>. QED  BY <2>3, <3>1, <3>2, NumberTypes DEF Fats, Free
  <2>8. w.fat \in Fats /\ Space(w) = Space(v) - 1
    <3>1. a.vol.fat \in Fats
      BY <2>2 DEF Volume
    <3>2. w.fat \in Fats /\ Space(w) = Space(a.vol)
      BY <2>4, <2>5, <2>7, <3>1, LinkKeeps
    <3>. QED  BY <2>2, <3>2
  <2>9. Volume(w)
    BY <2>2, <2>4, <2>6, <2>8 DEF Volume
  <2>11. r.ok /\ r.vol = w
    BY <2>1 DEF Returned
  <2>. QED  BY <1>1, <1>5, <2>8, <2>9, <2>11
<1>. QED  BY <1>2, <1>3, <1>4, <1>5

LEMMA WriteEntryKeeps ==
    ASSUME NEW v, Volume(v), NEW place, NEW e, FineEntry(e)
    PROVE  Volume(WriteEntry(v, place, e)) /\ WriteEntry(v, place, e).fat = v.fat
<1> DEFINE w == WriteEntry(v, place, e)
           a == place[1]
           b == place[2]
<1>1. /\ HasFields(w) /\ w.fat = v.fat /\ w.hint = v.hint
      /\ w.content = [v.content EXCEPT ![a].entries[b] = e]
  BY DEF Volume, HasFields, WriteEntry
<1> HIDE DEF w, a, b
<1>2. ASSUME NEW d \in 0..(N + 1)
      PROVE  /\ d \in DOMAIN w.content /\ {"entries", "piece"} \subseteq DOMAIN w.content[d]
             /\ \A s \in SlotsOf(d) : s \in DOMAIN w.content[d].entries
                                      /\ FineEntry(w.content[d].entries[s])
  <2>1. /\ d \in DOMAIN v.content /\ {"entries", "piece"} \subseteq DOMAIN v.content[d]
        /\ \A s \in SlotsOf(d) : s \in DOMAIN v.content[d].entries
                                 /\ FineEntry(v.content[d].entries[s])
    BY DEF Volume, FineContent
  <2>2. CASE d = a
    <3>1. d \in DOMAIN w.content /\ w.content[d] = [v.content[d] EXCEPT !.entries[b] = e]
      BY <1>1, <2>1, <2>2
    <3>2. {"entries", "piece"} \subseteq DOMAIN w.content[d] /\ w.content[d].entries = [v.content[d].entries EXCEPT ![b] = e]
      BY <2>1, <3>1
    <3>. QED  BY <2>1, <3>1, <3>2
  <2>3. CASE d # a
    <3>1. d \in DOMAIN w.content /\ w.content[d] = v.content[d]
      BY <1>1, <2>1, <2>3
    <3>. QED  BY <2>1, <3>1
  <2>. QED  BY <2>2, <2>3
<1>3. FineContent(w.content)
  BY <1>2 DEF FineContent
<1>. QED  BY <1>1, <1>3 DEF Volume, w

LEMMA DotsKeep ==
    ASSUME NEW v, Volume(v), NEW c \in Clusters, NEW parent \in {Root} \union Clusters
    PROVE  LET w == [v EXCEPT !.content[c].entries = Dots(c, parent)]
           IN  Volume(w) /\ w.fat = v.fat
<1> DEFINE w == [v EXCEPT !.content[c].entries = Dots(c, parent)]
<1>1. /\ HasFields(w) /\ w.fat = v.fat /\ w.hint = v.hint
      /\ w.content = [v.content EXCEPT ![c].entries = Dots(c, parent)]
  BY DEF Volume, HasFields
<1> HIDE DEF w
<1>2. ASSUME NEW d \in 0..(N + 1)
      PROVE  /\ d \in DOMAIN w.content /\ {"entries", "piece"} \subseteq DOMAIN w.content[d]
             /\ \A s \in SlotsOf(d) : s \in DOMAIN w.content[d].entries
                                      /\ FineEntry(w.content[d].entries[s])
  <2>1. /\ d \in DOMAIN v.content /\ {"entries", "piece"} \subseteq DOMAIN v.content[d]
        /\ \A s \in SlotsOf(d) : s \in DOMAIN v.content[d].entries
                                 /\ FineEntry(v.content[d].entries[s])
    BY DEF Volume, FineContent
  <2>2. CASE d = c
    <3>1. d \in DOMAIN w.content /\ w.content[d] = [v.content[d] EXCEPT !.entries = Dots(c, parent)]
      BY <1>1, <2>1, <2>2
    <3>2. {"entries", "piece"} \subseteq DOMAIN w.content[d] /\ w.content[d].entries = Dots(c, parent)
      BY <2>1, <3>1
    <3>3. SlotsOf(d) = 1..DirSlots
      BY <2>2, NumberTypes DEF SlotsOf, Root
    <3>4. \A s \in 1..DirSlots : s \in DOMAIN Dots(c, parent) /\ FineEntry(Dots(c, parent)[s])
      BY NamesGiven, EmptyFine DEF Dots, FineEntry, Entry, Root
    <3>. QED  BY <3>1, <3>2, <3>3, <3>4
  <2>3. CASE d # c
    <3>1. d \in DOMAIN w.content /\ w.content[d] = v.content[d]
      BY <1>1, <2>1, <2>3
    <3>. QED  BY <2>1, <3>1
  <2>. QED  BY <2>2, <2>3
<1>3. FineContent(w.content)
  BY <1>2 DEF FineContent
<1>. QED  BY <1>1, <1>3 DEF Volume, w

LEMMA MkdirGives ==
    ASSUME NEW v, Volume(v), NEW dir \in {Root} \union Clusters, NEW name,
           name.stem \in Names \ {".", ".."}
    PROVE  LET r == Mkdir(v, dir, name)
               most == IF dir = Root THEN 1 ELSE 2
           IN  /\ Volume(r.vol)
               /\ \/ r.ok /\ r.got \in Clusters /\ Space(r.vol) >= Space(v) - most
                  \/ ~r.ok /\ (Space(v) < most \/ (dir = Root /\ RootFull(v)))
<1> DEFINE r == Mkdir(v, dir, name)
           most == IF dir = Root THEN 1 ELSE 2
           there == Existing(v, dir, name, "dir")
           a == AllocCluster(v)
           short == ShortName(name, Taken(v, dir))
           z == [a.vol EXCEPT !.content[a.got] = Zeroed]
           f == FreeSlot(z, dir)
           e == Entry("dir", short, a.got, 0)
           w == [WriteEntry(f.vol, f.got, e) EXCEPT !.content[a.got].entries = Dots(a.got, dir)]
<1>1. Space(v) \in Nat /\ most \in Nat
  BY FreeFinite
<1>2. CASE there # << >>
  <2>1. r = Returned(v, EntryAt(v, Head(there)).first)
    BY <1>2 DEF Mkdir
  <2>2. r.ok /\ r.vol = v /\ r.got = EntryAt(v, Head(there)).first
    BY <2>1 DEF Returned
  <2>3. r.got \in Clusters
    BY <1>2, <2>2, ExistingIsFine
  <2> HIDE DEF r, most
  <2>. QED  BY <1>1, <2>2, <2>3 DEF r, most
<1>3. CASE there = << >> /\ ~a.ok
  <2>1. r = a
    BY <1>3 DEF Mkdir, Then
  <2>2. a = Thrown(v) /\ Space(v) = 0
    BY <1>3, AllocClusterGives
  <2>3. ~r.ok /\ r.vol = v
    BY <2>1, <2>2 DEF Thrown
  <2>4. Space(v) < most
    BY <2>2
  <2>. QED  BY <2>3, <2>4
<1>4. CASE there = << >> /\ a.ok
  <2>1. r = Then(f, LAMBDA x, place :
                       Returned([WriteEntry(x, place, e) EXCEPT !.content[a.got].entries = Dots(a.got, dir)],
                                a.got))
    BY <1>4 DEF Mkdir, Then
  <2>2. a.got \in FreeClusters(v) /\ Volume(a.vol) /\ Space(a.vol) = Space(v) - 1
        /\ a.vol.content = v.content
    <3>1. ~Thrown(v).ok
      BY DEF Thrown
    <3>2. a # Thrown(v)
      BY <1>4, <3>1
    <3>. QED  BY <3>2, AllocClusterGives
  <2>3. a.got \in Clusters
    BY <2>2 DEF FreeClusters
  <2> HIDE DEF a
  <2>4. /\ HasFields(z) /\ z.fat = a.vol.fat /\ z.hint = a.vol.hint
        /\ z.content = [v.content EXCEPT ![a.got] = Zeroed]
    BY <2>2 DEF Volume, HasFields
  <2> HIDE DEF z
  <2>5. Volume(z) /\ Space(z) = Space(v) - 1
    <3>1. FineContent(v.content)
      BY DEF Volume
    <3>2. FineContent(z.content)
      BY <2>3, <2>4, <3>1, ZeroedKeeps
    <3>. QED  BY <2>2, <2>4, <3>2, SpaceKept DEF Volume
  <2>6. RootFull(z) => RootFull(v)
    <3>1. Root # a.got /\ Root \in 0..(N + 1)
      BY <2>3, NumberTypes DEF Root
    <3>2. z.content[Root] = v.content[Root]
      BY <2>4, <3>1 DEF Volume, FineContent
    <3>. QED  BY <3>2 DEF RootFull, EntryAt
  <2>7. \/ f.ok /\ Volume(f.vol) /\ Space(f.vol) >= Space(z) - (IF dir = Root THEN 0 ELSE 1)
        \/ ~f.ok /\ f.vol = z /\ (IF dir = Root THEN RootFull(z) ELSE Space(z) = 0)
    BY <2>5, FreeSlotGives
  <2>8. CASE ~f.ok
    <3>1. r = f
      BY <2>1, <2>8 DEF Then
    <3>2. dir = Root => RootFull(v)
      BY <2>6, <2>7, <2>8
    <3>3. dir # Root => Space(v) < most
      BY <1>1, <2>5, <2>7, <2>8
    <3> HIDE DEF f, r, most
    <3>. QED  BY <2>5, <2>7, <2>8, <3>1, <3>2, <3>3 DEF r, most
  <2>9. CASE f.ok
    <3>1. r = Returned(w, a.got)
      BY <2>1, <2>9 DEF Then
    <3>2. FineEntry(e)
      <4>1. short[1] = name.stem /\ short \in OnDrive
        BY ShortNameGives
      <4>2. e.kind = "dir" /\ e.name = short /\ e.first = a.got /\ e.size = 0
        BY DEF Entry
      <4> HIDE DEF e, short
      <4>. QED  BY <2>3, <4>1, <4>2 DEF FineEntry
    <3> DEFINE x == WriteEntry(f.vol, f.got, e)
    <3> HIDE DEF f, e
    <3>3. Volume(x) /\ x.fat = f.vol.fat
      BY <2>7, <2>9, <3>2, WriteEntryKeeps
    <3> HIDE DEF x
    <3>4. Volume(w) /\ w.fat = x.fat
      BY <2>3, <3>3, DotsKeep DEF x
    <3> HIDE DEF w
    <3>5. Space(w) = Space(f.vol)
      BY <3>3, <3>4, SpaceKept
    <3>6. Space(w) \in Nat
      BY FreeFinite
    <3>7. Space(w) >= Space(v) - most
      BY <1>1, <2>5, <2>7, <2>9, <3>5, <3>6
    <3>8. r.ok /\ r.vol = w /\ r.got = a.got
      BY <3>1 DEF Returned
    <3> HIDE DEF r, most
    <3>. QED  BY <2>3, <3>4, <3>7, <3>8 DEF r, most
  <2>. QED  BY <2>8, <2>9
<1>. QED  BY <1>2, <1>3, <1>4

----------------------------------------------------------------------------
(* Files.                                                                  *)
LEMMA FreeChainKeeps ==
    ASSUME NEW v, Volume(v), NEW first
    PROVE  Volume(FreeChain(v, first)) /\ Space(FreeChain(v, first)) >= Space(v)
<1> DEFINE w == FreeChain(v, first)
           chain == ToSet(Chain(v, first))
<1>1. /\ HasFields(w) /\ w.hint = v.hint /\ w.content = v.content
      /\ w.fat = [c \in DOMAIN v.fat |-> IF c \in chain THEN Free ELSE v.fat[c]]
  BY DEF Volume, HasFields, FreeChain
<1> HIDE DEF w, chain
<1>2. v.fat \in Fats /\ Free \in 0..Eoc
  BY NumberTypes DEF Volume, Free
<1>3. w.fat \in Fats /\ \A c \in Clusters : v.fat[c] = Free => w.fat[c] = Free
  BY <1>1, <1>2, NumberTypes DEF Fats
<1>4. FreeClusters(v) \in SUBSET FreeClusters(w)
  BY <1>3 DEF FreeClusters
<1>5. Space(v) <= Space(w) /\ Space(v) \in Nat /\ Space(w) \in Nat
  BY <1>4, FreeFinite, FS_Subset DEF Space
<1>6. Volume(w)
  BY <1>1, <1>3 DEF Volume
<1>. QED  BY <1>5, <1>6 DEF w

(* The clusters of a new file, one after the other.                        *)
AddedPiece(r, a, version, i) ==
    [vol |-> [a.vol EXCEPT !.fat = IF r.last = 0 THEN @ ELSE [@ EXCEPT ![r.last] = a.got],
                           !.content[a.got] = Piece(version, i)],
     first |-> IF r.first = 0 THEN a.got ELSE r.first, last |-> a.got]
PiecesFrom(v, version, with, n) ==
    with = [i \in 0..n |-> IF i = 0 THEN [vol |-> v, first |-> 0, last |-> 0]
                           ELSE AddedPiece(with[i - 1], AllocCluster(with[i - 1].vol), version, i)]

LEMMA PiecesExist ==
    ASSUME NEW v, NEW version, NEW n \in Nat
    PROVE  \E with : PiecesFrom(v, version, with, n)
<1> DEFINE T == {m \in 0..n : \E with : PiecesFrom(v, version, with, m)}
<1>1. 0 \in T
  <2> DEFINE f == [i \in 0..0 |-> [vol |-> v, first |-> 0, last |-> 0]]
  <2>1. PiecesFrom(v, version, f, 0)
    BY DEF PiecesFrom
  <2>. QED  BY <2>1
<1>2. ASSUME NEW m \in 0..(n - 1), m \in T PROVE m + 1 \in T
  <2>1. PICK g : PiecesFrom(v, version, g, m)
    BY <1>2
  <2> DEFINE f == [i \in 0..(m + 1) |-> IF i = 0 THEN [vol |-> v, first |-> 0, last |-> 0]
                                        ELSE AddedPiece(g[i - 1], AllocCluster(g[i - 1].vol), version, i)]
  <2>2. ASSUME NEW i \in 0..m PROVE f[i] = g[i]
    <3>1. g[i] = IF i = 0 THEN [vol |-> v, first |-> 0, last |-> 0]
                 ELSE AddedPiece(g[i - 1], AllocCluster(g[i - 1].vol), version, i)
      BY <2>1 DEF PiecesFrom
    <3>2. i \in 0..(m + 1)
      OBVIOUS
    <3>. QED  BY <3>1, <3>2
  <2>3. ASSUME NEW i \in 0..(m + 1)
        PROVE  f[i] = IF i = 0 THEN [vol |-> v, first |-> 0, last |-> 0]
                      ELSE AddedPiece(f[i - 1], AllocCluster(f[i - 1].vol), version, i)
    <3>1. i = 0 \/ i - 1 \in 0..m
      OBVIOUS
    <3>2. i = 0 \/ f[i - 1] = g[i - 1]
      BY <2>2, <3>1
    <3>. QED  BY <3>2
  <2>4. PiecesFrom(v, version, f, m + 1)
    BY <2>3 DEF PiecesFrom
  <2>. QED  BY <2>4
<1>3. \A m \in 0..n : m \in T
  <2> HIDE DEF T
  <2>. QED  BY <1>1, <1>2, UpTo
<1>. QED  BY <1>3

LEMMA PiecesTakeSpace ==
    ASSUME NEW v, Volume(v), NEW version, NEW n \in Nat, n <= Space(v),
           NEW with, PiecesFrom(v, version, with, n)
    PROVE  \A i \in 0..n : /\ Volume(with[i].vol) /\ Space(with[i].vol) = Space(v) - i
                           /\ with[i].first \in {0} \union Clusters
<1> DEFINE T == {i \in 0..n : /\ Volume(with[i].vol) /\ Space(with[i].vol) = Space(v) - i
                              /\ with[i].first \in {0} \union Clusters
                              /\ with[i].last \in Clusters => with[i].vol.fat[with[i].last] # Free}
<1>0. Space(v) \in Nat
  BY FreeFinite
<1>1. 0 \in T
  <2>1. with[0] = [vol |-> v, first |-> 0, last |-> 0]
    BY DEF PiecesFrom
  <2>. QED  BY <1>0, <2>1, NumberTypes
<1>2. ASSUME NEW i \in 0..(n - 1), i \in T PROVE i + 1 \in T
  <2> DEFINE r == with[i]
             a == AllocCluster(r.vol)
             q == with[i + 1]
  <2>1. q = AddedPiece(r, a, version, i + 1)
    BY DEF PiecesFrom
  <2>2. /\ Volume(r.vol) /\ Space(r.vol) = Space(v) - i
        /\ r.last \in Clusters => r.vol.fat[r.last] # Free
        /\ r.first \in {0} \union Clusters
    BY <1>2
  <2>3. /\ a.got \in FreeClusters(r.vol) /\ Volume(a.vol) /\ Space(a.vol) = Space(r.vol) - 1
        /\ a.vol = [r.vol EXCEPT !.hint = a.got + 1, !.fat[a.got] = Eoc]
    <3>1. Space(r.vol) # 0
      BY <1>0, <2>2
    <3> HIDE DEF r
    <3>. QED  BY <2>2, <3>1, AllocClusterGives
  <2> HIDE DEF r, a, q
  <2>4. a.vol.fat = [r.vol.fat EXCEPT ![a.got] = Eoc]
    BY <2>2, <2>3 DEF Volume, HasFields
  <2>5. a.got \in Clusters
    BY <2>3 DEF FreeClusters
  <2>6. /\ HasFields(q.vol) /\ q.vol.hint = a.vol.hint /\ q.last = a.got
        /\ q.first = IF r.first = 0 THEN a.got ELSE r.first
        /\ q.vol.fat = IF r.last = 0 THEN a.vol.fat ELSE [a.vol.fat EXCEPT ![r.last] = a.got]
        /\ q.vol.content = [a.vol.content EXCEPT ![a.got] = Piece(version, i + 1)]
    BY <2>1, <2>3 DEF AddedPiece, Volume, HasFields
  <2>7. FineContent(q.vol.content)
    <3>1. FineContent(a.vol.content)
      BY <2>3 DEF Volume
    <3>2. FineContent([a.vol.content EXCEPT ![a.got] = Piece(version, i + 1)])
      BY <2>5, <3>1, PieceKeeps
    <3>. QED  BY <2>6, <3>2
  <2>8. r.last \in Clusters => a.vol.fat[r.last] # Free
    BY <2>2, <2>4, NumberTypes DEF Volume, Fats, Free
  <2>9. q.vol.fat \in Fats /\ Space(q.vol) = Space(a.vol)
    <3>0. a.vol.fat \in Fats
      BY <2>3 DEF Volume
    <3>1. CASE r.last = 0
      <4>1. q.vol.fat = a.vol.fat
        BY <2>6, <3>1
      <4>. QED  BY <3>0, <4>1, SpaceKept
    <3>2. CASE r.last # 0
      <4>1. q.vol.fat = [a.vol.fat EXCEPT ![r.last] = a.got]
        BY <2>6, <3>2
      <4>. QED  BY <2>5, <2>8, <3>0, <4>1, LinkKeeps
    <3>. QED  BY <3>1, <3>2
  <2>10. q.vol.fat[a.got] # Free
    <3>1. a.vol.fat \in Fats /\ r.vol.fat \in Fats /\ a.got # Free /\ Eoc # Free
      BY <2>2, <2>3, <2>5, NumberTypes DEF Volume, Free
    <3>2. a.vol.fat[a.got] = Eoc
      BY <2>4, <2>5, <3>1, NumberTypes DEF Fats
    <3>. QED  BY <2>5, <2>6, <3>1, <3>2, NumberTypes DEF Fats
  <2>11. Volume(q.vol)
    BY <2>3, <2>6, <2>7, <2>9 DEF Volume
  <2>12. Space(q.vol) = Space(v) - (i + 1)
    BY <1>0, <2>2, <2>3, <2>9
  <2>13. i + 1 \in 0..n
    OBVIOUS
  <2>14. /\ Volume(q.vol) /\ Space(q.vol) = Space(v) - (i + 1)
         /\ q.last \in Clusters => q.vol.fat[q.last] # Free
         /\ q.first \in {0} \union Clusters
    BY <2>2, <2>5, <2>6, <2>10, <2>11, <2>12
  <2>. QED  BY <2>13, <2>14 DEF q
<1>3. \A i \in 0..n : i \in T
  <2> HIDE DEF T
  <2>. QED  BY <1>1, <1>2, UpTo
<1>. QED  BY <1>3

LEMMA WithPiecesGives ==
    ASSUME NEW v, Volume(v), NEW version, NEW n \in Nat, n <= Space(v)
    PROVE  /\ Volume(WithPieces(v, n, version).vol)
           /\ Space(WithPieces(v, n, version).vol) = Space(v) - n
           /\ WithPieces(v, n, version).first \in {0} \union Clusters
<1> DEFINE with == CHOOSE f : PiecesFrom(v, version, f, n)
<1>1. PiecesFrom(v, version, with, n)
  BY PiecesExist
<1>2. WithPieces(v, n, version) = with[n]
  BY DEF WithPieces, PiecesFrom, AddedPiece
<1> HIDE DEF with
<1>3. n \in 0..n
  OBVIOUS
<1>. QED  BY <1>1, <1>2, <1>3, PiecesTakeSpace

(* A file that is refused, in a directory that can grow, is one that, with *)
(* a cluster for the directory, does not fit.                              *)
LEMMA NewFileGives ==
    ASSUME NEW v, Volume(v), NEW dir, NEW name, name.stem \in Names,
           NEW old, old # << >> => EntryAt(v, Head(old)).name \in OnDrive,
           NEW size \in Nat \intersect AllSizes, NEW version
    PROVE  LET r == NewFile(v, dir, old, name, size, version)
           IN  /\ Volume(r.vol)
               /\ ~r.ok /\ dir # Root => Space(v) < Pieces(size) + 1
<1> DEFINE n == Pieces(size)
           short == IF old # << >> THEN EntryAt(v, Head(old)).name ELSE ShortName(name, Taken(v, dir))
           new == WithPieces(v, n, version)
           e == Entry("file", short, new.first, size)
           f == FreeSlot(new.vol, dir)
           r == NewFile(v, dir, old, name, size, version)
<1>1. n \in Nat /\ Space(v) \in Nat
  <2>1. Space(v) \in Nat
    BY FreeFinite
  <2>2. (size + 1) \div 2 \in Nat
    OBVIOUS
  <2>. QED  BY <2>1, <2>2 DEF Pieces
<1>2. short \in OnDrive
  <2>1. ShortName(name, Taken(v, dir)) \in OnDrive
    BY ShortNameGives
  <2>. QED  BY <2>1
<1>3. CASE n > Space(v)
  <2>1. r = Thrown(v)
    BY <1>3 DEF NewFile, Space
  <2>2. ~r.ok /\ r.vol = v
    BY <2>1 DEF Thrown
  <2>3. Space(v) < n + 1
    BY <1>1, <1>3
  <2>. QED  BY <2>2, <2>3
<1>4. CASE ~(n > Space(v))
  <2>1. r = Entered(new, dir, old, short, size)
    BY <1>4 DEF NewFile, Space
  <2>2. Volume(new.vol) /\ Space(new.vol) = Space(v) - n /\ new.first \in {0} \union Clusters
    <3> HIDE DEF n
    <3>. QED  BY <1>1, <1>4, WithPiecesGives
  <2>7. FineEntry(e)
    <3>1. e.kind = "file" /\ e.name = short /\ e.first = new.first /\ e.size = size
      BY DEF Entry
    <3> HIDE DEF e, short, new
    <3>. QED  BY <1>2, <2>2, <3>1 DEF FineEntry
  <2>3. CASE old # << >>
    <3>1. r = Returned(WriteEntry(new.vol, Head(old), e), short)
      BY <2>1, <2>3 DEF Entered
    <3>2. r.ok /\ r.vol = WriteEntry(new.vol, Head(old), e)
      BY <3>1 DEF Returned
    <3> HIDE DEF r, new, e
    <3>. QED  BY <2>2, <2>7, <3>2, WriteEntryKeeps DEF r
  <2>4. CASE old = << >> /\ f.ok
    <3>1. r = Returned(WriteEntry(f.vol, f.got, e), short)
      BY <2>1, <2>4 DEF Entered, Then
    <3>2. r.ok /\ r.vol = WriteEntry(f.vol, f.got, e)
      BY <3>1 DEF Returned
    <3> HIDE DEF new
    <3>3. Volume(f.vol)
      BY <2>2, <2>4, FreeSlotGives
    <3> HIDE DEF r, e, f
    <3>. QED  BY <2>7, <3>2, <3>3, WriteEntryKeeps DEF r
  <2>5. CASE old = << >> /\ ~f.ok
    <3>1. r = f
      BY <2>1, <2>5 DEF Entered, Then
    <3> HIDE DEF new
    <3>2. f.vol = new.vol /\ (dir # Root => Space(new.vol) = 0)
      BY <2>2, <2>5, FreeSlotGives
    <3>3. dir # Root => Space(v) < n + 1
      BY <1>1, <2>2, <3>2
    <3>4. Volume(r.vol)
      BY <2>2, <3>1, <3>2
    <3>. QED  BY <3>3, <3>4
  <2>. QED  BY <2>3, <2>4, <2>5
<1>. QED  BY <1>3, <1>4

LEMMA WriteFileGives ==
    ASSUME NEW v, Volume(v), NEW dir, NEW name, name.stem \in Names,
           NEW size \in Nat \intersect AllSizes, NEW version
    PROVE  LET r == WriteFile(v, dir, name, size, version)
           IN  /\ Volume(r.vol)
               /\ ~r.ok /\ dir # Root => Space(v) < Pieces(size) + 1
<1> DEFINE old == Existing(v, dir, name, "file")
           freed == IF old # << >> THEN FreeChain(v, EntryAt(v, Head(old)).first) ELSE v
           r == WriteFile(v, dir, name, size, version)
<1>1. Space(v) \in Nat /\ Space(freed) \in Nat
  BY FreeFinite
<1>2. Volume(freed) /\ Space(freed) >= Space(v)
  BY <1>1, FreeChainKeeps
<1>3. r = NewFile(freed, dir, old, name, size, version)
  BY DEF WriteFile
<1>6. old # << >> => EntryAt(freed, Head(old)).name \in OnDrive
  <2>1. freed.content = v.content
    BY DEF Volume, HasFields, FreeChain
  <2>2. old # << >> => IsName(name, EntryAt(v, Head(old)).name)
    BY ExistingThere
  <2> HIDE DEF freed, old
  <2>. QED  BY <2>1, <2>2, NamesGiven DEF EntryAt, IsName
<1> HIDE DEF freed, old
<1>4. /\ Volume(r.vol)
      /\ ~r.ok /\ dir # Root => Space(freed) < Pieces(size) + 1
  BY <1>2, <1>3, <1>6, NewFileGives
<1>5. Pieces(size) \in Nat
  <2>1. (size + 1) \div 2 \in Nat
    OBVIOUS
  <2>. QED  BY <2>1 DEF Pieces
<1>. QED  BY <1>1, <1>2, <1>4, <1>5

----------------------------------------------------------------------------
(* The directories of a path, one in the other.                            *)
Entering(r, key) ==
    IF r.ok
    THEN IF Remembered(r.got.known, key) # {}
         THEN Returned(r.vol, [r.got EXCEPT !.dir = (CHOOSE k \in Remembered(r.got.known, key) : TRUE).dir])
         ELSE Then(Mkdir(r.vol, r.got.dir, Last(key)),
                   LAMBDA w, d : Returned(w, [dir |-> d,
                       known |-> r.got.known \union {[path |-> key, dir |-> d]}]))
    ELSE r
AtHome(v) == Returned(v, [dir |-> job.dir, known |-> job.known])
PathFrom(v, path, after, n) ==
    after = [i \in 0..n |-> IF i = 0 THEN AtHome(v) ELSE Entering(after[i - 1], SubSeq(path, 1, i))]

LEMMA PathExists ==
    ASSUME NEW v, NEW path, NEW n \in Nat
    PROVE  \E after : PathFrom(v, path, after, n)
<1> DEFINE T == {m \in 0..n : \E after : PathFrom(v, path, after, m)}
<1>1. 0 \in T
  <2> DEFINE f == [i \in 0..0 |-> AtHome(v)]
  <2>1. PathFrom(v, path, f, 0)
    BY DEF PathFrom
  <2>. QED  BY <2>1
<1>2. ASSUME NEW m \in 0..(n - 1), m \in T PROVE m + 1 \in T
  <2>1. PICK g : PathFrom(v, path, g, m)
    BY <1>2
  <2> DEFINE f == [i \in 0..(m + 1) |-> IF i = 0 THEN AtHome(v)
                                        ELSE Entering(g[i - 1], SubSeq(path, 1, i))]
  <2>2. ASSUME NEW i \in 0..m PROVE f[i] = g[i]
    <3>1. g[i] = IF i = 0 THEN AtHome(v) ELSE Entering(g[i - 1], SubSeq(path, 1, i))
      BY <2>1 DEF PathFrom
    <3>2. i \in 0..(m + 1)
      OBVIOUS
    <3>. QED  BY <3>1, <3>2
  <2>3. ASSUME NEW i \in 0..(m + 1)
        PROVE  f[i] = IF i = 0 THEN AtHome(v) ELSE Entering(f[i - 1], SubSeq(path, 1, i))
    <3>1. i = 0 \/ i - 1 \in 0..m
      OBVIOUS
    <3>2. i = 0 \/ f[i - 1] = g[i - 1]
      BY <2>2, <3>1
    <3>. QED  BY <3>2
  <2>4. PathFrom(v, path, f, m + 1)
    BY <2>3 DEF PathFrom
  <2>. QED  BY <2>4
<1>3. \A m \in 0..n : m \in T
  <2> HIDE DEF T
  <2>. QED  BY <1>1, <1>2, UpTo
<1>. QED  BY <1>3

Directory(got) == /\ {"dir", "known"} \subseteq DOMAIN got /\ got.dir \in Clusters
                  /\ \A k \in got.known : k.dir \in Clusters
Reached(v, r, i) ==
    /\ Volume(r.vol)
    /\ IF r.ok THEN Directory(r.got) /\ Space(r.vol) >= Space(v) - 2 * i ELSE Space(v) < 2 * i

LEMMA EnteringReaches ==
    ASSUME NEW v, NEW r, NEW i \in Nat, Reached(v, r, i), NEW key, Last(key).stem \in Names \ {".", ".."}
    PROVE  Reached(v, Entering(r, key), i + 1)
<1> DEFINE was == Remembered(r.got.known, key)
           k == CHOOSE x \in was : TRUE
           m == Mkdir(r.vol, r.got.dir, Last(key))
           q == Entering(r, key)
<1>1. Space(v) \in Nat /\ Space(r.vol) \in Nat /\ Space(m.vol) \in Nat
  BY FreeFinite
<1>2. CASE ~r.ok
  <2>1. q = r
    BY <1>2 DEF Entering
  <2>2. Volume(r.vol) /\ Space(v) < 2 * (i + 1)
    BY <1>1, <1>2 DEF Reached
  <2> HIDE DEF q
  <2>3. Reached(v, q, i + 1)
    BY <1>2, <2>1, <2>2 DEF Reached
  <2>. QED  BY <2>3 DEF q
<1>3. CASE r.ok /\ was # {}
  <2>1. q = Returned(r.vol, [r.got EXCEPT !.dir = k.dir])
    BY <1>3 DEF Entering
  <2>2. q.ok /\ q.vol = r.vol /\ q.got = [r.got EXCEPT !.dir = k.dir]
    BY <2>1 DEF Returned
  <2>3. Volume(r.vol) /\ Directory(r.got) /\ Space(r.vol) >= Space(v) - 2 * i
    BY <1>3 DEF Reached
  <2>4. k \in r.got.known
    BY <1>3 DEF Remembered
  <2> HIDE DEF k, q
  <2>5. Directory(q.got)
    BY <2>2, <2>3, <2>4 DEF Directory
  <2>6. Space(r.vol) >= Space(v) - 2 * (i + 1)
    BY <1>1, <2>3
  <2>7. Reached(v, q, i + 1)
    BY <2>2, <2>3, <2>5, <2>6 DEF Reached
  <2>. QED  BY <2>7 DEF q
<1>4. CASE r.ok /\ was = {}
  <2>1. Volume(r.vol) /\ Directory(r.got) /\ Space(r.vol) >= Space(v) - 2 * i
    BY <1>4 DEF Reached
  <2>2. r.got.dir # Root
    BY <2>1, NumberTypes DEF Directory, Root
  <2>3. /\ Volume(m.vol)
        /\ \/ m.ok /\ m.got \in Clusters /\ Space(m.vol) >= Space(r.vol) - 2
           \/ ~m.ok /\ Space(r.vol) < 2
    <3> DEFINE name == Last(key)
    <3> HIDE DEF name
    <3>1. name.stem \in Names \ {".", ".."}
      BY DEF name
    <3>. QED  BY <2>1, <2>2, <3>1, MkdirGives DEF name, Directory
  <2> DEFINE got == [dir |-> m.got, known |-> r.got.known \union {[path |-> key, dir |-> m.got]}]
  <2>4. q = Then(m, LAMBDA w, d : Returned(w, [dir |-> d,
                       known |-> r.got.known \union {[path |-> key, dir |-> d]}]))
    BY <1>4 DEF Entering
  <2>5. CASE m.ok
    <3>1. q = Returned(m.vol, got)
      BY <2>4, <2>5 DEF Then
    <3>2. q.ok /\ q.vol = m.vol /\ q.got = got
      BY <3>1 DEF Returned
    <3> HIDE DEF m, q
    <3>3. Directory(got)
      BY <2>1, <2>3, <2>5 DEF Directory
    <3>4. Space(m.vol) >= Space(v) - 2 * (i + 1)
      BY <1>1, <2>1, <2>3, <2>5
    <3>5. Reached(v, q, i + 1)
      BY <2>3, <3>2, <3>3, <3>4 DEF Reached
    <3>. QED  BY <3>5 DEF q
  <2>6. CASE ~m.ok
    <3>1. q = m
      BY <2>4, <2>6 DEF Then
    <3> HIDE DEF m, q
    <3>2. Space(v) < 2 * (i + 1)
      BY <1>1, <2>1, <2>3, <2>6
    <3>3. Reached(v, q, i + 1)
      BY <2>3, <2>6, <3>1, <3>2 DEF Reached
    <3>. QED  BY <3>3 DEF q
  <2>. QED  BY <2>5, <2>6
<1>. QED  BY <1>2, <1>3, <1>4

LEMMA InDirReaches ==
    ASSUME NEW v, Volume(v), Directory(job), NEW path \in DirPaths
    PROVE  Reached(v, InDir(v, path), Len(path)) /\ Len(path) \in Nat
<1> DEFINE n == Len(path)
           after == CHOOSE f : PathFrom(v, path, f, n)
           T == {i \in 0..n : Reached(v, after[i], i)}
           Parts == {path[i] : i \in DOMAIN path}
<1>1. path \in Seq(Parts)
  BY PathAssumption
<1> HIDE DEF Parts
<1>2. n \in Nat /\ DOMAIN path = 1..n
  BY <1>1
<1>3. \A i \in 1..n : path[i].stem \in Names \ {".", ".."}
  <2>1. \A i \in 1..n : path[i] \in AllNames
    BY <1>2 DEF AllNames, DirNames
  <2>. QED  BY <2>1, NamesGiven
<1>4. ASSUME NEW i \in 1..n PROVE Last(SubSeq(path, 1, i)) = path[i]
  <2>1. SubSeq(path, 1, i) \in Seq(Parts) /\ Len(SubSeq(path, 1, i)) = i /\ SubSeq(path, 1, i)[i] = path[i]
    BY <1>1, <1>2
  <2>. QED  BY <2>1 DEF Last
<1>5. PathFrom(v, path, after, n)
  BY <1>2, PathExists
<1>6. InDir(v, path) = after[n]
  BY DEF InDir, PathFrom, Entering, AtHome
<1> HIDE DEF after
<1>7. 0 \in T
  <2>1. after[0] = AtHome(v)
    BY <1>2, <1>5 DEF PathFrom
  <2>2. AtHome(v).ok /\ AtHome(v).vol = v /\ AtHome(v).got = [dir |-> job.dir, known |-> job.known]
    BY DEF AtHome, Returned
  <2>3. Space(v) \in Nat
    BY FreeFinite
  <2>4. Reached(v, after[0], 0)
    BY <2>1, <2>2, <2>3 DEF Reached, Directory
  <2>. QED  BY <1>2, <2>4
<1>8. ASSUME NEW i \in 0..(n - 1), i \in T PROVE i + 1 \in T
  <2>1. after[i + 1] = Entering(after[i], SubSeq(path, 1, i + 1))
    <3>1. i + 1 \in 0..n /\ i + 1 # 0 /\ (i + 1) - 1 = i
      BY <1>2
    <3> HIDE DEF n
    <3>. QED  BY <1>5, <3>1 DEF PathFrom
  <2>2. i + 1 \in 1..n /\ i \in Nat
    BY <1>2
  <2>3. Last(SubSeq(path, 1, i + 1)).stem \in Names \ {".", ".."}
    BY <1>3, <1>4, <2>2
  <2>4. Reached(v, after[i], i)
    BY <1>8
  <2>5. Reached(v, after[i + 1], i + 1)
    BY <2>1, <2>2, <2>3, <2>4, EnteringReaches
  <2>. QED  BY <2>2, <2>5
<1>9. \A i \in 0..n : i \in T
  <2> HIDE DEF T, n
  <2>. QED  BY <1>2, <1>7, <1>8, UpTo
<1>. QED  BY <1>2, <1>6, <1>9

----------------------------------------------------------------------------
(* A new volume.                                                           *)
LEMMA FormattedIsVolume == Volume(Formatted)
<1>1. Formatted.fat \in Fats /\ Formatted.hint \in 2..Eoc /\ HasFields(Formatted)
  BY NumberTypes DEF Formatted, Fats, Free, HasFields
<1> DEFINE content == Formatted.content
<1>2. content = [c \in 0..(N + 1) |->
                    IF c = Root THEN Holding([i \in 1..RootSlots |-> Never], NoPiece) ELSE Zeroed]
  BY DEF Formatted
<1>3. FineEntry(Never)
  BY EmptyFine
<1>4. ASSUME NEW c \in 0..(N + 1)
      PROVE  /\ c \in DOMAIN content /\ {"entries", "piece"} \subseteq DOMAIN content[c]
             /\ content[c].entries = [s \in SlotsOf(c) |-> Never]
  <2> HIDE DEF content
  <2>1. CASE c = Root
    <3>1. SlotsOf(c) = 1..RootSlots
      BY <2>1 DEF SlotsOf
    <3>2. c \in DOMAIN content /\ content[c] = Holding([i \in 1..RootSlots |-> Never], NoPiece)
      BY <1>2, <2>1
    <3>. QED  BY <3>1, <3>2 DEF Holding
  <2>2. CASE c # Root
    <3>1. SlotsOf(c) = 1..DirSlots
      BY <2>2 DEF SlotsOf
    <3>2. c \in DOMAIN content /\ content[c] = Zeroed
      BY <1>2, <2>2
    <3>. QED  BY <3>1, <3>2 DEF Holding, Zeroed
  <2>. QED  BY <2>1, <2>2
<1> HIDE DEF content
<1>5. FineContent(content)
  BY <1>3, <1>4 DEF FineContent
<1>. QED  BY <1>1, <1>5 DEF Volume, content

Putting(r, file) == IF r.ok THEN WriteFile(r.vol, Root, file.name, file.size, 0) ELSE r
FilledBy(files, with, n) ==
    with = [i \in 0..n |-> IF i = 0 THEN Returned(Formatted, 0) ELSE Putting(with[i - 1], files[i])]

LEMMA FillingExists ==
    ASSUME NEW files, NEW n \in Nat
    PROVE  \E with : FilledBy(files, with, n)
<1> DEFINE T == {m \in 0..n : \E with : FilledBy(files, with, m)}
<1>1. 0 \in T
  <2> DEFINE f == [i \in 0..0 |-> Returned(Formatted, 0)]
  <2>1. FilledBy(files, f, 0)
    BY DEF FilledBy
  <2>. QED  BY <2>1
<1>2. ASSUME NEW m \in 0..(n - 1), m \in T PROVE m + 1 \in T
  <2>1. PICK g : FilledBy(files, g, m)
    BY <1>2
  <2> DEFINE f == [i \in 0..(m + 1) |-> IF i = 0 THEN Returned(Formatted, 0) ELSE Putting(g[i - 1], files[i])]
  <2>2. ASSUME NEW i \in 0..m PROVE f[i] = g[i]
    <3>1. g[i] = IF i = 0 THEN Returned(Formatted, 0) ELSE Putting(g[i - 1], files[i])
      BY <2>1 DEF FilledBy
    <3>2. i \in 0..(m + 1)
      OBVIOUS
    <3>. QED  BY <3>1, <3>2
  <2>3. ASSUME NEW i \in 0..(m + 1)
        PROVE  f[i] = IF i = 0 THEN Returned(Formatted, 0) ELSE Putting(f[i - 1], files[i])
    <3>1. i = 0 \/ i - 1 \in 0..m
      OBVIOUS
    <3>2. i = 0 \/ f[i - 1] = g[i - 1]
      BY <2>2, <3>1
    <3>. QED  BY <3>2
  <2>4. FilledBy(files, f, m + 1)
    BY <2>3 DEF FilledBy
  <2>. QED  BY <2>4
<1>3. \A m \in 0..n : m \in T
  <2> HIDE DEF T
  <2>. QED  BY <1>1, <1>2, UpTo
<1>. QED  BY <1>3

LEMMA FilledIsVolume ==
    ASSUME NEW files \in Volumes
    PROVE  Volume(Filled(files).vol)
<1> DEFINE n == Len(files)
           with == CHOOSE f : FilledBy(files, f, n)
           T == {i \in 0..n : Volume(with[i].vol)}
           Parts == {files[i] : i \in DOMAIN files}
<1>1. files \in Seq(Parts)
  BY FileAssumption
<1> HIDE DEF Parts
<1>2. n \in Nat /\ DOMAIN files = 1..n
  BY <1>1
<1>3. \A i \in 1..n : files[i].size \in Nat \intersect AllSizes /\ files[i].name.stem \in Names
  <2>1. \A i \in 1..n : files[i].size \in Nat
    BY <1>2, FileAssumption
  <2>2. \A i \in 1..n : files[i].size \in AllSizes /\ files[i].name \in AllNames
    BY <1>2 DEF AllSizes, AllNames
  <2>. QED  BY <2>1, <2>2, NamesGiven
<1>4. FilledBy(files, with, n)
  BY <1>2, FillingExists
<1>5. Filled(files) = with[n]
  BY DEF Filled, FilledBy, Putting
<1> HIDE DEF with
<1>6. 0 \in T
  <2>1. with[0].vol = Formatted
    BY <1>2, <1>4 DEF FilledBy, Returned
  <2>. QED  BY <1>2, <2>1, FormattedIsVolume
<1>7. ASSUME NEW i \in 0..(n - 1), i \in T PROVE i + 1 \in T
  <2> DEFINE file == files[i + 1]
  <2>1. with[i + 1] = Putting(with[i], file)
    <3>1. i + 1 \in 0..n /\ i + 1 # 0 /\ (i + 1) - 1 = i
      BY <1>2
    <3> HIDE DEF n
    <3>. QED  BY <1>4, <3>1 DEF FilledBy
  <2>2. i + 1 \in 0..n /\ file.size \in Nat \intersect AllSizes /\ file.name.stem \in Names
    BY <1>2, <1>3
  <2> HIDE DEF file
  <2>3. Volume(with[i + 1].vol)
    BY <1>7, <2>1, <2>2, WriteFileGives DEF Putting
  <2>. QED  BY <2>2, <2>3
<1>8. \A i \in 0..n : i \in T
  <2> HIDE DEF T, n
  <2>. QED  BY <1>2, <1>6, <1>7, UpTo
<1>. QED  BY <1>2, <1>5, <1>8

----------------------------------------------------------------------------
(* The invariant: the volume is one, and while no import is at work the    *)
(* FAT in memory is the one on the drive.                                  *)
SpaceInv ==
    /\ Volume(vol) /\ savedFat \in Fats
    /\ IF job.step = "copying" THEN Directory(job) ELSE vol.fat = savedFat
    /\ {"step", "dir", "known", "placed", "needed"} \subseteq DOMAIN job

LEMMA NamesFine ==
    /\ Games.stem \in Names \ {".", ".."}
    /\ \A name \in Programs : name.stem \in Names \ {".", ".."}
  BY NamesGiven DEF AllNames, DirNames

LEMMA NoJobFields ==
    /\ NoJob.step = "idle" /\ NoJob.dir = Root /\ NoJob.known = {}
    /\ DOMAIN NoJob = {"step", "dir", "known", "placed", "needed"}
  BY DEF NoJob

LEMMA InitSpace == FatInit => SpaceInv
<1> SUFFICES ASSUME FatInit PROVE SpaceInv
  OBVIOUS
<1>1. PICK files \in Volumes :
         \/ vol = Filled(files).vol
         \/ vol = Mkdir(Filled(files).vol, Root, Games).vol
  BY DEF FatInit
<1>2. Volume(vol)
  <2>1. Volume(Mkdir(Filled(files).vol, Root, Games).vol)
    BY FilledIsVolume, NamesFine, MkdirGives
  <2>. QED  BY <1>1, <2>1, FilledIsVolume
<1>3. savedFat = vol.fat /\ job = NoJob
  BY DEF FatInit
<1>4. savedFat \in Fats
  BY <1>2, <1>3 DEF Volume
<1>. QED  BY <1>2, <1>3, <1>4, NoJobFields DEF SpaceInv

LEMMA DroppedIsVolume ==
    ASSUME NEW v, Volume(v), savedFat \in Fats
    PROVE  Volume(Dropped(v)) /\ Dropped(v).fat = savedFat
<1> DEFINE w == Dropped(v)
<1>1. HasFields(w) /\ w.fat = savedFat /\ w.hint = v.hint /\ w.content = v.content
  BY DEF Volume, HasFields, Dropped
<1> HIDE DEF w
<1>2. Volume(w)
  BY <1>1 DEF Volume
<1>. QED  BY <1>1, <1>2 DEF w

\* An import that fails wants more than is free, or an entry of a full root.
Excused == Space(vol) < job'.needed \/ RootFull(vol)

LEMMA StartImportSpace ==
    ASSUME SpaceInv, NEW program \in Programs, StartImport(program)
    PROVE  SpaceInv' /\ (job'.step = "failed" => Excused)
<1> DEFINE a == Mkdir(Mounted, Root, Games)
           r == Then(a, LAMBDA v, games : Mkdir(v, games, program))
           b == Mkdir(a.vol, a.got, program)
<1>1. /\ job.step # "copying" /\ savedFat' = savedFat
      /\ IF r.ok THEN /\ vol' = r.vol
                      /\ job' = [NoJob EXCEPT !.step = "copying", !.dir = r.got]
                 ELSE /\ vol' = Dropped(r.vol)
                      /\ job' = [NoJob EXCEPT !.step = "failed", !.needed = 3]
  BY DEF StartImport
<1>2. Volume(vol) /\ vol.fat = savedFat /\ savedFat \in Fats
  BY <1>1 DEF SpaceInv
<1>3. Volume(Mounted) /\ Space(Mounted) = Space(vol) /\ (RootFull(Mounted) => RootFull(vol))
  <2>1. HasFields(Mounted) /\ Mounted.fat = vol.fat /\ Mounted.hint = 2 /\ Mounted.content = vol.content
    BY <1>2 DEF Mounted, Volume, HasFields
  <2>2. Volume(Mounted)
    BY <1>2, <2>1, NumberTypes DEF Volume
  <2>. QED  BY <2>1, <2>2, SpaceKept DEF RootFull, EntryAt
<1>4. /\ Volume(a.vol)
      /\ \/ a.ok /\ a.got \in Clusters /\ Space(a.vol) >= Space(vol) - 1
         \/ ~a.ok /\ (Space(vol) < 1 \/ RootFull(vol))
  <2>1. /\ Volume(a.vol)
        /\ \/ a.ok /\ a.got \in Clusters /\ Space(a.vol) >= Space(Mounted) - 1
           \/ ~a.ok /\ (Space(Mounted) < 1 \/ RootFull(Mounted))
    BY <1>3, NamesFine, MkdirGives
  <2>. QED  BY <1>3, <2>1
<1>5. Space(vol) \in Nat /\ Space(a.vol) \in Nat
  BY FreeFinite
<1>6. /\ Volume(r.vol)
      /\ \/ r.ok /\ r.got \in Clusters
         \/ ~r.ok /\ (Space(vol) < 3 \/ RootFull(vol))
  <2>1. CASE ~a.ok
    <3>1. r = a
      BY <2>1 DEF Then
    <3> HIDE DEF a, r
    <3>. QED  BY <1>4, <1>5, <2>1, <3>1
  <2>2. CASE a.ok
    <3>1. r = b
      BY <2>2 DEF Then
    <3>2. a.got # Root
      BY <1>4, <2>2, NumberTypes DEF Root
    <3> HIDE DEF a
    <3>3. /\ Volume(b.vol)
          /\ \/ b.ok /\ b.got \in Clusters
             \/ ~b.ok /\ Space(a.vol) < 2
      BY <1>4, <2>2, <3>2, NamesFine, MkdirGives
    <3> HIDE DEF b, r
    <3>. QED  BY <1>4, <1>5, <2>2, <3>1, <3>3
  <2>. QED  BY <2>1, <2>2
<1> HIDE DEF a, r, b
<1>7. CASE r.ok
  <2>1. vol' = r.vol /\ job' = [NoJob EXCEPT !.step = "copying", !.dir = r.got]
    BY <1>1, <1>7
  <2>2. /\ job'.step = "copying" /\ job'.dir = r.got /\ job'.known = {}
        /\ {"step", "dir", "known", "placed", "needed"} \subseteq DOMAIN job'
    BY <2>1, NoJobFields
  <2>3. Volume(vol)' /\ (savedFat \in Fats)'
    BY <1>1, <1>2, <1>6, <2>1 DEF Volume, HasFields, FineContent, FineEntry, SlotsOf
  <2>4. Directory(job)'
    BY <1>6, <1>7, <2>2 DEF Directory
  <2>. QED  BY <2>2, <2>3, <2>4 DEF SpaceInv
<1>8. CASE ~r.ok
  <2>1. vol' = Dropped(r.vol) /\ job' = [NoJob EXCEPT !.step = "failed", !.needed = 3]
    BY <1>1, <1>8
  <2>2. /\ job'.step = "failed" /\ job'.needed = 3
        /\ {"step", "dir", "known", "placed", "needed"} \subseteq DOMAIN job'
    BY <2>1, NoJobFields
  <2>3. Volume(Dropped(r.vol)) /\ Dropped(r.vol).fat = savedFat
    BY <1>2, <1>6, DroppedIsVolume
  <2>4. Volume(vol') /\ savedFat' \in Fats /\ vol'.fat = savedFat'
    BY <1>1, <1>2, <2>1, <2>3
  <2>. QED  BY <1>6, <1>8, <2>2, <2>4 DEF SpaceInv, Excused
<1>. QED  BY <1>7, <1>8

LEMMA ImportFileSpace ==
    ASSUME SpaceInv, NEW path \in DirPaths, NEW name \in FileNames, NEW size \in Sizes, ImportFile(path, name, size)
    PROVE  SpaceInv' /\ (job'.step = "failed" => Excused)
<1> DEFINE n == Len(path)
           at == InDir(vol, path)
           r == Then(at, LAMBDA v, got : WriteFile(v, got.dir, name, size, count.files + 1))
           b == WriteFile(at.vol, at.got.dir, name, size, count.files + 1)
           needed == Pieces(size) + (2 * n) + 1
<1>1. /\ job.step = "copying" /\ savedFat' = savedFat
      /\ IF r.ok THEN /\ vol' = r.vol
                      /\ job' = [job EXCEPT !.known = at.got.known,
                                    !.placed = @ \union {[path |-> path, dir |-> at.got.dir, short |-> r.got]}]
                 ELSE /\ vol' = Dropped(r.vol)
                      /\ job' = [NoJob EXCEPT !.step = "failed", !.needed = needed]
  BY DEF ImportFile
<1>2. /\ Volume(vol) /\ savedFat \in Fats /\ Directory(job)
      /\ {"step", "dir", "known", "placed", "needed"} \subseteq DOMAIN job
  BY <1>1 DEF SpaceInv
<1>3. Reached(vol, at, n) /\ n \in Nat
  BY <1>2, InDirReaches
<1>4. size \in Nat \intersect AllSizes /\ name.stem \in Names
  <2>1. name \in AllNames
    BY DEF AllNames
  <2>. QED  BY <2>1, FileAssumption, NamesGiven DEF AllSizes
<1>5. Pieces(size) \in Nat /\ Space(vol) \in Nat /\ Space(at.vol) \in Nat
  <2>1. (size + 1) \div 2 \in Nat
    BY <1>4
  <2>. QED  BY <2>1, FreeFinite DEF Pieces
<1> HIDE DEF n
<1>6. /\ Volume(r.vol) /\ (r.ok => at.ok)
      /\ r.ok \/ Space(vol) < needed
  <2>1. CASE ~at.ok
    <3>1. r = at
      BY <2>1 DEF Then
    <3> HIDE DEF at, r
    <3>2. Space(vol) < 2 * n /\ Volume(at.vol)
      BY <1>3, <2>1 DEF Reached
    <3>3. Space(vol) < needed
      BY <1>3, <1>5, <3>2
    <3>. QED  BY <2>1, <3>1, <3>2, <3>3
  <2>2. CASE at.ok
    <3>1. r = b
      BY <2>2 DEF Then
    <3> HIDE DEF at
    <3>2. Volume(at.vol) /\ Directory(at.got) /\ Space(at.vol) >= Space(vol) - 2 * n
      BY <1>3, <2>2 DEF Reached
    <3>3. at.got.dir # Root
      BY <3>2, NumberTypes DEF Directory, Root
    <3>4. Volume(b.vol) /\ (~b.ok => Space(at.vol) < Pieces(size) + 1)
      BY <1>4, <3>2, <3>3, WriteFileGives
    <3> HIDE DEF b, r
    <3>5. ~b.ok => Space(vol) < needed
      BY <1>3, <1>5, <3>2, <3>4
    <3>. QED  BY <2>2, <3>1, <3>4, <3>5
  <2>. QED  BY <2>1, <2>2
<1> HIDE DEF at, r, b, needed
<1>7. CASE r.ok
  <2> DEFINE there == {[path |-> path, dir |-> at.got.dir, short |-> r.got]}
  <2>1. vol' = r.vol /\ job' = [job EXCEPT !.known = at.got.known, !.placed = @ \union there]
    BY <1>1, <1>7
  <2>2. Directory(at.got)
    BY <1>3, <1>6, <1>7 DEF Reached
  <2> HIDE DEF there
  <2>3. /\ job'.step = "copying" /\ job'.dir = job.dir /\ job'.known = at.got.known
        /\ {"step", "dir", "known", "placed", "needed"} \subseteq DOMAIN job'
    BY <1>1, <1>2, <2>1
  <2>4. Volume(vol') /\ savedFat' \in Fats
    BY <1>1, <1>2, <1>6, <2>1
  <2>5. Directory(job')
    BY <1>2, <2>2, <2>3 DEF Directory
  <2>. QED  BY <2>3, <2>4, <2>5 DEF SpaceInv
<1>8. CASE ~r.ok
  <2>1. vol' = Dropped(r.vol) /\ job' = [NoJob EXCEPT !.step = "failed", !.needed = needed]
    BY <1>1, <1>8
  <2>2. /\ job'.step = "failed" /\ job'.needed = needed
        /\ {"step", "dir", "known", "placed", "needed"} \subseteq DOMAIN job'
    BY <2>1, NoJobFields
  <2>3. Volume(Dropped(r.vol)) /\ Dropped(r.vol).fat = savedFat
    BY <1>2, <1>6, DroppedIsVolume
  <2>4. Volume(vol') /\ savedFat' \in Fats /\ vol'.fat = savedFat'
    BY <1>1, <1>2, <2>1, <2>3
  <2>. QED  BY <1>6, <1>8, <2>2, <2>4 DEF SpaceInv, Excused
<1>. QED  BY <1>7, <1>8

LEMMA FinishSpace ==
    ASSUME SpaceInv, Finish
    PROVE  SpaceInv' /\ job'.step # "failed"
<1>1. /\ vol' = [vol EXCEPT !.fat = Flushed] /\ savedFat' = vol'.fat /\ job' = NoJob
  BY DEF Finish
<1>2. Volume(vol)
  BY DEF SpaceInv
<1>3. HasFields(vol') /\ vol'.fat = vol.fat /\ vol'.hint = vol.hint /\ vol'.content = vol.content
  BY <1>1, <1>2 DEF Volume, HasFields, Flushed
<1>4. Volume(vol') /\ savedFat' \in Fats
  BY <1>1, <1>2, <1>3 DEF Volume
<1>. QED  BY <1>1, <1>4, NoJobFields DEF SpaceInv

LEMMA DosDeleteSpace ==
    ASSUME SpaceInv, NEW place, DosDelete(place)
    PROVE  SpaceInv' /\ job'.step # "failed"
<1> DEFINE freed == FreeChain(vol, EntryAt(vol, place).first)
<1>1. /\ job.step = "idle" /\ job' = job
      /\ vol' = WriteEntry(freed, place, Deleted) /\ savedFat' = vol'.fat
  BY DEF DosDelete
<1>2. Volume(vol)
  BY DEF SpaceInv
<1>3. Volume(freed)
  BY <1>2, FreeChainKeeps
<1>4. FineEntry(Deleted)
  BY EmptyFine
<1> HIDE DEF freed
<1>5. Volume(vol')
  BY <1>1, <1>3, <1>4, WriteEntryKeeps
<1>6. savedFat' \in Fats
  BY <1>1, <1>5 DEF Volume
<1>. QED  BY <1>1, <1>5, <1>6 DEF SpaceInv

LEMMA NextSpace ==
    ASSUME SpaceInv, [FatNext]_fatVars
    PROVE  SpaceInv' /\ (job'.step = "failed" /\ job.step # "failed" => Excused)
<1>1. ASSUME NEW program \in Programs, StartImport(program)
      PROVE  SpaceInv' /\ (job'.step = "failed" => Excused)
  BY <1>1, StartImportSpace
<1>2. ASSUME NEW path \in DirPaths, NEW name \in FileNames, NEW size \in Sizes,
             ImportFile(path, name, size)
      PROVE  SpaceInv' /\ (job'.step = "failed" => Excused)
  BY <1>2, ImportFileSpace
<1>3. CASE Finish
  BY <1>3, FinishSpace
<1>4. ASSUME NEW place \in Slots, DosDelete(place)
      PROVE  SpaceInv' /\ job'.step # "failed"
  BY <1>4, DosDeleteSpace
<1>5. CASE UNCHANGED fatVars
  <2>1. vol' = vol /\ savedFat' = savedFat /\ job' = job
    BY <1>5 DEF fatVars
  <2>. QED  BY <2>1 DEF SpaceInv
<1>. QED  BY <1>1, <1>2, <1>3, <1>4, <1>5 DEF FatNext

\* An import fails only for want of space, on a volume of any size, whatever was
\* imported, replaced and deleted before, and after an import that failed half way.
THEOREM OnlyWhenFull == FatSpec => FailsOnlyWhenFull
<1>1. FatSpec => []SpaceInv
  BY InitSpace, NextSpace, PTL DEF FatSpec
<1>2. SpaceInv /\ [FatNext]_fatVars =>
         [job'.step = "failed" /\ job.step # "failed" =>
             \/ Cardinality(FreeClusters(vol)) < job'.needed
             \/ \A i \in 1..RootSlots : EntryAt(vol, <<Root, i>>).kind \in {"file", "dir"}]_fatVars
  BY NextSpace DEF Excused, Space, RootFull
<1>. QED  BY <1>1, <1>2, PTL DEF FatSpec, FailsOnlyWhenFull

----------------------------------------------------------------------------
(* Chains that end.                                                        *)
ClustersOf(v, first) == ToSet(Chain(v, first))
Ends(v, first) == first \in Clusters => v.fat[Last(Chain(v, first))] = Eoc

LEMMA LinkedGives ==
    ASSUME NEW fat, NEW first, NEW s, LinkedFrom(fat, first, s)
    PROVE  /\ s \in Seq(Clusters) /\ Len(s) \in Nat /\ DOMAIN s = 1..Len(s)
           /\ \A i \in 1..Len(s) : s[i] \in Clusters
           /\ \A i \in 1..(Len(s) - 1) : /\ i \in 1..Len(s) /\ i + 1 \in 1..Len(s)
                                        /\ fat[s[i]] = s[i + 1] /\ fat[s[i]] \in Clusters
           /\ s = << >> => Len(s) = 0
           /\ s # << >> => /\ Len(s) # 0 /\ 1 \in 1..Len(s) /\ Len(s) \in 1..Len(s)
                           /\ s[1] = first /\ Last(s) = s[Len(s)]
<1>1. /\ s \in Seq(Clusters) /\ Len(s) \in Nat /\ DOMAIN s = 1..Len(s)
      /\ \A i \in 1..Len(s) : s[i] \in Clusters
  BY DEF LinkedFrom
<1>2. \A i \in 1..(Len(s) - 1) : i \in 1..Len(s) /\ i + 1 \in 1..Len(s)
  BY <1>1
<1>3. s = << >> => Len(s) = 0
  OBVIOUS
<1>4. s # << >> => Len(s) \in Nat \ {0} /\ Last(s) = s[Len(s)]
  BY <1>1, LastOf
<1>5. s # << >> => 1 \in 1..Len(s) /\ Len(s) \in 1..Len(s)
  BY <1>4
<1>. QED  BY <1>1, <1>2, <1>3, <1>4, <1>5 DEF LinkedFrom

LEMMA ClustersAre ==
    ASSUME NEW v, NEW first
    PROVE  /\ ClustersOf(v, first) \in SUBSET Clusters
           /\ \A c : c \in ClustersOf(v, first) <=>
                 \E i \in 1..Len(Chain(v, first)) : Chain(v, first)[i] = c
           /\ first \in Clusters => first \in ClustersOf(v, first)
           /\ first \notin Clusters => ClustersOf(v, first) = {}
<1> DEFINE s == Chain(v, first)
<1>1. /\ s \in Seq(Clusters) /\ Len(s) \in Nat /\ s # << >> <=> first \in Clusters
      /\ s # << >> => s[1] = first /\ 1 \in 1..Len(s)
      /\ s = << >> => Len(s) = 0
      /\ \A i \in 1..Len(s) : s[i] \in Clusters
  BY ChainGives, LinkedGives
<1>2. ClustersOf(v, first) = ToSet(s)
  BY DEF ClustersOf
<1> HIDE DEF s
<1>3. \A c : c \in ToSet(s) <=> \E i \in 1..Len(s) : s[i] = c
  BY <1>1 DEF ToSet
<1>4. ToSet(s) \in SUBSET Clusters
  BY <1>1, <1>3
<1>5. s # << >> => s[1] \in ToSet(s)
  BY <1>1, <1>3
<1>6. s = << >> => ToSet(s) = {}
  BY <1>3
<1>. QED  BY <1>1, <1>2, <1>3, <1>4, <1>5, <1>6 DEF s

LEMMA NoRepeat ==
    ASSUME NEW fat, NEW first, NEW s, LinkedFrom(fat, first, s), s # << >>, fat[Last(s)] = Eoc
    PROVE  \A i, j \in 1..Len(s) : s[i] = s[j] => i = j
<1> DEFINE l == Len(s)
<1>1. /\ s \in Seq(Clusters) /\ l \in Nat \ {0} /\ Last(s) = s[l]
      /\ \A i \in 1..(l - 1) : fat[s[i]] = s[i + 1]
      /\ \A i \in 1..l : s[i] \in Clusters
  BY LinkedGives
<1> HIDE DEF l
<1>2. ASSUME NEW i \in 1..l, NEW j \in 1..l, i < j, s[i] = s[j]
      PROVE  FALSE
  <2> DEFINE n == l - j
             T == {k \in 0..n : s[i + k] = s[j + k]}
  <2>1. n \in Nat /\ 0 \in T
    BY <1>1, <1>2
  <2>2. ASSUME NEW k \in 0..(n - 1), k \in T PROVE k + 1 \in T
    <3>1. /\ i + k \in 1..(l - 1) /\ j + k \in 1..(l - 1) /\ k + 1 \in 0..n
          /\ (i + k) + 1 = i + (k + 1) /\ (j + k) + 1 = j + (k + 1)
      BY <1>1, <1>2, <2>1
    <3>2. s[i + (k + 1)] = s[j + (k + 1)]
      BY <1>1, <2>2, <3>1
    <3>. QED  BY <3>1, <3>2
  <2>3. \A k \in 0..n : k \in T
    <3> HIDE DEF T, n
    <3>. QED  BY <2>1, <2>2, UpTo
  <2>4. n \in T
    <3> HIDE DEF T, n
    <3>. QED  BY <2>1, <2>3
  <2>8. j + n = l
    BY <1>1
  <2>5. s[i + n] = s[l]
    BY <2>4, <2>8
  <2>6. i + n \in 1..(l - 1) /\ (i + n) + 1 \in 1..l
    BY <1>1, <1>2, <2>1
  <2>7. fat[s[i + n]] \in Clusters /\ fat[s[l]] = Eoc
    BY <1>1, <2>6
  <2>. QED  BY <2>5, <2>7, NumberTypes
<1>3. ASSUME NEW i \in 1..l, NEW j \in 1..l, s[i] = s[j] PROVE i = j
  <2>1. i < j \/ j < i \/ i = j
    BY <1>1
  <2>. QED  BY <1>2, <1>3, <2>1
<1>. QED  BY <1>3 DEF l

LEMMA RoomForMore ==
    ASSUME NEW s \in Seq(Clusters), \A i, j \in 1..Len(s) : s[i] = s[j] => i = j,
           NEW c \in Clusters, \A i \in 1..Len(s) : s[i] # c
    PROVE  Len(s) < N
<1> DEFINE l == Len(s)
           Others == Clusters \ {c}
<1>1. l \in Nat /\ DOMAIN s = 1..l /\ \A i \in 1..l : s[i] \in Others
  OBVIOUS
<1>2. IsFiniteSet(Clusters) /\ Cardinality(Clusters) = N
  <2>1. N + 1 \in Int /\ 2 <= N + 1 /\ (N + 1) - 2 + 1 = N
    BY NumberTypes
  <2>. QED  BY <2>1, NumberTypes, FS_Interval
<1>3. IsFiniteSet(Others) /\ Cardinality(Others) = N - 1
  BY <1>2, FS_RemoveElement
<1> HIDE DEF l
<1>4. Cardinality(1..l) = l
  <2>1. 1 \in Int /\ l \in Int
    BY <1>1
  <2>2. Cardinality(1..l) = IF l < 1 THEN 0 ELSE l - 1 + 1
    BY <2>1, FS_Interval
  <2>. QED  BY <1>1, <2>2
<1>5. [i \in 1..l |-> s[i]] \in Injection(1..l, Others)
  BY <1>1 DEF Injection, IsInjective
<1> HIDE DEF Others
<1>6. Cardinality(1..l) <= Cardinality(Others)
  BY <1>3, <1>5, FS_Injection
<1>. QED  BY <1>1, <1>3, <1>4, <1>6, NumberTypes DEF l

LEMMA NotFree ==
    ASSUME NEW v, NEW first, Ends(v, first)
    PROVE  \A c \in ClustersOf(v, first) : v.fat[c] # Free
<1> DEFINE s == Chain(v, first)
<1>1. ASSUME NEW i \in 1..Len(s) PROVE v.fat[s[i]] # Free
  <2>1. LinkedFrom(v.fat, first, s) /\ (s # << >> => v.fat[Last(s)] = Eoc)
    BY ChainGives DEF Ends
  <2> HIDE DEF s
  <2>2. CASE i = Len(s)
    BY <2>1, <2>2, LinkedGives, NumberTypes DEF Free
  <2>3. CASE i # Len(s)
    <3>1. i \in 1..(Len(s) - 1)
      BY <2>1, <2>3, LinkedGives
    <3>. QED  BY <2>1, <3>1, LinkedGives, NumberTypes DEF Free
  <2>. QED  BY <2>2, <2>3
<1> HIDE DEF s
<1>2. \A i \in 1..Len(s) : v.fat[s[i]] # Free
  BY <1>1
<1>. QED  BY <1>2, ClustersAre DEF s

LEMMA ChainKept ==
    ASSUME NEW v, NEW w, NEW first, Ends(v, first),
           \A c \in ClustersOf(v, first) : w.fat[c] = v.fat[c]
    PROVE  Chain(w, first) = Chain(v, first) /\ Ends(w, first)
<1> DEFINE s == Chain(v, first)
<1>1. /\ LinkedFrom(v.fat, first, s) /\ Len(s) \in 0..N
      /\ s # << >> <=> first \in Clusters
  BY ChainGives
<1>2. \A i \in 1..Len(s) : s[i] \in ClustersOf(v, first)
  BY ClustersAre
<1>3. s # << >> => v.fat[Last(s)] = Eoc
  BY <1>1 DEF Ends
<1>0. s = Chain(v, first)
  OBVIOUS
<1> HIDE DEF s
<1>4. \A i \in 1..Len(s) : w.fat[s[i]] = v.fat[s[i]]
  BY <1>2
<1>5. LinkedFrom(w.fat, first, s)
  BY <1>1, <1>4, LinkedGives DEF LinkedFrom
<1>6. s # << >> => w.fat[Last(s)] = Eoc
  BY <1>1, <1>3, <1>4, LinkedGives
<1>7. Chain(w, first) = s
  <2>1. Len(s) <= N
    BY <1>1
  <2>2. IF s = << >> THEN first \notin Clusters ELSE w.fat[Last(s)] \notin Clusters
    BY <1>1, <1>6, NumberTypes
  <2>. QED  BY <1>5, <2>1, <2>2, ChainIs
<1>. QED  BY <1>0, <1>1, <1>6, <1>7 DEF Ends

(* A chain to which a free cluster is linked.                              *)
LEMMA ChainGrows ==
    ASSUME NEW v, NEW w, NEW first \in Clusters, Ends(v, first), NEW c \in FreeClusters(v),
           w.fat[Last(Chain(v, first))] = c, w.fat[c] = Eoc,
           \A d \in ClustersOf(v, first) \ {Last(Chain(v, first))} : w.fat[d] = v.fat[d]
    PROVE  Chain(w, first) = Append(Chain(v, first), c) /\ Ends(w, first)
<1> DEFINE s == Chain(v, first)
           l == Len(s)
           t == Append(s, c)
<1>1. /\ LinkedFrom(v.fat, first, s) /\ l \in 0..N /\ s # << >>
  BY ChainGives
<1>2. v.fat[Last(s)] = Eoc
  BY DEF Ends
<1>3. c \in Clusters /\ \A i \in 1..l : s[i] # c
  BY NotFree, ClustersAre DEF FreeClusters
<1>4. \A i \in 1..l : s[i] # Last(s) => w.fat[s[i]] = v.fat[s[i]]
  BY ClustersAre
<1> HIDE DEF s
<1>5. /\ s \in Seq(Clusters) /\ l \in Nat \ {0} /\ Last(s) = s[l] /\ s[1] = first
      /\ \A i \in 1..(l - 1) : v.fat[s[i]] = s[i + 1]
  BY <1>1, LastOf DEF LinkedFrom
<1>6. \A i, j \in 1..l : s[i] = s[j] => i = j
  BY <1>1, <1>2, NoRepeat
<1>7. l < N
  BY <1>3, <1>5, <1>6, RoomForMore
<1>8. /\ t \in Seq(Clusters) /\ Len(t) = l + 1 /\ t[l + 1] = c
      /\ \A i \in 1..l : t[i] = s[i]
  BY <1>3, <1>5, AppendProperties
<1> HIDE DEF t, l
<1>9. ASSUME NEW i \in 1..(Len(t) - 1) PROVE w.fat[t[i]] = t[i + 1]
  <2>1. i \in 1..l
    BY <1>5, <1>8
  <2>2. CASE i = l
    BY <1>5, <1>8, <2>1, <2>2 DEF s
  <2>3. CASE i # l
    <3>1. i \in 1..(l - 1) /\ i + 1 \in 1..l /\ l \in 1..l
      BY <1>5, <2>1, <2>3
    <3>2. s[i] # s[l]
      BY <1>6, <2>1, <2>3, <3>1
    <3>3. w.fat[s[i]] = s[i + 1]
      BY <1>4, <1>5, <2>1, <3>1, <3>2
    <3>. QED  BY <1>8, <2>1, <3>1, <3>3
  <2>. QED  BY <2>2, <2>3
<1>10. t # << >> /\ t[1] = first
  <2>1. 1 \in 1..l
    BY <1>5
  <2>. QED  BY <1>5, <1>8, <2>1, EmptySeq
<1>11. LinkedFrom(w.fat, first, t)
  BY <1>8, <1>9, <1>10 DEF LinkedFrom
<1>12. Last(t) = c
  BY <1>5, <1>8, <1>10, LastOf
<1>13. Chain(w, first) = t
  <2>1. Len(t) <= N
    BY <1>5, <1>7, <1>8, NumberTypes
  <2>2. IF t = << >> THEN first \notin Clusters ELSE w.fat[Last(t)] \notin Clusters
    BY <1>10, <1>12, NumberTypes
  <2>. QED  BY <1>11, <2>1, <2>2, ChainIs
<1>. QED  BY <1>12, <1>13 DEF Ends, t, s

LEMMA ChainOfOne ==
    ASSUME NEW w, NEW c \in Clusters, w.fat[c] = Eoc
    PROVE  Chain(w, c) = <<c>> /\ Ends(w, c)
<1>1. LinkedFrom(w.fat, c, <<c>>)
  BY DEF LinkedFrom
<1>2. Last(<<c>>) = c /\ Len(<<c>>) = 1 /\ 1 <= N
  BY NumberTypes DEF Last
<1>3. Chain(w, c) = <<c>>
  BY <1>1, <1>2, ChainIs, NumberTypes
<1>. QED  BY <1>2, <1>3 DEF Ends

----------------------------------------------------------------------------
(* Families of chains: each ends, no two share a cluster, and they are all *)
(* there is.                                                               *)
Chains(v, heads) ==
    /\ \A i \in DOMAIN heads : heads[i] \in {0} \union Clusters /\ Ends(v, heads[i])
    /\ \A i, j \in DOMAIN heads :
          i = j \/ ClustersOf(v, heads[i]) \intersect ClustersOf(v, heads[j]) = {}
    /\ \A c \in Clusters : v.fat[c] # Free => \E i \in DOMAIN heads : c \in ClustersOf(v, heads[i])

LEMMA SameFat ==
    ASSUME NEW v, NEW w, w.fat = v.fat, NEW first
    PROVE  /\ Chain(w, first) = Chain(v, first) /\ ClustersOf(w, first) = ClustersOf(v, first)
           /\ Ends(w, first) <=> Ends(v, first)
<1>1. Chain(w, first) = Chain(v, first)
  BY DEF Chain
<1>. QED  BY <1>1 DEF ClustersOf, Ends

LEMMA NoHead ==
    ASSUME NEW v
    PROVE  ClustersOf(v, 0) = {} /\ Ends(v, 0)
  BY ClustersAre, NumberTypes DEF Ends

(* The other chains of a family, when only its clusters and free ones change. *)
LEMMA OthersKept ==
    ASSUME NEW v, NEW w, NEW heads, Chains(v, heads), NEW j \in DOMAIN heads,
           \A c \in Clusters : \/ w.fat[c] = v.fat[c] \/ v.fat[c] = Free
                               \/ c \in ClustersOf(v, heads[j])
    PROVE  \A i \in DOMAIN heads \ {j} :
              /\ Chain(w, heads[i]) = Chain(v, heads[i])
              /\ ClustersOf(w, heads[i]) = ClustersOf(v, heads[i]) /\ Ends(w, heads[i])
<1> SUFFICES ASSUME NEW i \in DOMAIN heads \ {j}
             PROVE  /\ Chain(w, heads[i]) = Chain(v, heads[i])
                    /\ ClustersOf(w, heads[i]) = ClustersOf(v, heads[i]) /\ Ends(w, heads[i])
  OBVIOUS
<1>1. /\ Ends(v, heads[i])
      /\ ClustersOf(v, heads[i]) \intersect ClustersOf(v, heads[j]) = {}
  BY DEF Chains
<1>2. \A c \in ClustersOf(v, heads[i]) : w.fat[c] = v.fat[c]
  <2> SUFFICES ASSUME NEW c \in ClustersOf(v, heads[i]) PROVE w.fat[c] = v.fat[c]
    OBVIOUS
  <2>1. c \in Clusters
    BY ClustersAre
  <2>2. v.fat[c] # Free
    BY <1>1, NotFree
  <2>. QED  BY <1>1, <2>1, <2>2
<1>3. Chain(w, heads[i]) = Chain(v, heads[i]) /\ Ends(w, heads[i])
  BY <1>1, <1>2, ChainKept
<1>. QED  BY <1>3 DEF ClustersOf

(* A new family in which only one chain is another one.                    *)
OneChanged(v, w, heads, j, new) ==
    /\ DOMAIN new = DOMAIN heads /\ \A i \in DOMAIN heads \ {j} : new[i] = heads[i]
    /\ \A c \in Clusters : \/ w.fat[c] = v.fat[c] \/ v.fat[c] = Free
                           \/ c \in ClustersOf(v, heads[j])
    /\ new[j] \in {0} \union Clusters /\ Ends(w, new[j])
    /\ \A c \in ClustersOf(w, new[j]) : v.fat[c] = Free \/ c \in ClustersOf(v, heads[j])
    /\ \A c \in Clusters : /\ v.fat[c] = Free \/ c \in ClustersOf(v, heads[j])
                           /\ w.fat[c] # Free
                           => c \in ClustersOf(w, new[j])
LEMMA FamilyChanged ==
    ASSUME NEW v, NEW w, NEW heads, Chains(v, heads), NEW j \in DOMAIN heads,
           NEW new, OneChanged(v, w, heads, j, new)
    PROVE  /\ Chains(w, new)
           /\ \A i \in DOMAIN heads \ {j} : Chain(w, heads[i]) = Chain(v, heads[i])
<1>1. \A i \in DOMAIN heads \ {j} :
         /\ Chain(w, heads[i]) = Chain(v, heads[i])
         /\ ClustersOf(w, heads[i]) = ClustersOf(v, heads[i]) /\ Ends(w, heads[i])
  BY OthersKept DEF OneChanged
<1>2. \A i \in DOMAIN new : new[i] \in {0} \union Clusters /\ Ends(w, new[i])
  BY <1>1 DEF Chains, OneChanged
<1>3. ASSUME NEW i \in DOMAIN heads \ {j}
      PROVE  ClustersOf(w, new[i]) \intersect ClustersOf(w, new[j]) = {}
  <2>1. ClustersOf(w, new[i]) = ClustersOf(v, heads[i])
    BY <1>1 DEF OneChanged
  <2>2. Ends(v, heads[i]) /\ ClustersOf(v, heads[i]) \intersect ClustersOf(v, heads[j]) = {}
    BY DEF Chains
  <2>3. \A c \in ClustersOf(v, heads[i]) : v.fat[c] # Free
    BY <2>2, NotFree
  <2>. QED  BY <2>1, <2>2, <2>3 DEF OneChanged
<1>4. \A i, k \in DOMAIN new :
         i = k \/ ClustersOf(w, new[i]) \intersect ClustersOf(w, new[k]) = {}
  <2> SUFFICES ASSUME NEW i \in DOMAIN new, NEW k \in DOMAIN new, i # k
               PROVE  ClustersOf(w, new[i]) \intersect ClustersOf(w, new[k]) = {}
    OBVIOUS
  <2>1. CASE i = j
    BY <1>3, <2>1 DEF OneChanged
  <2>2. CASE k = j
    BY <1>3, <2>2 DEF OneChanged
  <2>3. CASE i # j /\ k # j
    <3>1. ClustersOf(v, heads[i]) \intersect ClustersOf(v, heads[k]) = {}
      BY DEF Chains, OneChanged
    <3>. QED  BY <1>1, <2>3, <3>1 DEF OneChanged
  <2>. QED  BY <2>1, <2>2, <2>3
<1>5. ASSUME NEW c \in Clusters, w.fat[c] # Free
      PROVE  \E i \in DOMAIN new : c \in ClustersOf(w, new[i])
  <2>1. CASE v.fat[c] = Free \/ c \in ClustersOf(v, heads[j])
    BY <1>5, <2>1 DEF OneChanged
  <2>2. CASE v.fat[c] # Free /\ c \notin ClustersOf(v, heads[j])
    <3>1. PICK i \in DOMAIN heads : c \in ClustersOf(v, heads[i])
      BY <2>2 DEF Chains
    <3>. QED  BY <1>1, <2>2, <3>1 DEF OneChanged
  <2>. QED  BY <2>1, <2>2
<1>6. Chains(w, new)
  BY <1>2, <1>4, <1>5 DEF Chains
<1>. QED  BY <1>1, <1>6

SameBut(v, w, heads, j) == \A i \in DOMAIN heads \ {j} : Chain(w, heads[i]) = Chain(v, heads[i])

(* A free cluster becomes a chain of its own.                              *)
LEMMA HeadTakes ==
    ASSUME NEW v, v.fat \in Fats, NEW w, NEW heads, Chains(v, heads),
           NEW j \in DOMAIN heads, heads[j] = 0, NEW c \in FreeClusters(v),
           w.fat = [v.fat EXCEPT ![c] = Eoc],
           NEW new, DOMAIN new = DOMAIN heads, new[j] = c,
           \A i \in DOMAIN heads \ {j} : new[i] = heads[i]
    PROVE  /\ Chains(w, new) /\ Chain(w, c) = <<c>>
           /\ SameBut(v, w, heads, j)
<1>1. /\ c \in Clusters /\ v.fat[c] = Free /\ w.fat[c] = Eoc
      /\ \A d \in Clusters : d # c => w.fat[d] = v.fat[d]
  BY NumberTypes DEF FreeClusters, Fats
<1>2. Chain(w, c) = <<c>> /\ Ends(w, c)
  BY <1>1, ChainOfOne
<1>3. ClustersOf(w, c) = {c}
  <2>1. Len(<<c>>) = 1 /\ <<c>>[1] = c /\ 1..1 = {1}
    OBVIOUS
  <2>. QED  BY <1>2, <2>1, ClustersAre
<1>4. ClustersOf(v, heads[j]) = {}
  BY NoHead
<1>5. \A d \in Clusters : w.fat[d] = v.fat[d] \/ v.fat[d] = Free \/ d \in ClustersOf(v, heads[j])
  BY <1>1
<1>6. \A d \in ClustersOf(w, new[j]) : v.fat[d] = Free \/ d \in ClustersOf(v, heads[j])
  BY <1>1, <1>3
<1>7. \A d \in Clusters : /\ v.fat[d] = Free \/ d \in ClustersOf(v, heads[j])
                          /\ w.fat[d] # Free
                          => d \in ClustersOf(w, new[j])
  BY <1>1, <1>3, <1>4
<1>8. new[j] \in {0} \union Clusters /\ Ends(w, new[j])
  BY <1>1, <1>2
<1>9. Chains(w, new) /\ \A i \in DOMAIN heads \ {j} : Chain(w, heads[i]) = Chain(v, heads[i])
  <2>1. OneChanged(v, w, heads, j, new)
    BY <1>5, <1>6, <1>7, <1>8 DEF OneChanged
  <2>. QED  BY <2>1, FamilyChanged
<1>. QED  BY <1>2, <1>9 DEF SameBut

(* A free cluster is linked to a chain.                                    *)
LinkedAt(v, w, last, c) == w.fat = [[v.fat EXCEPT ![c] = Eoc] EXCEPT ![last] = c]
LEMMA HeadGrows ==
    ASSUME NEW v, v.fat \in Fats, NEW w, NEW heads, Chains(v, heads),
           NEW j \in DOMAIN heads, heads[j] # 0, NEW c \in FreeClusters(v),
           LinkedAt(v, w, Last(Chain(v, heads[j])), c)
    PROVE  /\ Chains(w, heads) /\ Chain(w, heads[j]) = Append(Chain(v, heads[j]), c)
           /\ SameBut(v, w, heads, j)
<1> DEFINE s == Chain(v, heads[j])
           l == Last(s)
<1>1. heads[j] \in Clusters /\ Ends(v, heads[j])
  BY DEF Chains
<1>2. LinkedFrom(v.fat, heads[j], s) /\ s # << >>
  BY <1>1, ChainGives
<1>3. l \in ClustersOf(v, heads[j]) /\ l \in Clusters /\ v.fat[l] # Free
  <2>1. Len(s) \in 1..Len(s) /\ l = s[Len(s)]
    BY <1>2, LinkedGives
  <2>2. l \in ClustersOf(v, heads[j])
    BY <2>1, ClustersAre
  <2>. QED  BY <1>1, <2>2, ClustersAre, NotFree
<1>4. c \in Clusters /\ v.fat[c] = Free
  BY DEF FreeClusters
<1> HIDE DEF l
<1>5. /\ w.fat[l] = c /\ w.fat[c] = Eoc
      /\ \A d \in Clusters : d # c /\ d # l => w.fat[d] = v.fat[d]
  <2>1. w.fat = [[v.fat EXCEPT ![c] = Eoc] EXCEPT ![l] = c] /\ DOMAIN v.fat = 0..(N + 1)
    BY DEF l, Fats, LinkedAt
  <2>2. Clusters \subseteq 0..(N + 1)
    BY NumberTypes
  <2>. QED  BY <1>3, <1>4, <2>1, <2>2
<1>6. \A d \in ClustersOf(v, heads[j]) \ {l} : w.fat[d] = v.fat[d]
  BY <1>1, <1>4, <1>5, NotFree, ClustersAre
<1>7. Chain(w, heads[j]) = Append(s, c) /\ Ends(w, heads[j])
  <2>1. w.fat[Last(Chain(v, heads[j]))] = c
    BY <1>5 DEF l
  <2>2. \A d \in ClustersOf(v, heads[j]) \ {Last(Chain(v, heads[j]))} : w.fat[d] = v.fat[d]
    BY <1>6 DEF l
  <2>. QED  BY <1>1, <1>5, <2>1, <2>2, ChainGrows
<1>8. ClustersOf(w, heads[j]) = ClustersOf(v, heads[j]) \union {c}
  <2>1. s \in Seq(Clusters) /\ Len(s) \in Nat
    BY <1>2, LinkedGives
  <2> HIDE DEF s
  <2>2. /\ Len(Append(s, c)) = Len(s) + 1 /\ Append(s, c)[Len(s) + 1] = c
        /\ \A i \in 1..Len(s) : Append(s, c)[i] = s[i]
    BY <1>4, <2>1, AppendProperties
  <2>3. 1..(Len(s) + 1) = (1..Len(s)) \union {Len(s) + 1}
    BY <2>1
  <2>. QED  BY <1>7, <2>2, <2>3, ClustersAre DEF s
<1>9. \A d \in Clusters : \/ w.fat[d] = v.fat[d] \/ v.fat[d] = Free
                          \/ d \in ClustersOf(v, heads[j])
  BY <1>3, <1>4, <1>5
<1>10. \A d \in Clusters : /\ v.fat[d] = Free \/ d \in ClustersOf(v, heads[j])
                           /\ w.fat[d] # Free
                           => d \in ClustersOf(w, heads[j])
  BY <1>3, <1>5, <1>8
<1>11. \A d \in ClustersOf(w, heads[j]) : v.fat[d] = Free \/ d \in ClustersOf(v, heads[j])
  BY <1>4, <1>8
<1>12. heads[j] \in {0} \union Clusters
  BY <1>1
<1>13. Chains(w, heads) /\ \A i \in DOMAIN heads \ {j} : Chain(w, heads[i]) = Chain(v, heads[i])
  <2>1. Ends(w, heads[j])
    BY <1>7
  <2> HIDE DEF s
  <2>2. OneChanged(v, w, heads, j, heads)
    BY <1>9, <1>10, <1>11, <1>12, <2>1 DEF OneChanged
  <2>. QED  BY <2>2, FamilyChanged
<1>. QED  BY <1>7, <1>13 DEF SameBut

(* A chain is freed.                                                       *)
LEMMA HeadFreed ==
    ASSUME NEW v, v.fat \in Fats, NEW heads, Chains(v, heads), NEW j \in DOMAIN heads,
           NEW new, DOMAIN new = DOMAIN heads, new[j] = 0,
           \A i \in DOMAIN heads \ {j} : new[i] = heads[i]
    PROVE  LET w == FreeChain(v, heads[j])
           IN  /\ "fat" \in DOMAIN v => Chains(w, new)
               /\ "fat" \in DOMAIN v =>
                     \A i \in DOMAIN heads \ {j} : Chain(w, heads[i]) = Chain(v, heads[i])
<1> DEFINE w == FreeChain(v, heads[j])
<1> SUFFICES ASSUME "fat" \in DOMAIN v
             PROVE  /\ Chains(w, new)
                    /\ \A i \in DOMAIN heads \ {j} : Chain(w, heads[i]) = Chain(v, heads[i])
  OBVIOUS
<1>1. \A c \in Clusters : w.fat[c] = IF c \in ClustersOf(v, heads[j]) THEN Free ELSE v.fat[c]
  BY NumberTypes DEF FreeChain, ClustersOf, Fats
<1> HIDE DEF w
<1>2. ClustersOf(w, new[j]) = {} /\ Ends(w, new[j])
  BY NoHead
<1>3. \A c \in Clusters : w.fat[c] = v.fat[c] \/ v.fat[c] = Free \/ c \in ClustersOf(v, heads[j])
  BY <1>1
<1>4. \A c \in Clusters : /\ v.fat[c] = Free \/ c \in ClustersOf(v, heads[j])
                          /\ w.fat[c] # Free
                          => c \in ClustersOf(w, new[j])
  BY <1>1
<1>5. OneChanged(v, w, heads, j, new)
  BY <1>2, <1>3, <1>4 DEF OneChanged
<1>. QED  BY <1>5, FamilyChanged

(* A chain changes its name.                                               *)
LEMMA HeadMoved ==
    ASSUME NEW v, NEW w, w.fat = v.fat, NEW heads, Chains(v, heads),
           NEW q \in DOMAIN heads, NEW p, p # q, p \in DOMAIN heads => heads[p] = 0,
           NEW new, DOMAIN new = DOMAIN heads \union {p}, new[p] = heads[q], new[q] = 0,
           \A i \in DOMAIN heads \ {p, q} : new[i] = heads[i]
    PROVE  Chains(w, new)
<1>1. \A first : ClustersOf(w, first) = ClustersOf(v, first) /\ (Ends(w, first) <=> Ends(v, first))
  BY SameFat
<1>2. ClustersOf(v, 0) = {} /\ Ends(v, 0)
  BY NoHead
<1>3. \A i \in DOMAIN new : new[i] \in {0} \union Clusters /\ Ends(w, new[i])
  BY <1>1, <1>2 DEF Chains
<1>4. \A i, j \in DOMAIN new :
         i = j \/ ClustersOf(w, new[i]) \intersect ClustersOf(w, new[j]) = {}
  <2>1. \A i, j \in DOMAIN heads :
           i = j \/ ClustersOf(v, heads[i]) \intersect ClustersOf(v, heads[j]) = {}
    BY DEF Chains
  <2>2. ASSUME NEW i \in DOMAIN new, i # p
        PROVE  /\ ClustersOf(w, new[i]) = {} \/ (i # q /\ i \in DOMAIN heads /\ new[i] = heads[i])
               /\ ClustersOf(w, new[i]) \intersect ClustersOf(w, new[p]) = {}
    <3>1. CASE i = q
      BY <1>1, <1>2, <3>1
    <3>2. CASE i # q
      BY <1>1, <2>1, <2>2, <3>2
    <3>. QED  BY <3>1, <3>2
  <2> SUFFICES ASSUME NEW i \in DOMAIN new, NEW j \in DOMAIN new, i # j
               PROVE  ClustersOf(w, new[i]) \intersect ClustersOf(w, new[j]) = {}
    OBVIOUS
  <2>3. CASE i = p \/ j = p
    BY <2>2, <2>3
  <2>4. CASE i # p /\ j # p
    BY <1>1, <2>1, <2>2, <2>4
  <2>. QED  BY <2>3, <2>4
<1>5. ASSUME NEW c \in Clusters, w.fat[c] # Free
      PROVE  \E i \in DOMAIN new : c \in ClustersOf(w, new[i])
  <2>1. PICK i \in DOMAIN heads : c \in ClustersOf(v, heads[i])
    BY <1>5 DEF Chains
  <2>2. CASE i = q
    BY <1>1, <2>1, <2>2
  <2>3. CASE i # q
    BY <1>1, <1>2, <2>1, <2>3
  <2>. QED  BY <2>2, <2>3
<1>. QED  BY <1>3, <1>4, <1>5 DEF Chains

(* A name that has no chain is given up.                                   *)
LEMMA HeadDropped ==
    ASSUME NEW v, NEW w, w.fat = v.fat, NEW heads, Chains(v, heads),
           NEW p \in DOMAIN heads, heads[p] = 0,
           NEW new, DOMAIN new = DOMAIN heads \ {p}, \A i \in DOMAIN new : new[i] = heads[i]
    PROVE  Chains(w, new)
<1>1. \A first : ClustersOf(w, first) = ClustersOf(v, first) /\ (Ends(w, first) <=> Ends(v, first))
  BY SameFat
<1>2. ClustersOf(v, 0) = {}
  BY NoHead
<1>3. \A i \in DOMAIN new : new[i] \in {0} \union Clusters /\ Ends(w, new[i])
  BY <1>1 DEF Chains
<1>4. \A i, j \in DOMAIN new :
         i = j \/ ClustersOf(w, new[i]) \intersect ClustersOf(w, new[j]) = {}
  BY <1>1 DEF Chains
<1>5. \A c \in Clusters : w.fat[c] # Free => \E i \in DOMAIN new : c \in ClustersOf(w, new[i])
  BY <1>1, <1>2 DEF Chains
<1>. QED  BY <1>3, <1>4, <1>5 DEF Chains

----------------------------------------------------------------------------
(* Places.                                                                 *)
Area(v, dir) == IF dir = Root THEN {Root} ELSE ClustersOf(v, dir)

LEMMA QuotientIs ==
    ASSUME NEW q \in Nat, NEW b \in Nat \ {0}, NEW r \in 0..(b - 1)
    PROVE  ((q * b) + r) \div b = q /\ ((q * b) + r) % b = r
<1> DEFINE a == (q * b) + r
           x == a \div b
           y == a % b
<1>1. a \in Nat /\ x \in Int /\ y \in 0..(b - 1) /\ a = b * x + y
  OBVIOUS
<1>2. a = b * q + r
  OBVIOUS
<1> HIDE DEF a, x, y
<1>3. x <= q
  <2>1. CASE x >= q + 1
    <3>1. b * x >= b * (q + 1) /\ b * (q + 1) = b * q + b
      BY <1>1, <2>1
    <3>. QED  BY <1>1, <1>2, <3>1
  <2>. QED  BY <1>1, <2>1
<1>4. x >= q
  <2>1. CASE x <= q - 1
    <3>1. b * x <= b * (q - 1) /\ b * (q - 1) = b * q - b
      BY <1>1, <2>1
    <3>. QED  BY <1>1, <1>2, <3>1
  <2>. QED  BY <1>1, <2>1
<1>5. x = q
  BY <1>1, <1>3, <1>4
<1>6. y = r
  BY <1>1, <1>2, <1>5
<1>. QED  BY <1>5, <1>6 DEF x, y, a

LEMMA SlotsAre ==
    /\ \A p \in Slots : /\ p = <<p[1], p[2]>> /\ p[1] \in 0..(N + 1) /\ p[2] \in SlotsOf(p[1])
                        /\ p[1] \in {Root} \union Clusters
    /\ \A p, q \in Slots : p[1] = q[1] /\ p[2] = q[2] => p = q
    /\ \A i \in 1..RootSlots : <<Root, i>> \in Slots
    /\ \A c \in Clusters, i \in 1..DirSlots : <<c, i>> \in Slots
<1>1. \A p \in Slots : /\ p = <<p[1], p[2]>> /\ p[1] \in 0..(N + 1) /\ p[2] \in SlotsOf(p[1])
                       /\ p[1] \in {Root} \union Clusters
  BY NumberTypes DEF Slots, SlotsOf, Root
<1>2. \A p, q \in Slots : p[1] = q[1] /\ p[2] = q[2] => p = q
  <2> SUFFICES ASSUME NEW p \in Slots, NEW q \in Slots, p[1] = q[1], p[2] = q[2]
               PROVE  p = q
    OBVIOUS
  <2>1. p = <<p[1], p[2]>> /\ q = <<q[1], q[2]>>
    BY <1>1
  <2>. QED  BY <2>1
<1>3. \A i \in 1..RootSlots : <<Root, i>> \in Slots
  BY DEF Slots
<1>4. \A c \in Clusters, i \in 1..DirSlots : <<c, i>> \in Slots
  BY DEF Slots
<1>. QED  BY <1>1, <1>2, <1>3, <1>4

(* The places of a chain, in terms of its clusters.                        *)
AreOf(P, s) ==
    /\ Len(s) * DirSlots \in Nat /\ DOMAIN P = 1..(Len(s) * DirSlots)
    /\ \A i \in DOMAIN P :
          \E k \in 1..Len(s), r \in 1..DirSlots :
             i = ((k - 1) * DirSlots) + r /\ P[i] = <<s[k], r>>
    /\ \A k \in 1..Len(s), r \in 1..DirSlots :
          /\ ((k - 1) * DirSlots) + r \in DOMAIN P
          /\ P[((k - 1) * DirSlots) + r] = <<s[k], r>>
LEMMA PlacesInChain ==
    ASSUME NEW s \in Seq(Clusters)
    PROVE  AreOf(PlacesIn(s), s)
<1> DEFINE l == Len(s)
           P == PlacesIn(s)
<1>1. l \in Nat /\ DirSlots \in Nat \ {0}
  BY NumberTypes
<1>2. /\ DOMAIN P = 1..(l * DirSlots)
      /\ \A i \in 1..(l * DirSlots) :
            P[i] = <<s[((i - 1) \div DirSlots) + 1], ((i - 1) % DirSlots) + 1>>
  BY DEF PlacesIn
<1> HIDE DEF l, P
<1>3. l * DirSlots \in Nat
  BY <1>1
<1>4. ASSUME NEW i \in 1..(l * DirSlots)
      PROVE  \E k \in 1..l, r \in 1..DirSlots :
                i = ((k - 1) * DirSlots) + r /\ P[i] = <<s[k], r>>
  <2> DEFINE x == (i - 1) \div DirSlots
             y == (i - 1) % DirSlots
  <2>1. i \in Nat /\ i - 1 \in Nat /\ i - 1 < l * DirSlots
    BY <1>3
  <2>2. x \in 0..(l - 1) /\ y \in 0..(DirSlots - 1)
    BY <1>1, <2>1, Quotient
  <2>3. i - 1 = DirSlots * x + y
    BY <1>1, <2>1
  <2>4. P[i] = <<s[x + 1], y + 1>>
    BY <1>2
  <2> HIDE DEF x, y
  <2>5. x + 1 \in 1..l /\ y + 1 \in 1..DirSlots /\ (x + 1) - 1 = x
    BY <1>1, <2>2
  <2>6. i = (x * DirSlots) + (y + 1)
    BY <1>1, <2>1, <2>2, <2>3
  <2>. QED  BY <2>4, <2>5, <2>6
<1>5. ASSUME NEW k \in 1..l, NEW r \in 1..DirSlots
      PROVE  LET i == ((k - 1) * DirSlots) + r
             IN  i \in 1..(l * DirSlots) /\ P[i] = <<s[k], r>>
  <2> DEFINE q == k - 1
             i == (q * DirSlots) + r
  <2>1. q \in Nat /\ q + 1 <= l /\ r - 1 \in 0..(DirSlots - 1) /\ q + 1 = k
    BY <1>1
  <2>2. ((q * DirSlots) + (r - 1)) \div DirSlots = q /\ ((q * DirSlots) + (r - 1)) % DirSlots = r - 1
    BY <1>1, <2>1, QuotientIs
  <2>3. q * DirSlots \in Nat /\ (q * DirSlots) + DirSlots = (q + 1) * DirSlots
    BY <1>1, <2>1
  <2>4. (q + 1) * DirSlots <= l * DirSlots
    BY <1>1, <2>1
  <2> HIDE DEF q
  <2>5. i - 1 = (q * DirSlots) + (r - 1) /\ i \in 1..(l * DirSlots) /\ (r - 1) + 1 = r
    <3> DEFINE m == q * DirSlots
               n == l * DirSlots
    <3>1. m \in Nat /\ n \in Nat /\ m + DirSlots <= n /\ i = m + r
      BY <1>3, <2>3, <2>4
    <3> HIDE DEF m, n, i
    <3>2. i - 1 = m + (r - 1) /\ i \in 1..n /\ (r - 1) + 1 = r
      BY <1>1, <3>1
    <3>. QED  BY <3>2 DEF m, n
  <2>6. P[i] = <<s[k], r>>
    BY <1>2, <2>1, <2>2, <2>5
  <2>. QED  BY <2>5, <2>6 DEF q
<1>. QED  BY <1>2, <1>3, <1>4, <1>5 DEF l, P, AreOf

(* Every place of a directory is in its list once.                         *)
LEMMA PlacesOf ==
    ASSUME NEW v, NEW dir \in {Root} \union Clusters, Ends(v, dir)
    PROVE  /\ \A i \in DOMAIN Places(v, dir) :
                 /\ i \in Nat \ {0} /\ 1..i \subseteq DOMAIN Places(v, dir)
                 /\ Places(v, dir)[i] \in Slots /\ Places(v, dir)[i][1] \in Area(v, dir)
           /\ \A p \in Slots : p[1] \in Area(v, dir) =>
                 \E i \in DOMAIN Places(v, dir) : Places(v, dir)[i] = p
           /\ \A i, j \in DOMAIN Places(v, dir) : Places(v, dir)[i] = Places(v, dir)[j] => i = j
<1>1. CASE dir = Root
  <2>1. /\ DOMAIN Places(v, dir) = 1..RootSlots
        /\ \A i \in 1..RootSlots : Places(v, dir)[i] = <<Root, i>>
        /\ Area(v, dir) = {Root}
    BY <1>1 DEF Places, Area
  <2>2. ASSUME NEW p \in Slots, p[1] \in Area(v, dir)
        PROVE  \E i \in DOMAIN Places(v, dir) : Places(v, dir)[i] = p
    <3>1. p = <<p[1], p[2]>> /\ p[2] \in SlotsOf(p[1]) /\ p[1] = Root
      BY <2>1, <2>2, SlotsAre
    <3>2. p[2] \in 1..RootSlots
      BY <3>1 DEF SlotsOf
    <3>. QED  BY <2>1, <3>1, <3>2
  <2>3. \A i, j \in 1..RootSlots : <<Root, i>> = <<Root, j>> => i = j
    OBVIOUS
  <2>4. \A i \in 1..RootSlots : <<Root, i>> \in Slots /\ <<Root, i>>[1] = Root
    BY SlotsAre
  <2>5. \A i \in 1..RootSlots : i \in Nat \ {0} /\ 1..i \subseteq 1..RootSlots
    BY NumberTypes
  <2> DEFINE P == Places(v, dir)
             A == Area(v, dir)
  <2>6. DOMAIN P = 1..RootSlots /\ \A i \in 1..RootSlots : P[i] = <<Root, i>>
    BY <2>1
  <2>7. \A i \in 1..RootSlots : P[i] \in Slots /\ P[i][1] = Root
    BY <2>4, <2>6
  <2>8. Root \in A /\ \A p \in Slots : p[1] \in A => \E i \in DOMAIN P : P[i] = p
    BY <2>1, <2>2
  <2> HIDE DEF P, A
  <2>9. \A i \in DOMAIN P : i \in Nat \ {0} /\ 1..i \subseteq DOMAIN P /\ P[i] \in Slots /\ P[i][1] \in A
    BY <2>5, <2>6, <2>7, <2>8
  <2>10. \A i, j \in DOMAIN P : P[i] = P[j] => i = j
    BY <2>3, <2>6
  <2>. QED  BY <2>8, <2>9, <2>10 DEF P, A
<1>2. CASE dir # Root
  <2> DEFINE s == Chain(v, dir)
             P == Places(v, dir)
  <2>1. s \in Seq(Clusters) /\ Len(s) \in Nat /\ \A k \in 1..Len(s) : s[k] \in Clusters
    BY ChainGives, LinkedGives
  <2>2. \A i, j \in 1..Len(s) : s[i] = s[j] => i = j
    <3>1. dir \in Clusters /\ s # << >> /\ v.fat[Last(s)] = Eoc
      BY <1>2, ChainGives DEF Ends
    <3>2. LinkedFrom(v.fat, dir, s)
      BY ChainGives
    <3> HIDE DEF s
    <3>. QED  BY <3>1, <3>2, NoRepeat
  <2>3. Area(v, dir) = ClustersOf(v, dir) /\ \A c : c \in Area(v, dir) <=> \E k \in 1..Len(s) : s[k] = c
    BY <1>2, ClustersAre DEF Area
  <2>4. P = PlacesIn(s)
    BY <1>2 DEF Places
  <2> HIDE DEF s
  <2>5. AreOf(P, s)
    BY <2>1, <2>4, PlacesInChain
  <2> HIDE DEF P
  <2>6. ASSUME NEW i \in DOMAIN P
        PROVE  /\ i \in Nat \ {0} /\ 1..i \subseteq DOMAIN P
               /\ P[i] \in Slots /\ P[i][1] \in Area(v, dir)
    <3>1. PICK k \in 1..Len(s), r \in 1..DirSlots : P[i] = <<s[k], r>>
      BY <2>5 DEF AreOf
    <3>2. <<s[k], r>> \in Slots /\ <<s[k], r>>[1] = s[k]
      BY <2>1, SlotsAre
    <3>3. i \in Nat \ {0} /\ 1..i \subseteq DOMAIN P
      <4> DEFINE m == Len(s) * DirSlots
      <4>1. m \in Nat /\ DOMAIN P = 1..m
        BY <2>5 DEF AreOf
      <4> HIDE DEF m
      <4>. QED  BY <4>1
    <3>. QED  BY <2>3, <3>1, <3>2, <3>3
  <2>7. ASSUME NEW p \in Slots, p[1] \in Area(v, dir)
        PROVE  \E i \in DOMAIN P : P[i] = p
    <3>1. PICK k \in 1..Len(s) : s[k] = p[1]
      BY <2>3, <2>7
    <3>2. p = <<p[1], p[2]>> /\ p[2] \in SlotsOf(p[1]) /\ p[1] # Root
      BY <2>1, <3>1, SlotsAre, NumberTypes DEF Root
    <3>3. p[2] \in 1..DirSlots
      BY <3>2 DEF SlotsOf
    <3>4. P[((k - 1) * DirSlots) + p[2]] = <<s[k], p[2]>> /\ ((k - 1) * DirSlots) + p[2] \in DOMAIN P
      BY <2>5, <3>3 DEF AreOf
    <3>. QED  BY <3>1, <3>2, <3>4
  <2>8. ASSUME NEW i \in DOMAIN P, NEW j \in DOMAIN P, P[i] = P[j]
        PROVE  i = j
    <3>1. PICK k \in 1..Len(s), r \in 1..DirSlots :
             i = ((k - 1) * DirSlots) + r /\ P[i] = <<s[k], r>>
      BY <2>5 DEF AreOf
    <3>2. PICK m \in 1..Len(s), t \in 1..DirSlots :
             j = ((m - 1) * DirSlots) + t /\ P[j] = <<s[m], t>>
      BY <2>5 DEF AreOf
    <3>3. s[k] = s[m] /\ r = t
      BY <2>8, <3>1, <3>2
    <3>4. k = m
      BY <2>2, <3>3
    <3>. QED  BY <3>1, <3>2, <3>3, <3>4
  <2>. QED  BY <2>6, <2>7, <2>8 DEF P
<1>. QED  BY <1>1, <1>2

(* The places of a directory that has grown by a cluster.                  *)
LEMMA PlacesGrow ==
    ASSUME NEW v, NEW w, NEW dir \in Clusters, NEW c \in Clusters,
           Chain(w, dir) = Append(Chain(v, dir), c)
    PROVE  /\ \A i \in DOMAIN Places(v, dir) :
                 i \in DOMAIN Places(w, dir) /\ Places(w, dir)[i] = Places(v, dir)[i]
           /\ \E n \in DOMAIN Places(w, dir) :
                 /\ Places(w, dir)[n] = <<c, 1>>
                 /\ \A i \in DOMAIN Places(w, dir) : i < n => i \in DOMAIN Places(v, dir)
                 /\ \A i \in DOMAIN Places(w, dir) : i >= n => Places(w, dir)[i][1] = c
<1> DEFINE s == Chain(v, dir)
           t == Chain(w, dir)
           P == Places(v, dir)
           Q == Places(w, dir)
           l == Len(s)
<1>1. s \in Seq(Clusters) /\ l \in Nat
  BY ChainGives, LinkedGives
<1>2. P = PlacesIn(s) /\ Q = PlacesIn(t) /\ t = Append(s, c)
  BY NumberTypes DEF Places, Root
<1> HIDE DEF s, t, P, Q
<1>3. /\ t \in Seq(Clusters) /\ Len(t) = l + 1 /\ t[l + 1] = c
      /\ \A i \in 1..l : t[i] = s[i]
  BY <1>1, <1>2, AppendProperties
<1> HIDE DEF l
<1>4. AreOf(P, s)
  BY <1>1, <1>2, PlacesInChain
<1>5. AreOf(Q, t)
  BY <1>2, <1>3, PlacesInChain
<1>6. (l + 1) * DirSlots = (l * DirSlots) + DirSlots /\ DirSlots \in Nat \ {0}
  BY <1>1, NumberTypes
<1>11. /\ l * DirSlots \in Nat /\ DOMAIN P = 1..(l * DirSlots)
       /\ (l + 1) * DirSlots \in Nat /\ DOMAIN Q = 1..((l + 1) * DirSlots)
  BY <1>3, <1>4, <1>5 DEF AreOf, l
<1>7. ASSUME NEW i \in DOMAIN P PROVE i \in DOMAIN Q /\ Q[i] = P[i]
  <2>1. PICK k \in 1..l, r \in 1..DirSlots :
           i = ((k - 1) * DirSlots) + r /\ P[i] = <<s[k], r>>
    BY <1>4 DEF AreOf, l
  <2>2. k \in 1..(l + 1)
    BY <1>1
  <2>3. i \in DOMAIN Q /\ Q[i] = <<t[k], r>>
    BY <1>3, <1>5, <2>1, <2>2 DEF AreOf
  <2>. QED  BY <1>3, <2>1, <2>3
<1> DEFINE n == (l * DirSlots) + 1
<1>8. n \in DOMAIN Q /\ Q[n] = <<c, 1>>
  <2>1. l + 1 \in 1..(l + 1) /\ 1 \in 1..DirSlots /\ (l + 1) - 1 = l
    BY <1>1, <1>6
  <2>. QED  BY <1>3, <1>5, <2>1 DEF AreOf
<1>9. ASSUME NEW i \in DOMAIN Q, i < n PROVE i \in DOMAIN P
  BY <1>9, <1>11
<1>10. ASSUME NEW i \in DOMAIN Q, i >= n PROVE Q[i][1] = c
  <2>1. PICK k \in 1..(l + 1), r \in 1..DirSlots :
           i = ((k - 1) * DirSlots) + r /\ Q[i] = <<t[k], r>>
    BY <1>3, <1>5 DEF AreOf
  <2>2. k = l + 1
    <3>1. CASE k <= l
      <4>1. k * DirSlots <= l * DirSlots /\ (k - 1) * DirSlots = k * DirSlots - DirSlots
        BY <1>1, <1>6, <3>1
      <4>2. k * DirSlots \in Int
        BY <1>6
      <4> DEFINE x == l * DirSlots
                 y == k * DirSlots
                 z == (k - 1) * DirSlots
      <4>4. x \in Nat /\ y \in Int /\ y <= x /\ z = y - DirSlots /\ i = z + r /\ i >= x + 1
        BY <1>10, <1>11, <2>1, <4>1, <4>2
      <4> HIDE DEF x, y, z
      <4>. QED  BY <1>6, <4>4
    <3>. QED  BY <1>1, <3>1
  <2>. QED  BY <1>3, <2>1, <2>2
<1>. QED  BY <1>7, <1>8, <1>9, <1>10 DEF P, Q

LEMMA FirstOfIs ==
    ASSUME NEW order, NEW some, DOMAIN order \in SUBSET Nat
    PROVE  \/ FirstOf(order, some) = << >> /\ \A i \in DOMAIN order : order[i] \notin some
           \/ \E i \in DOMAIN order : /\ order[i] \in some /\ FirstOf(order, some) = <<order[i]>>
                                      /\ \A k \in DOMAIN order : k < i => order[k] \notin some
<1> DEFINE at == {i \in DOMAIN order : order[i] \in some}
<1>1. CASE at = {}
  BY <1>1 DEF FirstOf
<1>2. CASE at # {}
  <2>1. PICK x \in at : \A y \in at : x <= y
    BY <1>2, FirstOfMany
  <2>2. Min(at) \in at /\ \A y \in at : Min(at) <= y
    BY <2>1 DEF Min
  <2>3. \A k \in DOMAIN order : k < Min(at) => order[k] \notin some
    <3>1. \A k \in at : k \in Nat
      OBVIOUS
    <3>2. ASSUME NEW k \in DOMAIN order, k < Min(at), order[k] \in some PROVE FALSE
      <4>1. k \in at /\ Min(at) \in Nat /\ k \in Nat
        BY <2>2, <3>1, <3>2
      <4>. QED  BY <2>2, <3>2, <4>1
    <3>. QED  BY <3>2
  <2>. QED  BY <1>2, <2>2, <2>3 DEF FirstOf
<1>. QED  BY <1>1, <1>2

----------------------------------------------------------------------------
(* The volume as a whole.  An import is in the middle of a write when the  *)
(* entry of the file at out is there but its chain is free, and when       *)
(* there is a chain, the orphan, that has no entry yet.                    *)
Shows(e) == e.kind \in {"file", "dir"} /\ e.name[1] \notin {".", ".."}
Shown(v) == {p \in Slots : Shows(EntryAt(v, p))}
ShownDirs(v) == {p \in Shown(v) : EntryAt(v, p).kind = "dir"}
DirsOf(v) == {Root} \union {EntryAt(v, p).first : p \in ShownDirs(v)}
Unused == {"never", "deleted"}

Orphan == <<1, 0>>
Heads(v, out, first) ==
    [p \in Shown(v) \union {Orphan} |-> IF p = Orphan THEN first
                                        ELSE IF p \in out THEN 0 ELSE EntryAt(v, p).first]
RightSizes(v, out) ==
    \A p \in Shown(v) \ (ShownDirs(v) \union out) :
        Len(Chain(v, EntryAt(v, p).first)) = Pieces(EntryAt(v, p).size)
FilesNamed(v) == \A p \in Slots : EntryAt(v, p).kind = "file" => p \in Shown(v)
Homes(v) == \A p \in Shown(v) : \E d \in DirsOf(v) : p[1] \in Area(v, d)
NoGap(v, d) ==
    \A j, k \in DOMAIN Places(v, d) :
        j < k /\ EntryAt(v, Places(v, d)[j]).kind = "never" => EntryAt(v, Places(v, d)[k]).kind = "never"
\* Directories form a tree: to[d] is the path to d and the directory it is in.
Nested(v, to) ==
    /\ to[Root].path = << >>
    /\ \A d \in DirsOf(v) : to[d].path \in Seq(OnDrive) /\ Len(to[d].path) <= Depth
    /\ \A d \in DirsOf(v), p \in ShownDirs(v) : p[1] \in Area(v, d) =>
          /\ to[EntryAt(v, p).first].path = Append(to[d].path, EntryAt(v, p).name)
          /\ to[EntryAt(v, p).first].up = d
Arranged(v, to) ==
    FilesNamed(v) /\ Homes(v) /\ (\A d \in DirsOf(v) : NoGap(v, d)) /\ Nested(v, to)
Whole(v, out, first, to) ==
    /\ out \subseteq Shown(v) \ ShownDirs(v)
    /\ Chains(v, Heads(v, out, first)) /\ RightSizes(v, out) /\ Arranged(v, to)

Alike(v, w) == Shown(w) = Shown(v) /\ \A p \in Shown(v) : EntryAt(w, p) = EntryAt(v, p)

LEMMA HeadsAre ==
    ASSUME NEW v, NEW out, NEW first
    PROVE  /\ Orphan \notin Slots /\ Shown(v) \subseteq Slots
           /\ DOMAIN Heads(v, out, first) = Shown(v) \union {Orphan}
<1>1. Orphan \notin Slots
  <2>1. Orphan[1] = 1 /\ 1 \notin {Root} \union Clusters
    BY NumberTypes DEF Orphan, Root
  <2>. QED  BY <2>1, SlotsAre
<1>2. Shown(v) \subseteq Slots
  BY DEF Shown
<1>. QED  BY <1>1, <1>2 DEF Heads

LEMMA OrphanHead ==
    ASSUME NEW v, NEW out, NEW first
    PROVE  Heads(v, out, first)[Orphan] = first
  BY DEF Heads

LEMMA SeenHead ==
    ASSUME NEW v, NEW out, NEW first, NEW p \in Shown(v), p \notin out
    PROVE  Heads(v, out, first)[p] = EntryAt(v, p).first
<1>1. p # Orphan
  BY HeadsAre
<1>. QED  BY <1>1 DEF Heads

LEMMA OutHead ==
    ASSUME NEW v, NEW out, NEW first, NEW p \in Shown(v), p \in out
    PROVE  Heads(v, out, first)[p] = 0
<1>1. p # Orphan
  BY HeadsAre
<1>. QED  BY <1>1 DEF Heads

LEMMA AlikeGives ==
    ASSUME NEW v, NEW w, Alike(v, w)
    PROVE  /\ ShownDirs(w) = ShownDirs(v) /\ DirsOf(w) = DirsOf(v)
           /\ \A out, first : Heads(w, out, first) = Heads(v, out, first)
<1>1. Shown(w) = Shown(v) /\ \A p \in Shown(v) : EntryAt(w, p) = EntryAt(v, p)
  BY DEF Alike
<1>2. ShownDirs(w) = ShownDirs(v)
  BY <1>1 DEF ShownDirs
<1>3. \A p \in ShownDirs(v) : EntryAt(w, p) = EntryAt(v, p)
  BY <1>1 DEF ShownDirs
<1>4. DirsOf(w) = DirsOf(v)
  BY <1>2, <1>3 DEF DirsOf
<1>5. \A out, first : Heads(w, out, first) = Heads(v, out, first)
  BY <1>1 DEF Heads
<1>. QED  BY <1>2, <1>4, <1>5

(* A directory's chain.                                                    *)
LEMMA DirFacts ==
    ASSUME NEW v, NEW out, NEW first, NEW to, Whole(v, out, first, to), NEW d \in DirsOf(v)
    PROVE  /\ d \in {Root} \union Clusters /\ Ends(v, d) /\ NoGap(v, d)
           /\ d # Root => \E p \in ShownDirs(v) : /\ EntryAt(v, p).first = d /\ p \in DOMAIN Heads(v, out, first)
                                                  /\ Heads(v, out, first)[p] = d /\ d # 0
           /\ \A c \in Area(v, d) : c = Root \/ (c \in Clusters /\ v.fat[c] # Free)
<1>1. NoGap(v, d)
  BY DEF Whole, Arranged
<1>2. CASE d = Root
  BY <1>1, <1>2, NumberTypes DEF Area, Ends, Root
<1>3. CASE d # Root
  <2>1. PICK p \in ShownDirs(v) : EntryAt(v, p).first = d
    BY <1>3 DEF DirsOf
  <2>2. p \in DOMAIN Heads(v, out, first) /\ Heads(v, out, first)[p] = d
    <3>1. p \in Shown(v) /\ p \notin out
      <4>1. out \subseteq Shown(v) \ ShownDirs(v)
        BY DEF Whole
      <4>. QED  BY <4>1 DEF ShownDirs
    <3>. QED  BY <2>1, <3>1, HeadsAre, SeenHead
  <2>3. d \in {0} \union Clusters /\ Ends(v, d)
    BY <2>2 DEF Whole, Chains
  <2>4. \A c \in ClustersOf(v, d) : c \in Clusters /\ v.fat[c] # Free
    BY <2>3, NotFree, ClustersAre
  <2>. QED  BY <1>1, <1>3, <2>1, <2>2, <2>3, <2>4 DEF Area, Root
<1>. QED  BY <1>2, <1>3

(* No two directories have entries in the same cluster.                    *)
LEMMA AreasApart ==
    ASSUME NEW v, NEW out, NEW first, NEW to, Whole(v, out, first, to),
           NEW d \in DirsOf(v), NEW e \in DirsOf(v), NEW c, c \in Area(v, d), c \in Area(v, e)
    PROVE  d = e
<1>1. CASE d = Root \/ e = Root
  <2>1. \A x : Root \notin ClustersOf(v, x)
    BY ClustersAre, NumberTypes DEF Root
  <2>. QED  BY <1>1, <2>1 DEF Area
<1>2. CASE d # Root /\ e # Root
  <2> DEFINE H == Heads(v, out, first)
  <2>1. PICK p \in DOMAIN H : H[p] = d
    BY <1>2, DirFacts
  <2>2. PICK q \in DOMAIN H : H[q] = e
    BY <1>2, DirFacts
  <2>3. \A i, j \in DOMAIN H : i = j \/ ClustersOf(v, H[i]) \intersect ClustersOf(v, H[j]) = {}
    BY DEF Whole, Chains
  <2>4. c \in ClustersOf(v, d) /\ c \in ClustersOf(v, e)
    BY <1>2 DEF Area
  <2> HIDE DEF H
  <2>. QED  BY <2>1, <2>2, <2>3, <2>4
<1>. QED  BY <1>1, <1>2

(* The orphan is no directory's, and neither is a file's chain.            *)
LEMMA OrphanApart ==
    ASSUME NEW v, NEW out, NEW first, NEW to, Whole(v, out, first, to), NEW d \in DirsOf(v),
           NEW c \in ClustersOf(v, first)
    PROVE  c \notin Area(v, d)
<1> DEFINE H == Heads(v, out, first)
<1>1. Orphan \in DOMAIN H /\ H[Orphan] = first /\ \A p \in ShownDirs(v) : p # Orphan
  <2>1. ShownDirs(v) \subseteq Shown(v)
    BY DEF ShownDirs
  <2>. QED  BY <2>1, HeadsAre, OrphanHead
<1>2. \A i, j \in DOMAIN H : i = j \/ ClustersOf(v, H[i]) \intersect ClustersOf(v, H[j]) = {}
  BY DEF Whole, Chains
<1>3. c # Root
  BY ClustersAre, NumberTypes DEF Root
<1>4. CASE d = Root
  BY <1>3, <1>4 DEF Area
<1>5. CASE d # Root
  <2>1. PICK p \in ShownDirs(v) : p \in DOMAIN H /\ H[p] = d
    BY <1>5, DirFacts
  <2>2. Area(v, d) = ClustersOf(v, d)
    BY <1>5 DEF Area
  <2> HIDE DEF H
  <2>. QED  BY <1>1, <1>2, <2>1, <2>2
<1>. QED  BY <1>4, <1>5

(* What is seen is in the list of its directory, and only that.            *)
LEMMA SeenIsListed ==
    ASSUME NEW v, NEW out, NEW first, NEW to, Whole(v, out, first, to), NEW d \in DirsOf(v),
           NEW p \in Shown(v), p[1] \in Area(v, d)
    PROVE  p \in List(v, d)
<1> DEFINE P == Places(v, d)
<1>1. d \in {Root} \union Clusters /\ Ends(v, d) /\ NoGap(v, d)
  BY DirFacts
<1>2. p \in Slots /\ EntryAt(v, p).kind \in {"file", "dir"}
  BY DEF Shown, Shows
<1>3. PICK i \in DOMAIN P : P[i] = p
  BY <1>1, <1>2, PlacesOf
<1>4. i \in Nat \ {0} /\ 1..i \subseteq DOMAIN P
  BY <1>1, PlacesOf
<1>5. ASSUME NEW k \in 1..i, EntryAt(v, P[k]).kind = "never" PROVE FALSE
  <2>1. k = i \/ k < i
    BY <1>4
  <2>2. k \in DOMAIN P
    BY <1>4
  <2>. QED  BY <1>1, <1>2, <1>3, <1>5, <2>1, <2>2 DEF NoGap
<1>6. /\ i \in DOMAIN P /\ EntryAt(v, P[i]).kind # "deleted"
      /\ \A k \in 1..i : EntryAt(v, P[k]).kind # "never"
  BY <1>2, <1>3, <1>5
<1>. QED  BY <1>3, <1>6 DEF List, InUse

LEMMA ListedIsSeen ==
    ASSUME NEW v, Volume(v), NEW d \in {Root} \union Clusters, Ends(v, d), NEW p \in List(v, d)
    PROVE  p \in Slots /\ p[1] \in Area(v, d) /\ EntryAt(v, p).kind \in {"file", "dir"}
<1> DEFINE P == Places(v, d)
<1>1. PICK j \in DOMAIN P : /\ p = P[j] /\ EntryAt(v, P[j]).kind # "deleted"
                            /\ \A k \in 1..j : EntryAt(v, P[k]).kind # "never"
  BY DEF List, InUse
<1>2. j \in Nat \ {0} /\ P[j] \in Slots /\ P[j][1] \in Area(v, d)
  BY PlacesOf
<1>3. j \in 1..j
  BY <1>2
<1>4. EntryAt(v, p).kind \notin Unused
  BY <1>1, <1>3 DEF Unused
<1>5. p = <<p[1], p[2]>> /\ p[1] \in 0..(N + 1) /\ p[2] \in SlotsOf(p[1])
  BY <1>1, <1>2, SlotsAre
<1>6. FineEntry(EntryAt(v, <<p[1], p[2]>>))
  BY <1>5, EntryIsFine
<1>7. FineEntry(EntryAt(v, p))
  BY <1>5, <1>6
<1>. QED  BY <1>1, <1>2, <1>4, <1>7 DEF FineEntry, Unused

LEMMA SlotIsFine ==
    ASSUME NEW v, Volume(v), NEW p \in Slots
    PROVE  FineEntry(EntryAt(v, p))
<1>1. p = <<p[1], p[2]>> /\ p[1] \in 0..(N + 1) /\ p[2] \in SlotsOf(p[1])
  BY SlotsAre
<1>2. FineEntry(EntryAt(v, <<p[1], p[2]>>))
  BY <1>1, EntryIsFine
<1>. QED  BY <1>1, <1>2

LEMMA NoGapKept ==
    ASSUME NEW v, NEW w, NEW d \in {Root} \union Clusters, Ends(v, d), NoGap(v, d),
           Chain(w, d) = Chain(v, d),
           \A p \in Slots : p[1] \in Area(v, d) =>
               (EntryAt(w, p).kind = "never" <=> EntryAt(v, p).kind = "never")
    PROVE  NoGap(w, d)
<1>1. Places(w, d) = Places(v, d)
  BY DEF Places
<1>2. \A i \in DOMAIN Places(v, d) :
         EntryAt(w, Places(v, d)[i]).kind = "never" <=> EntryAt(v, Places(v, d)[i]).kind = "never"
  BY PlacesOf
<1>. QED  BY <1>1, <1>2 DEF NoGap

(* Changes that are not seen: entries not in use are cleared, and          *)
(* directories get new clusters.                                           *)
Unseen(e) == e.kind # "file" /\ ~Shows(e)
LEMMA ArrangedKept ==
    ASSUME NEW v, NEW w, NEW to, Arranged(v, to),
           \A p \in Slots : \/ EntryAt(w, p) = EntryAt(v, p)
                            \/ p \notin Shown(v) /\ Unseen(EntryAt(w, p)),
           \A d \in DirsOf(v) : Area(v, d) \subseteq Area(w, d) /\ NoGap(w, d),
           \A d, e \in DirsOf(v) : \A c \in Area(w, d) : c \in Area(v, e) => c \in Area(v, d)
    PROVE  Alike(v, w) /\ Arranged(w, to)
<1>1. \A p \in Slots : p \in Shown(w) <=> p \in Shown(v)
  BY DEF Shown, Unseen
<1>2. Shown(w) = Shown(v)
  BY <1>1 DEF Shown
<1>3. Alike(v, w)
  BY <1>2 DEF Alike, Shown
<1>4. ShownDirs(w) = ShownDirs(v) /\ DirsOf(w) = DirsOf(v)
  BY <1>3, AlikeGives
<1>5. FilesNamed(w)
  BY <1>2 DEF FilesNamed, Arranged, Unseen
<1>6. Homes(w)
  BY <1>2, <1>4 DEF Homes, Arranged
<1>7. Nested(w, to)
  <2>1. ASSUME NEW d \in DirsOf(v), NEW p \in ShownDirs(v), p[1] \in Area(w, d)
        PROVE  /\ to[EntryAt(w, p).first].path = Append(to[d].path, EntryAt(w, p).name)
               /\ to[EntryAt(w, p).first].up = d
    <3>1. p \in Shown(v)
      BY DEF ShownDirs
    <3>2. PICK e \in DirsOf(v) : p[1] \in Area(v, e)
      BY <3>1 DEF Homes, Arranged
    <3>3. p[1] \in Area(v, d)
      BY <2>1, <3>2
    <3>4. EntryAt(w, p) = EntryAt(v, p)
      BY <1>3, <3>1 DEF Alike
    <3>. QED  BY <3>3, <3>4 DEF Nested, Arranged
  <2>. QED  BY <1>4, <2>1 DEF Nested, Arranged
<1>. QED  BY <1>3, <1>4, <1>5, <1>6, <1>7 DEF Arranged

----------------------------------------------------------------------------
(* A free cluster is cleared and taken.                                    *)
Blanked(v, w, c) ==
    \A p \in Slots : IF p[1] = c THEN EntryAt(w, p).kind = "never" ELSE EntryAt(w, p) = EntryAt(v, p)

LEMMA FreeUnseen ==
    ASSUME NEW v, NEW out, NEW first, NEW to, Whole(v, out, first, to), NEW c \in FreeClusters(v)
    PROVE  /\ \A d \in DirsOf(v) : c \notin Area(v, d)
           /\ \A p \in Shown(v) : p[1] # c
<1>1. c \in Clusters /\ v.fat[c] = Free /\ c # Root
  BY NumberTypes DEF FreeClusters, Root
<1>2. \A d \in DirsOf(v) : c \notin Area(v, d)
  BY <1>1, DirFacts
<1>3. \A p \in Shown(v) : p[1] # c
  BY <1>2 DEF Whole, Arranged, Homes
<1>. QED  BY <1>2, <1>3

\* The chains of files, directories and the orphan but for one are as they were.
KeptBut(v, w, out, first, j) ==
    /\ \A p \in Shown(v) : p # j /\ p \notin out =>
          Chain(w, EntryAt(v, p).first) = Chain(v, EntryAt(v, p).first)
    /\ \A d \in DirsOf(v) : (j \in ShownDirs(v) => d # EntryAt(v, j).first) =>
          Chain(w, d) = Chain(v, d)
    /\ j # Orphan => Chain(w, first) = Chain(v, first)

LEMMA OthersSame ==
    ASSUME NEW v, NEW w, NEW out, NEW first, NEW to, Whole(v, out, first, to),
           NEW j, SameBut(v, w, Heads(v, out, first), j)
    PROVE  KeptBut(v, w, out, first, j)
<1>1. out \intersect ShownDirs(v) = {} /\ ShownDirs(v) \subseteq Shown(v)
  BY DEF Whole, ShownDirs
<1>2. ASSUME NEW p \in Shown(v), p # j, p \notin out
      PROVE  Chain(w, EntryAt(v, p).first) = Chain(v, EntryAt(v, p).first)
  <2>1. Heads(v, out, first)[p] = EntryAt(v, p).first
    BY <1>2, SeenHead
  <2>2. p \in DOMAIN Heads(v, out, first) \ {j}
    BY <1>2, HeadsAre
  <2>. QED  BY <2>1, <2>2 DEF SameBut
<1>3. ASSUME NEW d \in DirsOf(v), j \in ShownDirs(v) => d # EntryAt(v, j).first
      PROVE  Chain(w, d) = Chain(v, d)
  <2>1. CASE d = Root
    <3>1. Chain(w, d) = << >> /\ Chain(v, d) = << >>
      BY <2>1, ChainGives, NumberTypes DEF Root
    <3>. QED  BY <3>1
  <2>2. CASE d # Root
    <3>1. PICK p \in ShownDirs(v) : EntryAt(v, p).first = d
      BY <2>2 DEF DirsOf
    <3>2. p # j
      BY <1>3, <3>1
    <3>. QED  BY <1>1, <1>2, <3>1, <3>2
  <2>. QED  BY <2>1, <2>2
<1>4. j # Orphan => Chain(w, first) = Chain(v, first)
  <2>1. Orphan \in DOMAIN Heads(v, out, first) /\ Heads(v, out, first)[Orphan] = first
    BY HeadsAre, OrphanHead
  <2>. QED  BY <2>1 DEF SameBut
<1>. QED  BY <1>2, <1>3, <1>4 DEF KeptBut

LEMMA SizesKept ==
    ASSUME NEW v, NEW w, NEW out, RightSizes(v, out), Alike(v, w),
           \A p \in Shown(v) \ (ShownDirs(v) \union out) :
               Chain(w, EntryAt(v, p).first) = Chain(v, EntryAt(v, p).first)
    PROVE  RightSizes(w, out)
  BY AlikeGives DEF RightSizes, Alike

LEMMA BlankKeeps ==
    ASSUME NEW v, NEW w, NEW out, NEW first, NEW to, Whole(v, out, first, to),
           NEW c \in FreeClusters(v), Blanked(v, w, c),
           \A d \in DirsOf(v) : Chain(w, d) = Chain(v, d)
    PROVE  Alike(v, w) /\ Arranged(w, to)
<1>1. \A p \in Slots : \/ EntryAt(w, p) = EntryAt(v, p)
                       \/ p \notin Shown(v) /\ Unseen(EntryAt(w, p))
  BY FreeUnseen DEF Blanked, Unseen, Shows
<1>2. \A d \in DirsOf(v) : Area(w, d) = Area(v, d)
  BY DEF Area, ClustersOf
<1>3. ASSUME NEW d \in DirsOf(v) PROVE NoGap(w, d)
  <2>1. d \in {Root} \union Clusters /\ Ends(v, d) /\ NoGap(v, d)
    BY DirFacts
  <2>2. \A p \in Slots : p[1] \in Area(v, d) => EntryAt(w, p).kind = EntryAt(v, p).kind
    BY FreeUnseen DEF Blanked
  <2>3. Chain(w, d) = Chain(v, d)
    OBVIOUS
  <2>. QED  BY <2>1, <2>2, <2>3, NoGapKept
<1>4. \A d \in DirsOf(v) : Area(v, d) \subseteq Area(w, d) /\ NoGap(w, d)
  BY <1>2, <1>3
<1>5. \A d, e \in DirsOf(v) : \A x \in Area(w, d) : x \in Area(v, e) => x \in Area(v, d)
  BY <1>2
<1>6. Arranged(v, to)
  BY DEF Whole
<1>. QED  BY <1>1, <1>4, <1>5, <1>6, ArrangedKept

LEMMA WholeTakes ==
    ASSUME NEW v, v.fat \in Fats, NEW w, NEW out, NEW to, Whole(v, out, 0, to),
           NEW c \in FreeClusters(v), w.fat = [v.fat EXCEPT ![c] = Eoc], Blanked(v, w, c)
    PROVE  Whole(w, out, c, to) /\ Alike(v, w) /\ Chain(w, c) = <<c>>
<1> DEFINE H == Heads(v, out, 0)
           K == Heads(v, out, c)
<1>1. DOMAIN K = DOMAIN H /\ Orphan \in DOMAIN H
  BY HeadsAre
<1>2. H[Orphan] = 0 /\ K[Orphan] = c
  BY OrphanHead DEF H, K
<1>3. \A i \in DOMAIN H \ {Orphan} : K[i] = H[i]
  BY DEF Heads
<1>4. Chains(v, H) /\ RightSizes(v, out) /\ out \subseteq Shown(v) \ ShownDirs(v)
  BY DEF Whole
<1> HIDE DEF H, K
<1>5. Chains(w, K) /\ Chain(w, c) = <<c>> /\ SameBut(v, w, H, Orphan)
  BY <1>1, <1>2, <1>3, <1>4, HeadTakes
<1>11. SameBut(v, w, H, Orphan)
  BY <1>5
<1>6. Orphan \notin ShownDirs(v) /\ \A p \in Shown(v) : p # Orphan
  BY HeadsAre DEF ShownDirs
<1>7. /\ \A p \in Shown(v) : p \notin out => Chain(w, EntryAt(v, p).first) = Chain(v, EntryAt(v, p).first)
      /\ \A d \in DirsOf(v) : Chain(w, d) = Chain(v, d)
  <2>1. KeptBut(v, w, out, 0, Orphan)
    BY <1>11, OthersSame DEF H
  <2>. QED  BY <1>6, <2>1 DEF KeptBut
<1>8. Alike(v, w) /\ Arranged(w, to)
  BY <1>7, BlankKeeps
<1>9. RightSizes(w, out)
  BY <1>4, <1>7, <1>8, SizesKept
<1>10. Chains(w, Heads(w, out, c)) /\ out \subseteq Shown(w) \ ShownDirs(w)
  <2>1. Heads(w, out, c) = K
    BY <1>8, AlikeGives DEF K
  <2>. QED  BY <1>4, <1>5, <1>8, <2>1, AlikeGives DEF Alike
<1>. QED  BY <1>5, <1>8, <1>9, <1>10 DEF Whole

(* A cluster is linked to the orphan.                                      *)
Lengthened(v, w, out, first, to, c) ==
    Whole(w, out, first, to) /\ Alike(v, w) /\ Chain(w, first) = Append(Chain(v, first), c)

LEMMA WholeLinks ==
    ASSUME NEW v, v.fat \in Fats, NEW w, NEW out, NEW first, first # 0, NEW to, Whole(v, out, first, to),
           NEW c \in FreeClusters(v), Blanked(v, w, c),
           LinkedAt(v, w, Last(Chain(v, first)), c)
    PROVE  Lengthened(v, w, out, first, to, c)
<1> DEFINE H == Heads(v, out, first)
<1>1. Orphan \in DOMAIN H
  BY HeadsAre
<1>2. H[Orphan] = first
  BY OrphanHead
<1>3. Chains(v, H) /\ RightSizes(v, out) /\ out \subseteq Shown(v) \ ShownDirs(v)
  BY DEF Whole
<1> HIDE DEF H
<1>4. Chains(w, H) /\ Chain(w, first) = Append(Chain(v, first), c) /\ SameBut(v, w, H, Orphan)
  <2>1. LinkedAt(v, w, Last(Chain(v, H[Orphan])), c) /\ H[Orphan] # 0
    BY <1>2
  <2>2. Chains(w, H) /\ Chain(w, H[Orphan]) = Append(Chain(v, H[Orphan]), c) /\ SameBut(v, w, H, Orphan)
    BY <1>1, <1>3, <2>1, HeadGrows
  <2>. QED  BY <1>2, <2>2
<1>5. Orphan \notin ShownDirs(v) /\ \A p \in Shown(v) : p # Orphan
  BY HeadsAre DEF ShownDirs
<1>6. /\ \A p \in Shown(v) : p \notin out => Chain(w, EntryAt(v, p).first) = Chain(v, EntryAt(v, p).first)
      /\ \A d \in DirsOf(v) : Chain(w, d) = Chain(v, d)
  <2>1. KeptBut(v, w, out, first, Orphan)
    BY <1>4, OthersSame DEF H
  <2>. QED  BY <1>5, <2>1 DEF KeptBut
<1>7. Alike(v, w) /\ Arranged(w, to)
  BY <1>6, BlankKeeps
<1>8. RightSizes(w, out)
  BY <1>3, <1>6, <1>7, SizesKept
<1>9. Chains(w, Heads(w, out, first)) /\ out \subseteq Shown(w) \ ShownDirs(w)
  <2>1. Heads(w, out, first) = H
    BY <1>7, AlikeGives DEF H
  <2>. QED  BY <1>3, <1>4, <1>7, <2>1, AlikeGives DEF Alike
<1>. QED  BY <1>4, <1>7, <1>8, <1>9 DEF Whole, Lengthened

(* A place for an entry: the first one not in use.                         *)
OpenAt(v, d, p) ==
    /\ d \in DirsOf(v)
    /\ \E i \in DOMAIN Places(v, d) :
          /\ Places(v, d)[i] = p /\ EntryAt(v, p).kind \in Unused
          /\ \A k \in DOMAIN Places(v, d) : k < i => EntryAt(v, Places(v, d)[k]).kind \notin Unused

(* A directory without a place for an entry grows.                         *)
LEMMA WholeDirGrows ==
    ASSUME NEW v, v.fat \in Fats, NEW w, NEW out, NEW first, NEW to, Whole(v, out, first, to),
           NEW d \in DirsOf(v), d # Root,
           \A i \in DOMAIN Places(v, d) : EntryAt(v, Places(v, d)[i]).kind \notin Unused,
           NEW c \in FreeClusters(v), Blanked(v, w, c),
           LinkedAt(v, w, Last(Chain(v, d)), c)
    PROVE  /\ Whole(w, out, first, to) /\ Alike(v, w) /\ Chain(w, first) = Chain(v, first)
           /\ OpenAt(w, d, <<c, 1>>)
<1> DEFINE H == Heads(v, out, first)
<1>1. PICK j \in ShownDirs(v) : EntryAt(v, j).first = d /\ j \in DOMAIN H /\ H[j] = d /\ d # 0
  BY DirFacts
<1>2. d \in Clusters /\ Ends(v, d) /\ c \in Clusters
  BY DirFacts DEF FreeClusters
<1>3. Chains(v, H) /\ RightSizes(v, out) /\ out \subseteq Shown(v) \ ShownDirs(v) /\ Arranged(v, to)
  BY DEF Whole
<1> HIDE DEF H
<1>4. Chains(w, H) /\ Chain(w, d) = Append(Chain(v, d), c) /\ SameBut(v, w, H, j)
  <2>1. LinkedAt(v, w, Last(Chain(v, H[j])), c) /\ H[j] # 0
    BY <1>1
  <2>2. Chains(w, H) /\ Chain(w, H[j]) = Append(Chain(v, H[j]), c) /\ SameBut(v, w, H, j)
    BY <1>1, <1>3, <2>1, HeadGrows
  <2>. QED  BY <1>1, <2>2
<1>5. j # Orphan /\ j \in Shown(v)
  BY HeadsAre DEF ShownDirs
<1>6. /\ \A p \in Shown(v) : p # j /\ p \notin out =>
            Chain(w, EntryAt(v, p).first) = Chain(v, EntryAt(v, p).first)
      /\ \A e \in DirsOf(v) : e # d => Chain(w, e) = Chain(v, e)
      /\ Chain(w, first) = Chain(v, first)
  <2>1. KeptBut(v, w, out, first, j)
    BY <1>4, OthersSame DEF H
  <2>. QED  BY <1>1, <1>5, <2>1 DEF KeptBut
<1>7. Area(w, d) = Area(v, d) \union {c} /\ \A e \in DirsOf(v) : e # d => Area(w, e) = Area(v, e)
  <2>1. Chain(v, d) \in Seq(Clusters)
    BY ChainGives, LinkedGives
  <2>2. ToSet(Append(Chain(v, d), c)) = ToSet(Chain(v, d)) \union {c}
    <3> DEFINE s == Chain(v, d)
               t == Append(s, c)
    <3>1. Len(s) \in Nat /\ Len(t) = Len(s) + 1 /\ t[Len(s) + 1] = c /\ \A i \in 1..Len(s) : t[i] = s[i]
      BY <1>2, <2>1, AppendProperties
    <3>2. DOMAIN s = 1..Len(s) /\ DOMAIN t = 1..(Len(s) + 1)
      BY <1>2, <2>1, <3>1, AppendProperties
    <3> HIDE DEF s, t
    <3>3. 1..(Len(s) + 1) = (1..Len(s)) \union {Len(s) + 1}
      BY <3>1
    <3>. QED  BY <3>1, <3>2, <3>3 DEF ToSet, s, t
  <2>. QED  BY <1>4, <1>6, <2>2 DEF Area, ClustersOf
<1>8. \A e \in DirsOf(v) : c \notin Area(v, e)
  BY FreeUnseen
<1>9. /\ \A p \in Slots : p[1] = c => EntryAt(w, p).kind = "never"
      /\ \A p \in Slots : p[1] # c => EntryAt(w, p) = EntryAt(v, p)
  BY DEF Blanked
<1>10. \A p \in Slots : \/ EntryAt(w, p) = EntryAt(v, p)
                        \/ p \notin Shown(v) /\ Unseen(EntryAt(w, p))
  BY <1>9, FreeUnseen DEF Unseen, Shows
<1>11. /\ \A i \in DOMAIN Places(v, d) :
             /\ i \in DOMAIN Places(w, d) /\ Places(w, d)[i] = Places(v, d)[i]
             /\ EntryAt(w, Places(v, d)[i]).kind \notin Unused
  <2>1. \A i \in DOMAIN Places(v, d) : Places(v, d)[i] \in Slots /\ Places(v, d)[i][1] # c
    BY <1>2, <1>8, PlacesOf
  <2>2. \A i \in DOMAIN Places(v, d) : i \in DOMAIN Places(w, d) /\ Places(w, d)[i] = Places(v, d)[i]
    BY <1>2, <1>4, PlacesGrow
  <2>. QED  BY <1>9, <2>1, <2>2
<1>12. PICK n \in DOMAIN Places(w, d) :
          /\ Places(w, d)[n] = <<c, 1>>
          /\ \A i \in DOMAIN Places(w, d) : i < n => i \in DOMAIN Places(v, d)
          /\ \A i \in DOMAIN Places(w, d) : i >= n => Places(w, d)[i][1] = c
  BY <1>2, <1>4, PlacesGrow
<1>13. Ends(w, d)
  BY <1>1, <1>4 DEF Chains
<1>14. \A i \in DOMAIN Places(w, d) : i >= n => EntryAt(w, Places(w, d)[i]).kind = "never"
  BY <1>2, <1>9, <1>12, <1>13, PlacesOf
<1>15. \A i \in DOMAIN Places(w, d) : i < n => EntryAt(w, Places(w, d)[i]).kind \notin Unused
  BY <1>11, <1>12
<1>16. NoGap(w, d)
  <2>1. ASSUME NEW i \in DOMAIN Places(w, d), NEW k \in DOMAIN Places(w, d), i < k,
               EntryAt(w, Places(w, d)[i]).kind = "never"
        PROVE  EntryAt(w, Places(w, d)[k]).kind = "never"
    <3>1. i \in Nat /\ k \in Nat /\ n \in Nat
      BY <1>2, <1>13, PlacesOf
    <3>2. ~(i < n)
      BY <1>15, <2>1 DEF Unused
    <3>. QED  BY <1>14, <2>1, <3>1, <3>2
  <2>. QED  BY <2>1 DEF NoGap
<1>17. ASSUME NEW e \in DirsOf(v), e # d PROVE NoGap(w, e)
  <2>1. e \in {Root} \union Clusters /\ Ends(v, e) /\ NoGap(v, e)
    BY DirFacts
  <2>2. \A p \in Slots : p[1] \in Area(v, e) => EntryAt(w, p).kind = EntryAt(v, p).kind
    BY <1>8, <1>9
  <2>3. Chain(w, e) = Chain(v, e)
    BY <1>6, <1>17
  <2>. QED  BY <2>1, <2>2, <2>3, NoGapKept
<1>18. \A e \in DirsOf(v) : Area(v, e) \subseteq Area(w, e) /\ NoGap(w, e)
  BY <1>7, <1>16, <1>17
<1>19. \A e, f \in DirsOf(v) : \A x \in Area(w, e) : x \in Area(v, f) => x \in Area(v, e)
  BY <1>7, <1>8
<1>20. Alike(v, w) /\ Arranged(w, to)
  BY <1>3, <1>10, <1>18, <1>19, ArrangedKept
<1>21. RightSizes(w, out)
  <2>1. \A p \in Shown(v) \ (ShownDirs(v) \union out) :
           Chain(w, EntryAt(v, p).first) = Chain(v, EntryAt(v, p).first)
    BY <1>6
  <2>. QED  BY <1>3, <1>20, <2>1, SizesKept
<1>22. Chains(w, Heads(w, out, first)) /\ out \subseteq Shown(w) \ ShownDirs(w) /\ d \in DirsOf(w)
  <2>1. Heads(w, out, first) = H
    BY <1>20, AlikeGives DEF H
  <2>. QED  BY <1>3, <1>4, <1>20, <2>1, AlikeGives DEF Alike
<1>23. EntryAt(w, <<c, 1>>).kind \in Unused
  <2>1. n >= n
    BY <1>2, <1>13, PlacesOf
  <2>. QED  BY <1>12, <1>14, <2>1 DEF Unused
<1>24. OpenAt(w, d, <<c, 1>>)
  BY <1>12, <1>15, <1>22, <1>23 DEF OpenAt
<1>. QED  BY <1>6, <1>20, <1>21, <1>22, <1>24 DEF Whole

----------------------------------------------------------------------------
(* What is written in clusters and entries.                                *)
LEMMA BlankedIs ==
    ASSUME NEW v, Volume(v), NEW w, NEW c \in Clusters, NEW blank,
           blank.entries = [i \in 1..DirSlots |-> Never], w.content = [v.content EXCEPT ![c] = blank]
    PROVE  Blanked(v, w, c)
<1> SUFFICES ASSUME NEW p \in Slots
             PROVE  IF p[1] = c THEN EntryAt(w, p).kind = "never" ELSE EntryAt(w, p) = EntryAt(v, p)
  BY DEF Blanked
<1>1. p[1] \in 0..(N + 1) /\ p[2] \in SlotsOf(p[1])
  BY SlotsAre
<1>2. p[1] \in DOMAIN v.content
  BY <1>1 DEF Volume, FineContent
<1>3. CASE p[1] = c
  <2>1. w.content[p[1]] = blank
    BY <1>2, <1>3
  <2>2. p[2] \in 1..DirSlots
    BY <1>1, <1>3, NumberTypes DEF SlotsOf, Root
  <2>3. EntryAt(w, p) = Never
    BY <2>1, <2>2 DEF EntryAt
  <2>4. Never.kind = "never"
    BY DEF Never, Entry
  <2>. QED  BY <1>3, <2>3, <2>4
<1>4. CASE p[1] # c
  <2>1. w.content[p[1]] = v.content[p[1]]
    BY <1>2, <1>4
  <2>. QED  BY <1>4, <2>1 DEF EntryAt
<1>. QED  BY <1>3, <1>4

\* Only the entry at place changes, to e.
EntryWritten(v, w, place, e) ==
    \A p \in Slots : IF p = place THEN EntryAt(w, p) = e ELSE EntryAt(w, p) = EntryAt(v, p)

LEMMA WrittenIs ==
    ASSUME NEW v, Volume(v), NEW place \in Slots, NEW e
    PROVE  EntryWritten(v, WriteEntry(v, place, e), place, e)
<1> DEFINE w == WriteEntry(v, place, e)
           a == place[1]
           b == place[2]
<1>1. w.content = [v.content EXCEPT ![a].entries[b] = e]
  BY DEF Volume, HasFields, WriteEntry
<1> HIDE DEF w
<1>2. ASSUME NEW p \in Slots
      PROVE  IF p = place THEN EntryAt(w, p) = e ELSE EntryAt(w, p) = EntryAt(v, p)
  <2>1. p[1] \in 0..(N + 1) /\ p[2] \in SlotsOf(p[1]) /\ (p[1] = a /\ p[2] = b => p = place)
    BY SlotsAre
  <2> HIDE DEF a, b
  <2>2. /\ p[1] \in DOMAIN v.content /\ "entries" \in DOMAIN v.content[p[1]]
        /\ p[2] \in DOMAIN v.content[p[1]].entries
    BY <2>1 DEF Volume, FineContent
  <2>3. CASE p[1] = a
    <3>1. w.content[p[1]] = [v.content[p[1]] EXCEPT !.entries[b] = e]
      BY <1>1, <2>2, <2>3
    <3>2. w.content[p[1]].entries = [v.content[p[1]].entries EXCEPT ![b] = e]
      BY <2>2, <3>1
    <3>3. EntryAt(w, p) = IF p[2] = b THEN e ELSE EntryAt(v, p)
      BY <2>2, <3>2 DEF EntryAt
    <3>4. p = place => p[2] = b
      BY DEF b
    <3>. QED  BY <2>1, <2>3, <3>3, <3>4
  <2>4. CASE p[1] # a
    <3>1. w.content[p[1]] = v.content[p[1]]
      BY <1>1, <2>2, <2>4
    <3>2. p # place
      BY <2>4 DEF a
    <3>. QED  BY <3>1, <3>2 DEF EntryAt
  <2>. QED  BY <2>3, <2>4
<1>3. EntryWritten(v, w, place, e)
  BY <1>2 DEF EntryWritten
<1>. QED  BY <1>3 DEF w

Dotted(v, w, c, parent) ==
    \A p \in Slots : IF p[1] = c THEN EntryAt(w, p) = Dots(c, parent)[p[2]]
                                 ELSE EntryAt(w, p) = EntryAt(v, p)

LEMMA DottedIs ==
    ASSUME NEW v, Volume(v), NEW c \in Clusters, NEW parent
    PROVE  Dotted(v, [v EXCEPT !.content[c].entries = Dots(c, parent)], c, parent)
<1> DEFINE w == [v EXCEPT !.content[c].entries = Dots(c, parent)]
<1>1. w.content = [v.content EXCEPT ![c].entries = Dots(c, parent)]
  BY DEF Volume, HasFields
<1> HIDE DEF w
<1>2. ASSUME NEW p \in Slots
      PROVE  IF p[1] = c THEN EntryAt(w, p) = Dots(c, parent)[p[2]]
                         ELSE EntryAt(w, p) = EntryAt(v, p)
  <2>1. p[1] \in 0..(N + 1)
    BY SlotsAre
  <2>2. p[1] \in DOMAIN v.content /\ "entries" \in DOMAIN v.content[p[1]]
    BY <2>1 DEF Volume, FineContent
  <2>3. CASE p[1] = c
    <3>1. w.content[p[1]] = [v.content[p[1]] EXCEPT !.entries = Dots(c, parent)]
      BY <1>1, <2>2, <2>3
    <3>2. w.content[p[1]].entries = Dots(c, parent)
      BY <2>2, <3>1
    <3>. QED  BY <2>3, <3>2 DEF EntryAt
  <2>4. CASE p[1] # c
    <3>1. w.content[p[1]] = v.content[p[1]]
      BY <1>1, <2>2, <2>4
    <3>. QED  BY <2>4, <3>1 DEF EntryAt
  <2>. QED  BY <2>3, <2>4
<1>3. Dotted(v, w, c, parent)
  BY <1>2 DEF Dotted
<1>. QED  BY <1>3 DEF w

(* A place for a new entry.                                                *)
NoneOpen(v, d) == \A i \in DOMAIN Places(v, d) : EntryAt(v, Places(v, d)[i]).kind \notin Unused
LEMMA OpenPlaceIs ==
    ASSUME NEW v, NEW d \in DirsOf(v)
    PROVE  IF OpenPlace(v, d) = << >> THEN NoneOpen(v, d) ELSE OpenAt(v, d, Head(OpenPlace(v, d)))
<1> DEFINE P == Places(v, d)
           some == {p \in ToSet(P) : EntryAt(v, p).kind \in Unused}
<1>1. OpenPlace(v, d) = FirstOf(P, some)
  BY DEF OpenPlace, Unused
<1>2. DOMAIN P \in SUBSET Nat
  BY PlacesThere DEF PlacesOK
<1>3. \A i \in DOMAIN P : P[i] \in some <=> EntryAt(v, P[i]).kind \in Unused
  BY DEF ToSet
<1> HIDE DEF P, some
<1>4. CASE FirstOf(P, some) = << >> /\ \A i \in DOMAIN P : P[i] \notin some
  BY <1>1, <1>3, <1>4 DEF NoneOpen, P
<1>5. CASE \E i \in DOMAIN P : /\ P[i] \in some /\ FirstOf(P, some) = <<P[i]>>
                               /\ \A k \in DOMAIN P : k < i => P[k] \notin some
  <2>1. PICK i \in DOMAIN P : /\ P[i] \in some /\ FirstOf(P, some) = <<P[i]>>
                              /\ \A k \in DOMAIN P : k < i => P[k] \notin some
    BY <1>5
  <2>2. Head(OpenPlace(v, d)) = P[i] /\ OpenPlace(v, d) # << >>
    BY <1>1, <2>1
  <2>3. EntryAt(v, P[i]).kind \in Unused /\ \A k \in DOMAIN P : k < i => EntryAt(v, P[k]).kind \notin Unused
    BY <1>3, <2>1
  <2>4. OpenAt(v, d, P[i])
    BY <2>3 DEF OpenAt, P
  <2>. QED  BY <2>2, <2>4
<1>. QED  BY <1>2, <1>4, <1>5, FirstOfIs

Opened(v, r, d, out, first, to) ==
    /\ Whole(r.vol, out, first, to) /\ Alike(v, r.vol) /\ Chain(r.vol, first) = Chain(v, first)
    /\ OpenAt(r.vol, d, r.got)
    /\ \A p \in Slots : p[1] \in ClustersOf(v, first) => EntryAt(r.vol, p) = EntryAt(v, p)

LEMMA FreeSlotOpens ==
    ASSUME NEW v, Volume(v), NEW out, NEW first, NEW to, Whole(v, out, first, to), NEW d \in DirsOf(v),
           FreeSlot(v, d).ok
    PROVE  Opened(v, FreeSlot(v, d), d, out, first, to)
<1> DEFINE r == FreeSlot(v, d)
           a == AllocCluster(v)
           open == OpenPlace(v, d)
<1>1. CASE open # << >>
  <2>1. r = Returned(v, Head(open))
    BY <1>1 DEF FreeSlot
  <2>2. r.vol = v /\ r.got = Head(open)
    BY <2>1 DEF Returned
  <2>3. OpenAt(v, d, Head(open))
    BY <1>1, OpenPlaceIs
  <2> HIDE DEF r, open
  <2>4. Alike(v, v)
    BY DEF Alike
  <2>5. Opened(v, r, d, out, first, to)
    BY <2>2, <2>3, <2>4 DEF Opened
  <2>. QED  BY <2>5 DEF r
<1>2. CASE open = << >> /\ d = Root
  <2>1. r = Thrown(v)
    BY <1>2 DEF FreeSlot
  <2>2. ~r.ok
    BY <2>1 DEF Thrown
  <2>. QED  BY <2>2
<1>3. CASE open = << >> /\ d # Root /\ ~a.ok
  <2>1. r = a
    BY <1>3 DEF FreeSlot, Then
  <2>. QED  BY <1>3, <2>1
<1>4. CASE open = << >> /\ d # Root /\ a.ok
  <2> DEFINE last == Last(Chain(v, d))
             end == IF v.fat[last] = Free THEN 0 ELSE last
             w == [a.vol EXCEPT !.fat[end] = a.got, !.content[a.got] = Zeroed]
             c == a.got
  <2>1. r = Returned(w, <<a.got, 1>>)
    BY <1>4 DEF FreeSlot, Then
  <2>2. c \in FreeClusters(v) /\ Volume(a.vol) /\ a.vol = [v EXCEPT !.hint = c + 1, !.fat[c] = Eoc]
    <3>1. ~Thrown(v).ok
      BY DEF Thrown
    <3>2. a # Thrown(v)
      BY <1>4, <3>1
    <3>. QED  BY <3>2, AllocClusterGives
  <2>3. a.vol.fat = [v.fat EXCEPT ![c] = Eoc] /\ a.vol.content = v.content
    BY <2>2 DEF Volume, HasFields
  <2>4. d \in Clusters /\ Ends(v, d)
    BY <1>4, DirFacts
  <2>5. end = last
    BY <2>4, NumberTypes DEF Ends, Free
  <2> HIDE DEF a, end
  <2>6. w.fat = [a.vol.fat EXCEPT ![end] = c] /\ w.content = [a.vol.content EXCEPT ![c] = Zeroed]
    BY <2>2 DEF Volume, HasFields
  <2>7. r.vol = w /\ r.got = <<c, 1>>
    BY <2>1 DEF Returned
  <2> HIDE DEF w, r
  <2>8. LinkedAt(v, w, Last(Chain(v, d)), c)
    BY <2>3, <2>5, <2>6 DEF LinkedAt
  <2> HIDE DEF last
  <2>9. c \in Clusters
    BY <2>2 DEF FreeClusters
  <2> HIDE DEF c
  <2>10. Blanked(v, w, c)
    <3>1. w.content = [v.content EXCEPT ![c] = Zeroed]
      BY <2>3, <2>6
    <3>2. Zeroed.entries = [i \in 1..DirSlots |-> Never]
      BY DEF Zeroed, Holding
    <3>. QED  BY <2>9, <3>1, <3>2, BlankedIs
  <2>11. \A i \in DOMAIN Places(v, d) : EntryAt(v, Places(v, d)[i]).kind \notin Unused
    BY <1>4, OpenPlaceIs DEF NoneOpen
  <2>12. v.fat \in Fats
    BY DEF Volume
  <2>13. /\ Whole(w, out, first, to) /\ Alike(v, w) /\ Chain(w, first) = Chain(v, first)
         /\ OpenAt(w, d, <<c, 1>>)
    BY <1>4, <2>2, <2>8, <2>10, <2>11, <2>12, WholeDirGrows DEF c
  <2>14. \A p \in Slots : p[1] \in ClustersOf(v, first) => EntryAt(w, p) = EntryAt(v, p)
    <3>1. Ends(v, first)
      <4>1. Orphan \in DOMAIN Heads(v, out, first) /\ Heads(v, out, first)[Orphan] = first
        BY HeadsAre, OrphanHead
      <4>. QED  BY <4>1 DEF Whole, Chains
    <3>2. c \notin ClustersOf(v, first)
      BY <2>2, <3>1, NotFree DEF FreeClusters, c
    <3>. QED  BY <2>10, <3>2 DEF Blanked
  <2>15. Opened(v, r, d, out, first, to)
    BY <2>7, <2>13, <2>14 DEF Opened
  <2>. QED  BY <2>15 DEF r
<1>. QED  BY <1>1, <1>2, <1>3, <1>4

----------------------------------------------------------------------------
(* The clusters of a new file are the orphan until its entry is there.     *)
Laid(v, out, to, r, i) ==
    /\ Whole(r.vol, out, r.first, to) /\ Alike(v, r.vol) /\ Len(Chain(r.vol, r.first)) = i
    /\ IF i = 0 THEN r.first = 0 /\ r.last = 0
                ELSE r.first # 0 /\ r.last = Last(Chain(r.vol, r.first)) /\ r.last \in Clusters

LEMMA NothingLaid ==
    ASSUME NEW v, NEW out, NEW to, NEW r, r.vol = v, r.first = 0, r.last = 0, Whole(v, out, 0, to)
    PROVE  Laid(v, out, to, r, 0)
<1>1. Alike(v, v)
  BY DEF Alike
<1>2. Len(Chain(v, 0)) = 0
  <2>1. Chain(v, 0) = << >>
    BY ChainGives, NumberTypes
  <2>. QED  BY <2>1
<1>. QED  BY <1>1, <1>2 DEF Laid

LEMMA AlikeTwice ==
    ASSUME NEW u, NEW v, NEW w, Alike(u, v), Alike(v, w)
    PROVE  Alike(u, w)
  BY DEF Alike

LEMMA PieceIsLaid ==
    ASSUME NEW v, NEW out, NEW to, NEW r, NEW i \in Nat, Laid(v, out, to, r, i), Volume(r.vol),
           Space(r.vol) # 0, NEW version
    PROVE  Laid(v, out, to, AddedPiece(r, AllocCluster(r.vol), version, i + 1), i + 1)
<1> DEFINE u == r.vol
           a == AllocCluster(u)
           c == a.got
           q == AddedPiece(r, a, version, i + 1)
           w == q.vol
<1>1. c \in FreeClusters(u) /\ Volume(a.vol) /\ a.vol = [u EXCEPT !.hint = c + 1, !.fat[c] = Eoc]
  BY AllocClusterGives
<1>2. a.vol.fat = [u.fat EXCEPT ![c] = Eoc] /\ a.vol.content = u.content
  BY <1>1 DEF Volume, HasFields
<1> HIDE DEF u, a
<1>3. /\ w.fat = IF r.last = 0 THEN a.vol.fat ELSE [a.vol.fat EXCEPT ![r.last] = c]
      /\ w.content = [a.vol.content EXCEPT ![c] = Piece(version, i + 1)]
      /\ q.first = (IF r.first = 0 THEN c ELSE r.first) /\ q.last = c
  BY <1>1 DEF AddedPiece, Volume, HasFields
<1> HIDE DEF q, w, c
<1>4. c \in Clusters /\ c # 0
  BY <1>1, NumberTypes DEF FreeClusters
<1>5. Blanked(u, w, c)
  <2>1. Piece(version, i + 1).entries = [s \in 1..DirSlots |-> Never]
    BY DEF Piece, Holding
  <2>2. w.content = [u.content EXCEPT ![c] = Piece(version, i + 1)]
    BY <1>2, <1>3
  <2>. QED  BY <1>4, <2>1, <2>2, BlankedIs DEF u
<1>6. u.fat \in Fats /\ Whole(u, out, r.first, to) /\ Alike(v, u) /\ Len(Chain(u, r.first)) = i
  BY DEF u, Volume, Laid
<1>7. CASE i = 0
  <2>1. r.first = 0 /\ r.last = 0
    BY <1>7 DEF Laid
  <2>2. w.fat = [u.fat EXCEPT ![c] = Eoc] /\ q.first = c /\ q.last = c
    BY <1>2, <1>3, <2>1
  <2>3. Whole(u, out, 0, to)
    BY <1>6, <2>1
  <2>4. Whole(w, out, c, to) /\ Alike(u, w) /\ Chain(w, c) = <<c>>
    BY <1>1, <1>5, <1>6, <2>2, <2>3, WholeTakes
  <2>5. Len(Chain(w, c)) = 1 /\ Last(Chain(w, c)) = c
    BY <2>4 DEF Last
  <2>6. Whole(w, out, c, to) /\ Alike(v, w)
    BY <1>6, <2>4, AlikeTwice
  <2>. QED  BY <1>4, <1>7, <2>2, <2>5, <2>6 DEF Laid, q, w, a, u
<1>8. CASE i # 0
  <2>1. r.first # 0 /\ r.last = Last(Chain(u, r.first)) /\ r.last # 0
    BY <1>8, NumberTypes DEF Laid, u
  <2>2. /\ w.fat = [[u.fat EXCEPT ![c] = Eoc] EXCEPT ![Last(Chain(u, r.first))] = c]
        /\ q.first = r.first /\ q.last = c
    BY <1>2, <1>3, <2>1
  <2>3. /\ Whole(w, out, r.first, to) /\ Alike(u, w)
        /\ Chain(w, r.first) = Append(Chain(u, r.first), c)
    <3> DEFINE first == r.first
    <3>1. first # 0 /\ Whole(u, out, first, to) /\ u.fat \in Fats
      BY <1>6, <2>1
    <3>2. LinkedAt(u, w, Last(Chain(u, first)), c)
      BY <2>2 DEF LinkedAt
    <3> HIDE DEF first
    <3>3. Lengthened(u, w, out, first, to, c)
      BY <1>1, <1>5, <3>1, <3>2, WholeLinks
    <3>. QED  BY <3>3 DEF first, Lengthened
  <2>4. Len(Chain(w, r.first)) = i + 1 /\ Last(Chain(w, r.first)) = c
    <3>1. Chain(u, r.first) \in Seq(Clusters)
      BY ChainGives, LinkedGives
    <3> DEFINE s == Chain(u, r.first)
    <3>2. Len(Append(s, c)) = Len(s) + 1 /\ Append(s, c)[Len(s) + 1] = c
      BY <1>4, <3>1, AppendProperties
    <3>. QED  BY <1>6, <2>3, <3>2 DEF Last
  <2>5. Alike(v, w)
    BY <1>6, <2>3, AlikeTwice
  <2>6. i + 1 # 0
    BY <1>8
  <2>. QED  BY <1>4, <2>1, <2>2, <2>3, <2>4, <2>5, <2>6 DEF Laid, q, w, a, u
<1>. QED  BY <1>7, <1>8

LEMMA PiecesLaid ==
    ASSUME NEW v, Volume(v), NEW out, NEW to, Whole(v, out, 0, to), NEW version,
           NEW n \in Nat, n <= Space(v)
    PROVE  LET new == WithPieces(v, n, version)
           IN  Laid(v, out, to, new, n) /\ Volume(new.vol)
<1> DEFINE with == CHOOSE f : PiecesFrom(v, version, f, n)
           T == {i \in 0..n : Laid(v, out, to, with[i], i)}
<1>1. PiecesFrom(v, version, with, n)
  BY PiecesExist
<1>2. WithPieces(v, n, version) = with[n]
  BY DEF WithPieces, PiecesFrom, AddedPiece
<1> HIDE DEF with
<1>3. \A i \in 0..n : Volume(with[i].vol) /\ Space(with[i].vol) = Space(v) - i
  BY <1>1, PiecesTakeSpace
<1>4. 0 \in T
  <2>1. with[0] = [vol |-> v, first |-> 0, last |-> 0]
    BY <1>1 DEF PiecesFrom
  <2>2. with[0].vol = v /\ with[0].first = 0 /\ with[0].last = 0
    BY <2>1
  <2>. QED  BY <2>2, NothingLaid
<1>5. ASSUME NEW i \in 0..(n - 1), i \in T PROVE i + 1 \in T
  <2>1. /\ i + 1 \in 0..n /\ i \in Nat
        /\ with[i + 1] = AddedPiece(with[i], AllocCluster(with[i].vol), version, i + 1)
    BY <1>1 DEF PiecesFrom
  <2>2. Volume(with[i].vol) /\ Space(with[i].vol) # 0
    <3>1. Space(v) \in Nat
      BY FreeFinite
    <3>. QED  BY <1>3, <3>1
  <2>3. Laid(v, out, to, with[i], i)
    BY <1>5
  <2>4. Laid(v, out, to, AddedPiece(with[i], AllocCluster(with[i].vol), version, i + 1), i + 1)
    BY <2>1, <2>2, <2>3, PieceIsLaid
  <2>. QED  BY <2>1, <2>4
<1>6. \A i \in 0..n : i \in T
  <2> HIDE DEF T
  <2>. QED  BY <1>4, <1>5, UpTo
<1>7. n \in 0..n
  OBVIOUS
<1>. QED  BY <1>2, <1>3, <1>6, <1>7

----------------------------------------------------------------------------
(* An entry is written.                                                    *)
LEMMA OpenIs ==
    ASSUME NEW v, NEW out, NEW first, NEW to, Whole(v, out, first, to), NEW d, NEW p, OpenAt(v, d, p)
    PROVE  /\ d \in DirsOf(v) /\ p \in Slots /\ p[1] \in Area(v, d) /\ p \notin Shown(v)
           /\ EntryAt(v, p).kind \in Unused
<1>1. d \in DirsOf(v)
  BY DEF OpenAt
<1>2. d \in {Root} \union Clusters /\ Ends(v, d)
  BY <1>1, DirFacts
<1>3. PICK i \in DOMAIN Places(v, d) : Places(v, d)[i] = p /\ EntryAt(v, p).kind \in Unused
  BY DEF OpenAt
<1>4. p \in Slots /\ p[1] \in Area(v, d)
  BY <1>2, <1>3, PlacesOf
<1>5. p \notin Shown(v)
  BY <1>3 DEF Shown, Shows, Unused
<1>. QED  BY <1>1, <1>3, <1>4, <1>5

LEMMA GapsKept ==
    ASSUME NEW v, NEW w, NEW out, NEW first, NEW to, Whole(v, out, first, to), w.fat = v.fat,
           NEW p \in Slots, NEW e, EntryWritten(v, w, p, e), e.kind # "never",
           EntryAt(v, p).kind # "never" \/ \E d : OpenAt(v, d, p),
           NEW x \in DirsOf(v)
    PROVE  NoGap(w, x)
<1>1. x \in {Root} \union Clusters /\ Ends(v, x) /\ NoGap(v, x)
  BY DirFacts
<1>2. Chain(w, x) = Chain(v, x)
  BY SameFat
<1>3. /\ EntryAt(w, p) = e
      /\ \A q \in Slots : q # p => EntryAt(w, q) = EntryAt(v, q)
  BY DEF EntryWritten
<1>4. CASE EntryAt(v, p).kind # "never"
  <2>1. \A q \in Slots : q[1] \in Area(v, x) =>
           (EntryAt(w, q).kind = "never" <=> EntryAt(v, q).kind = "never")
    BY <1>3, <1>4
  <2>. QED  BY <1>1, <1>2, <2>1, NoGapKept
<1>5. CASE \E d : OpenAt(v, d, p)
  <2>1. PICK d : OpenAt(v, d, p)
    BY <1>5
  <2>2. d \in DirsOf(v) /\ p[1] \in Area(v, d)
    BY <2>1, OpenIs
  <2>3. CASE x # d
    <3>1. p[1] \notin Area(v, x)
      BY <2>2, <2>3, AreasApart
    <3>2. \A q \in Slots : q[1] \in Area(v, x) =>
             (EntryAt(w, q).kind = "never" <=> EntryAt(v, q).kind = "never")
      BY <1>3, <3>1
    <3>. QED  BY <1>1, <1>2, <3>2, NoGapKept
  <2>4. CASE x = d
    <3> DEFINE P == Places(v, x)
    <3>1. Places(w, x) = P
      BY <1>2 DEF Places
    <3>2. PICK i \in DOMAIN P :
             P[i] = p /\ \A k \in DOMAIN P : k < i => EntryAt(v, P[k]).kind \notin Unused
      BY <2>1, <2>4 DEF OpenAt
    <3>3. \A k \in DOMAIN P : P[k] \in Slots /\ (P[k] = p => k = i)
      BY <1>1, <3>2, PlacesOf
    <3>4. \A k \in DOMAIN P : k # i => EntryAt(w, P[k]) = EntryAt(v, P[k])
      BY <1>3, <3>3
    <3>5. EntryAt(w, P[i]).kind # "never"
      BY <1>3, <3>2
    <3>6. \A j, k \in DOMAIN P :
             j < k /\ EntryAt(v, P[j]).kind = "never" => EntryAt(v, P[k]).kind = "never"
      BY <1>1 DEF NoGap
    <3> HIDE DEF P
    <3>7. ASSUME NEW j \in DOMAIN P, NEW k \in DOMAIN P, j < k, EntryAt(w, P[j]).kind = "never"
          PROVE  EntryAt(w, P[k]).kind = "never"
      <4>1. j # i /\ EntryAt(v, P[j]).kind = "never"
        BY <3>4, <3>5, <3>7
      <4>2. k # i
        BY <3>2, <3>7, <4>1 DEF Unused
      <4>. QED  BY <3>4, <3>6, <3>7, <4>1, <4>2
    <3>. QED  BY <3>1, <3>7 DEF NoGap, P
  <2>. QED  BY <2>3, <2>4
<1>. QED  BY <1>4, <1>5

SameDirs(v, w) == ShownDirs(w) = ShownDirs(v) /\ DirsOf(w) = DirsOf(v)
Settled(v, to) == Whole(v, {}, 0, to)

(* The entry of a file, where its old one was or where there is a place.   *)
LEMMA FileWritten ==
    ASSUME NEW v, NEW w, NEW out, NEW first, NEW to, Whole(v, out, first, to), w.fat = v.fat,
           NEW p \in Slots, NEW e, EntryWritten(v, w, p, e), Shows(e), e.kind = "file", e.first = first,
           Len(Chain(v, first)) = Pieces(e.size),
           out = {p} \/ (out = {} /\ \E d : OpenAt(v, d, p))
    PROVE  Settled(w, to) /\ SameDirs(v, w)
<1> DEFINE H == Heads(v, out, first)
           K == Heads(w, {}, 0)
<1>0. /\ EntryAt(w, p) = e
      /\ \A q \in Slots : q # p => EntryAt(w, q) = EntryAt(v, q)
  BY DEF EntryWritten
<1>1. /\ out \subseteq Shown(v) \ ShownDirs(v) /\ Chains(v, H) /\ RightSizes(v, out)
      /\ FilesNamed(v) /\ Homes(v) /\ Nested(v, to)
  BY DEF Whole, Arranged
<1>2. /\ Shown(w) = Shown(v) \union {p} /\ Shown(v) \subseteq Slots
      /\ \A q \in Shown(v) \ {p} : EntryAt(w, q) = EntryAt(v, q)
  BY <1>0 DEF Shown
<1>3. p \notin ShownDirs(v) /\ (p \in Shown(v) => p \in out) /\ \A q \in Shown(v) : q # p => q \notin out
  BY <1>1, OpenIs DEF ShownDirs
<1>4. ShownDirs(w) = ShownDirs(v) /\ \A q \in ShownDirs(v) : q # p /\ EntryAt(w, q) = EntryAt(v, q)
  BY <1>0, <1>2, <1>3, SMTT(30) DEF ShownDirs
<1>5. DirsOf(w) = DirsOf(v)
  BY <1>4 DEF DirsOf
<1>6. \A d : Area(w, d) = Area(v, d)
  BY SameFat DEF Area
<1>7. Chains(w, K)
  <2>1. Orphan \in DOMAIN H /\ H[Orphan] = first /\ p # Orphan /\ DOMAIN H = Shown(v) \union {Orphan}
    <3>1. DOMAIN H = Shown(v) \union {Orphan} /\ Orphan \notin Slots
      BY HeadsAre
    <3>2. H[Orphan] = first
      BY OrphanHead
    <3>. QED  BY <3>1, <3>2
  <2>2. p \in DOMAIN H => H[p] = 0
    BY <1>3, <2>1, OutHead
  <2>3. DOMAIN K = DOMAIN H \union {p} /\ K[Orphan] = 0
    <3>1. DOMAIN K = Shown(w) \union {Orphan}
      BY DEF Heads
    <3>2. K[Orphan] = 0
      BY DEF Heads
    <3>. QED  BY <1>2, <2>1, <3>1, <3>2
  <2>4. K[p] = first
    BY <1>0, <1>2, SeenHead
  <2>5. \A q \in DOMAIN H \ {p, Orphan} : K[q] = H[q]
    <3> SUFFICES ASSUME NEW q \in DOMAIN H \ {p, Orphan} PROVE K[q] = H[q]
      OBVIOUS
    <3>1. q \in Shown(v) /\ q \in Shown(w) /\ q \notin out /\ EntryAt(w, q) = EntryAt(v, q)
      BY <1>2, <1>3, <2>1
    <3>2. H[q] = EntryAt(v, q).first
      BY <3>1, SeenHead
    <3>3. K[q] = EntryAt(w, q).first
      BY <3>1, SeenHead
    <3>. QED  BY <3>1, <3>2, <3>3
  <2> HIDE DEF H, K
  <2>. QED  BY <1>1, <2>1, <2>2, <2>3, <2>4, <2>5, HeadMoved
<1>8. RightSizes(w, {})
  <2> SUFFICES ASSUME NEW q \in Shown(w) \ ShownDirs(w)
               PROVE  Len(Chain(w, EntryAt(w, q).first)) = Pieces(EntryAt(w, q).size)
    BY DEF RightSizes
  <2>1. CASE q = p
    BY <1>0, <2>1, SameFat
  <2>2. CASE q # p
    <3>1. q \in Shown(v) \ (ShownDirs(v) \union out) /\ EntryAt(w, q) = EntryAt(v, q)
      BY <1>2, <1>3, <1>4, <2>2
    <3>2. Len(Chain(v, EntryAt(v, q).first)) = Pieces(EntryAt(v, q).size)
      BY <1>1, <3>1 DEF RightSizes
    <3>. QED  BY <3>1, <3>2, SameFat
  <2>. QED  BY <2>1, <2>2
<1>9. FilesNamed(w)
  BY <1>0, <1>1, <1>2 DEF FilesNamed
<1>10. Homes(w)
  <2>1. \E d \in DirsOf(v) : p[1] \in Area(v, d)
    <3>1. CASE out = {p}
      BY <1>1, <3>1 DEF Homes
    <3>2. CASE \E d : OpenAt(v, d, p)
      BY <3>2, OpenIs
    <3>. QED  BY <3>1, <3>2
  <2>. QED  BY <1>1, <1>2, <1>5, <1>6, <2>1 DEF Homes
<1>11. \A d \in DirsOf(w) : NoGap(w, d)
  <2>1. EntryAt(v, p).kind # "never" \/ \E d : OpenAt(v, d, p)
    <3>1. CASE out = {p}
      BY <1>1, <3>1 DEF Shown, Shows
    <3>2. CASE \E d : OpenAt(v, d, p)
      BY <3>2
    <3>. QED  BY <3>1, <3>2
  <2>2. e.kind # "never"
    OBVIOUS
  <2>. QED  BY <1>5, <2>1, <2>2, GapsKept
<1>12. Nested(w, to)
  BY <1>1, <1>4, <1>5, <1>6 DEF Nested
<1>13. Whole(w, {}, 0, to)
  BY <1>7, <1>8, <1>9, <1>10, <1>11, <1>12 DEF Whole, Arranged
<1>. QED  BY <1>4, <1>5, <1>13 DEF Settled, SameDirs

(* An entry of a file is deleted when its chain is free.                   *)
LEMMA EntryDeleted ==
    ASSUME NEW v, NEW w, NEW out, NEW first, first = 0, NEW to, Whole(v, out, first, to), w.fat = v.fat,
           NEW p \in Slots, NEW e, EntryWritten(v, w, p, e), e.kind = "deleted", out = {p}
    PROVE  Settled(w, to) /\ SameDirs(v, w)
<1> DEFINE H == Heads(v, out, first)
           K == Heads(w, {}, 0)
<1>0. /\ EntryAt(w, p) = e
      /\ \A q \in Slots : q # p => EntryAt(w, q) = EntryAt(v, q)
  BY DEF EntryWritten
<1>1. /\ out \subseteq Shown(v) \ ShownDirs(v) /\ Chains(v, H) /\ RightSizes(v, out)
      /\ FilesNamed(v) /\ Homes(v) /\ Nested(v, to)
  BY DEF Whole, Arranged
<1>2. /\ Shown(w) = Shown(v) \ {p} /\ p \in Shown(v) /\ Shown(v) \subseteq Slots
      /\ \A q \in Shown(w) : EntryAt(w, q) = EntryAt(v, q)
  BY <1>0, <1>1 DEF Shown, Shows
<1>3. ShownDirs(w) = ShownDirs(v) /\ \A q \in ShownDirs(v) : q # p /\ EntryAt(w, q) = EntryAt(v, q)
  BY <1>1, <1>2, SMTT(30) DEF ShownDirs
<1>4. DirsOf(w) = DirsOf(v)
  BY <1>3 DEF DirsOf
<1>5. \A d : Area(w, d) = Area(v, d)
  BY SameFat DEF Area
<1>6. Chains(w, K)
  <2>1. p # Orphan /\ DOMAIN H = Shown(v) \union {Orphan} /\ H[Orphan] = 0
    <3>1. DOMAIN H = Shown(v) \union {Orphan} /\ Orphan \notin Slots
      BY HeadsAre
    <3>2. H[Orphan] = first
      BY OrphanHead
    <3>. QED  BY <1>2, <3>1, <3>2
  <2>2. H[p] = 0
    BY <1>2, OutHead
  <2>3. DOMAIN K = DOMAIN H \ {p} /\ K[Orphan] = 0
    <3>1. DOMAIN K = Shown(w) \union {Orphan}
      BY DEF Heads
    <3>2. K[Orphan] = 0
      BY DEF Heads
    <3>. QED  BY <1>2, <2>1, <3>1, <3>2
  <2>4. \A q \in DOMAIN K : K[q] = H[q]
    <3> SUFFICES ASSUME NEW q \in DOMAIN K, q # Orphan PROVE K[q] = H[q]
      BY <2>1, <2>3
    <3>1. q \in Shown(v) /\ q \in Shown(w) /\ q \notin out /\ EntryAt(w, q) = EntryAt(v, q)
      BY <1>2, <2>1, <2>3
    <3>2. H[q] = EntryAt(v, q).first
      BY <3>1, SeenHead
    <3>3. K[q] = EntryAt(w, q).first
      BY <3>1, SeenHead
    <3>. QED  BY <3>1, <3>2, <3>3
  <2>5. p \in DOMAIN H
    BY <1>2, <2>1
  <2> HIDE DEF H, K
  <2>. QED  BY <1>1, <2>2, <2>3, <2>4, <2>5, HeadDropped
<1>7. RightSizes(w, {})
  <2> SUFFICES ASSUME NEW q \in Shown(w) \ ShownDirs(w)
               PROVE  Len(Chain(w, EntryAt(w, q).first)) = Pieces(EntryAt(w, q).size)
    BY DEF RightSizes
  <2>1. q \in Shown(v) \ (ShownDirs(v) \union out) /\ EntryAt(w, q) = EntryAt(v, q)
    BY <1>2, <1>3
  <2>2. Len(Chain(v, EntryAt(v, q).first)) = Pieces(EntryAt(v, q).size)
    BY <1>1, <2>1 DEF RightSizes
  <2>. QED  BY <2>1, <2>2, SameFat
<1>8. FilesNamed(w)
  BY <1>0, <1>1, <1>2 DEF FilesNamed
<1>9. Homes(w)
  BY <1>1, <1>2, <1>4, <1>5 DEF Homes
<1>10. \A d \in DirsOf(w) : NoGap(w, d)
  <2>1. EntryAt(v, p).kind # "never"
    BY <1>2 DEF Shown, Shows
  <2>2. e.kind # "never"
    OBVIOUS
  <2>. QED  BY <1>4, <2>1, <2>2, GapsKept
<1>11. Nested(w, to)
  BY <1>1, <1>3, <1>4, <1>5 DEF Nested
<1>12. Whole(w, {}, 0, to)
  BY <1>6, <1>7, <1>8, <1>9, <1>10, <1>11 DEF Whole, Arranged
<1>. QED  BY <1>3, <1>4, <1>12 DEF Settled, SameDirs

----------------------------------------------------------------------------
(* A directory enters its parent: the entry of what was the orphan.        *)
Extended(v, to, more, c, d, name) ==
    /\ more[c].path = Append(to[d].path, name) /\ more[c].up = d
    /\ \A x \in DirsOf(v) : more[x] = to[x]
IsDirEntry(e, c) == Shows(e) /\ e.kind = "dir" /\ e.first = c /\ e.name \in OnDrive
AllNever(v, s) == \A q \in Slots : q[1] \in s => EntryAt(v, q).kind = "never"

LEMMA DepthIsNat == Depth \in Nat /\ 2 <= Depth /\ \A path \in DirPaths : 2 + Len(path) <= Depth
<1> DEFINE length == [path \in DirPaths |-> Len(path)]
           S == {0} \union {Len(path) : path \in DirPaths}
<1>1. IsFiniteSet(DirPaths) /\ \A path \in DirPaths : Len(path) \in Nat
  BY PathAssumption
<1>2. IsFiniteSet({length[path] : path \in DirPaths})
  <2> HIDE DEF length
  <2>. QED  BY <1>1, ImageFew
<1>3. S = {0} \union {length[path] : path \in DirPaths}
  OBVIOUS
<1>4. IsFiniteSet(S) /\ S \in SUBSET Nat
  <2>1. IsFiniteSet({0})
    BY FS_Singleton
  <2>2. S \in SUBSET Nat
    BY <1>1
  <2> HIDE DEF S
  <2>. QED  BY <1>2, <1>3, <2>1, <2>2, FS_Union
<1>5. 0 \in S /\ \A path \in DirPaths : Len(path) \in S
  OBVIOUS
<1>6. Depth = 2 + Max(S)
  BY DEF Depth
<1> HIDE DEF S
<1>7. \E b \in Nat : \A x \in S : x <= b
  <2>1. PICK n \in Nat : ExistsSurjection(1..n, S)
    BY <1>4, FS_NatSurjection
  <2>2. PICK f \in Surjection(1..n, S) : TRUE
    BY <2>1 DEF ExistsSurjection
  <2>3. /\ \A i \in 1..n : f[i] \in Nat
        /\ \A x \in S : \E i \in 1..n : f[i] = x
    BY <1>4, <2>2 DEF Surjection
  <2> DEFINE B == {m \in 0..n : \E b \in Nat : \A i \in 1..m : f[i] <= b}
  <2>4. 0 \in B
    OBVIOUS
  <2>5. ASSUME NEW m \in 0..(n - 1), m \in B PROVE m + 1 \in B
    <3>1. PICK b \in Nat : \A i \in 1..m : f[i] <= b
      BY <2>5
    <3>2. m + 1 \in 0..n /\ f[m + 1] \in Nat
      BY <2>3
    <3> DEFINE top == b + f[m + 1]
    <3>3. top \in Nat
      BY <3>2
    <3>4. \A i \in 1..(m + 1) : f[i] <= top
      BY <2>3, <3>1, <3>2
    <3>. QED  BY <3>2, <3>3, <3>4
  <2>8. n \in Nat
    BY <2>1
  <2>6. \A m \in 0..n : m \in B
    <3>1. \A i \in 0..(n - 1) : i \in B => i + 1 \in B
      BY <2>5
    <3> HIDE DEF B
    <3>. QED  BY <2>4, <2>8, <3>1, UpTo
  <2>7. PICK b \in Nat : \A i \in 1..n : f[i] <= b
    <3>1. n \in 0..n
      BY <2>8
    <3>. QED  BY <2>6, <3>1
  <2>. QED  BY <2>3, <2>7
<1> DEFINE T == {b \in Nat : \A x \in S : x <= b}
<1>8. PICK b \in T : \A y \in T : b <= y
  <2>1. T \in SUBSET Nat /\ T # {}
    BY <1>7
  <2> HIDE DEF T
  <2>. QED  BY <2>1, FirstOfMany
<1>9. b \in S
  <2> SUFFICES ASSUME b \notin S PROVE FALSE
    OBVIOUS
  <2>1. \A x \in S : x \in Nat /\ x <= b /\ x # b
    BY <1>4, <1>8
  <2>2. b \in Nat \ {0} /\ \A x \in S : x <= b - 1
    BY <1>5, <1>8, <2>1
  <2>. QED  BY <1>8, <2>2
<1>10. Max(S) \in S /\ \A x \in S : x <= Max(S)
  <2>1. \A x \in S : b >= x
    BY <1>4, <1>8
  <2>. QED  BY <1>4, <1>9, <2>1 DEF Max
<1> DEFINE most == Max(S)
<1>11. most \in Nat /\ Depth = 2 + most /\ \A path \in DirPaths : Len(path) <= most
  BY <1>4, <1>5, <1>6, <1>10
<1> HIDE DEF most
<1>12. \A path \in DirPaths : 2 + Len(path) <= 2 + most
  BY <1>1, <1>11
<1>. QED  BY <1>11, <1>12

LEMMA DirWritten ==
    ASSUME NEW v, NEW w, NEW to, NEW c \in Clusters, Whole(v, {}, c, to), w.fat = v.fat,
           NEW d, NEW p, OpenAt(v, d, p), NEW e, EntryWritten(v, w, p, e), IsDirEntry(e, c),
           AllNever(v, ClustersOf(v, c)), Len(to[d].path) < Depth,
           NEW more, Extended(v, to, more, c, d, e.name)
    PROVE  Settled(w, more) /\ DirsOf(w) = DirsOf(v) \union {c} /\ c \notin DirsOf(v)
<1> DEFINE H == Heads(v, {}, c)
           K == Heads(w, {}, 0)
<1>0. /\ EntryAt(w, p) = e
      /\ \A q \in Slots : q # p => EntryAt(w, q) = EntryAt(v, q)
  BY OpenIs DEF EntryWritten
<1>1. Chains(v, H) /\ RightSizes(v, {}) /\ FilesNamed(v) /\ Homes(v) /\ Nested(v, to)
  BY DEF Whole, Arranged
<1>2. d \in DirsOf(v) /\ p \in Slots /\ p[1] \in Area(v, d) /\ p \notin Shown(v)
  BY OpenIs
<1>3. /\ Shown(w) = Shown(v) \union {p} /\ Shown(v) \subseteq Slots
      /\ \A q \in Shown(v) : q # p /\ EntryAt(w, q) = EntryAt(v, q)
  BY <1>0, <1>2 DEF Shown, IsDirEntry
<1>4. ShownDirs(w) = ShownDirs(v) \union {p} /\ \A q \in ShownDirs(v) : q # p /\ EntryAt(w, q) = EntryAt(v, q)
  BY <1>0, <1>3 DEF ShownDirs, IsDirEntry
<1>5. DirsOf(w) = DirsOf(v) \union {c}
  BY <1>0, <1>4 DEF DirsOf, IsDirEntry
<1>6. c \in ClustersOf(v, c) /\ c # Root
  BY ClustersAre, NumberTypes DEF Root
<1>7. c \notin DirsOf(v)
  BY <1>6, OrphanApart DEF Area
<1>8. \A x : Area(w, x) = Area(v, x)
  BY SameFat DEF Area
<1>9. Chains(w, K)
  <2>1. Orphan \in DOMAIN H /\ H[Orphan] = c /\ p # Orphan /\ DOMAIN H = Shown(v) \union {Orphan}
    BY <1>2, HeadsAre, OrphanHead
  <2>2. p \notin DOMAIN H
    BY <1>2, <2>1
  <2>3. DOMAIN K = DOMAIN H \union {p} /\ K[Orphan] = 0
    <3>1. DOMAIN K = Shown(w) \union {Orphan}
      BY DEF Heads
    <3>2. K[Orphan] = 0
      BY DEF Heads
    <3>. QED  BY <1>3, <2>1, <3>1, <3>2
  <2>4. K[p] = c
    <3>1. K[p] = EntryAt(w, p).first
      BY <1>3, SeenHead
    <3>. QED  BY <1>0, <3>1 DEF IsDirEntry
  <2>5. \A q \in DOMAIN H \ {p, Orphan} : K[q] = H[q]
    <3> SUFFICES ASSUME NEW q \in DOMAIN H \ {p, Orphan} PROVE K[q] = H[q]
      OBVIOUS
    <3>1. q \in Shown(v) /\ q \in Shown(w) /\ EntryAt(w, q) = EntryAt(v, q)
      BY <1>3, <2>1
    <3>2. H[q] = EntryAt(v, q).first
      BY <3>1, SeenHead
    <3>3. K[q] = EntryAt(w, q).first
      BY <3>1, SeenHead
    <3>. QED  BY <3>1, <3>2, <3>3
  <2> HIDE DEF H, K
  <2>. QED  BY <1>1, <2>1, <2>2, <2>3, <2>4, <2>5, HeadMoved
<1>10. RightSizes(w, {})
  <2> SUFFICES ASSUME NEW q \in Shown(w) \ ShownDirs(w)
               PROVE  Len(Chain(w, EntryAt(w, q).first)) = Pieces(EntryAt(w, q).size)
    BY DEF RightSizes
  <2>1. q \in Shown(v) \ ShownDirs(v) /\ EntryAt(w, q) = EntryAt(v, q)
    BY <1>3, <1>4
  <2>2. Len(Chain(v, EntryAt(v, q).first)) = Pieces(EntryAt(v, q).size)
    BY <1>1, <2>1 DEF RightSizes
  <2>. QED  BY <2>1, <2>2, SameFat
<1>11. FilesNamed(w)
  BY <1>0, <1>1, <1>3 DEF FilesNamed
<1>12. Homes(w)
  BY <1>1, <1>2, <1>3, <1>5, <1>8 DEF Homes
<1>13. p[1] \notin ClustersOf(v, c)
  BY <1>2, OrphanApart
<1>14. \A q \in Slots : q[1] \in ClustersOf(v, c) => q # p /\ EntryAt(w, q).kind = "never"
  BY <1>0, <1>13 DEF AllNever
<1>15. \A x \in DirsOf(w) : NoGap(w, x)
  <2>1. ASSUME NEW x \in DirsOf(v) PROVE NoGap(w, x)
    <3>1. e.kind # "never"
      BY DEF IsDirEntry
    <3>2. \E y : OpenAt(v, y, p)
      OBVIOUS
    <3>. QED  BY <1>2, <2>1, <3>1, <3>2, GapsKept
  <2>2. NoGap(w, c)
    <3>1. Ends(v, c)
      <4>1. Orphan \in DOMAIN H /\ H[Orphan] = c
        BY HeadsAre, OrphanHead
      <4>. QED  BY <1>1, <4>1 DEF Chains
    <3>2. Ends(w, c) /\ Area(w, c) = ClustersOf(v, c)
      BY <1>6, <3>1, SameFat DEF Area
    <3>3. \A i \in DOMAIN Places(w, c) : Places(w, c)[i] \in Slots /\ Places(w, c)[i][1] \in Area(w, c)
      BY <3>2, PlacesOf
    <3>4. \A i \in DOMAIN Places(w, c) : EntryAt(w, Places(w, c)[i]).kind = "never"
      BY <1>14, <3>2, <3>3
    <3>. QED  BY <3>4 DEF NoGap
  <2>. QED  BY <1>5, <2>1, <2>2
<1>16. Nested(w, more)
  <2>1. Root \in DirsOf(v) /\ \A x \in DirsOf(v) : more[x] = to[x]
    BY DEF DirsOf, Extended
  <2>2. to[d].path \in Seq(OnDrive) /\ e.name \in OnDrive /\ Len(to[d].path) < Depth /\ Depth \in Nat
    BY <1>1, <1>2, DepthIsNat DEF Nested, IsDirEntry
  <2>3. Append(to[d].path, e.name) \in Seq(OnDrive) /\ Len(Append(to[d].path, e.name)) <= Depth
    BY <2>2, AppendProperties
  <2>4. more[c].path = Append(to[d].path, e.name) /\ more[c].up = d
    BY DEF Extended
  <2>5. ASSUME NEW x \in DirsOf(w)
        PROVE  more[x].path \in Seq(OnDrive) /\ Len(more[x].path) <= Depth
    <3>1. CASE x = c
      BY <2>3, <2>4, <3>1
    <3>2. CASE x \in DirsOf(v)
      BY <1>1, <2>1, <3>2 DEF Nested
    <3>. QED  BY <1>5, <3>1, <3>2
  <2>6. ASSUME NEW x \in DirsOf(w), NEW q \in ShownDirs(w), q[1] \in Area(w, x)
        PROVE  /\ more[EntryAt(w, q).first].path = Append(more[x].path, EntryAt(w, q).name)
               /\ more[EntryAt(w, q).first].up = x
    <3>1. q \in Slots /\ EntryAt(w, q).kind = "dir"
      BY DEF ShownDirs, Shown
    <3>2. x # c
      BY <1>6, <1>8, <1>14, <2>6, <3>1 DEF Area
    <3>3. x \in DirsOf(v) /\ q[1] \in Area(v, x)
      BY <1>5, <1>8, <2>6, <3>2
    <3>4. CASE q = p
      <4>1. x = d
        BY <1>2, <3>3, <3>4, AreasApart
      <4>2. EntryAt(w, q).first = c /\ EntryAt(w, q).name = e.name
        BY <1>0, <3>4 DEF IsDirEntry
      <4>. QED  BY <1>2, <2>1, <2>4, <4>1, <4>2
    <3>5. CASE q \in ShownDirs(v)
      <4>1. /\ to[EntryAt(v, q).first].path = Append(to[x].path, EntryAt(v, q).name)
            /\ to[EntryAt(v, q).first].up = x
        BY <1>1, <3>3, <3>5 DEF Nested
      <4>2. EntryAt(v, q).first \in DirsOf(v)
        BY <3>5 DEF DirsOf
      <4>. QED  BY <1>4, <2>1, <3>3, <3>5, <4>1, <4>2
    <3>. QED  BY <1>4, <3>4, <3>5
  <2>. QED  BY <1>1, <2>1, <2>5, <2>6 DEF Nested
<1>17. Whole(w, {}, 0, more)
  BY <1>9, <1>10, <1>11, <1>12, <1>15, <1>16 DEF Whole, Arranged
<1>. QED  BY <1>5, <1>7, <1>17 DEF Settled

(* A new directory's first entries are its own and its parent's.           *)
LEMMA SameFamily ==
    ASSUME NEW v, NEW w, w.fat = v.fat, NEW heads, Chains(v, heads)
    PROVE  Chains(w, heads)
<1>1. \A first : ClustersOf(w, first) = ClustersOf(v, first) /\ (Ends(w, first) <=> Ends(v, first))
  BY SameFat
<1>. QED  BY <1>1 DEF Chains

LEMMA DotsAre ==
    ASSUME NEW c, NEW parent
    PROVE  /\ \A i \in 1..DirSlots : Unseen(Dots(c, parent)[i])
           /\ \A i, j \in 1..DirSlots : i < j /\ Dots(c, parent)[i].kind = "never"
                                        => Dots(c, parent)[j].kind = "never"
<1>1. DirSlots \in Nat
  BY NumberTypes
<1>2. ASSUME NEW i \in 1..DirSlots
      PROVE  Unseen(Dots(c, parent)[i]) /\ (Dots(c, parent)[i].kind = "never" <=> i > 2)
  BY <1>1 DEF Unseen, Shows, Dots, Entry, Never
<1>. QED  BY <1>1, <1>2

LEMMA DirDotted ==
    ASSUME NEW v, NEW w, NEW to, Settled(v, to), w.fat = v.fat,
           NEW c \in DirsOf(v), c # Root, Chain(v, c) = <<c>>, AllNever(v, {c}),
           NEW parent, Dotted(v, w, c, parent)
    PROVE  Settled(w, to) /\ Alike(v, w)
<1> DEFINE H == Heads(v, {}, 0)
           P == Places(v, c)
<1>0. Whole(v, {}, 0, to)
  BY DEF Settled
<1>1. Chains(v, H) /\ RightSizes(v, {}) /\ Arranged(v, to)
  BY <1>0 DEF Whole
<1>2. \A p \in Slots : p[1] \in 0..(N + 1) /\ p[2] \in SlotsOf(p[1]) /\ p = <<p[1], p[2]>>
  BY SlotsAre
<1>3. \A p \in Slots : p[1] = c => p[2] \in 1..DirSlots
  BY <1>2 DEF SlotsOf
<1>4. ASSUME NEW p \in Slots
      PROVE  \/ EntryAt(w, p) = EntryAt(v, p)
             \/ p \notin Shown(v) /\ Unseen(EntryAt(w, p))
  <2>1. CASE p[1] = c
    <3>1. EntryAt(w, p) = Dots(c, parent)[p[2]]
      BY <2>1 DEF Dotted
    <3>2. EntryAt(v, p).kind = "never"
      BY <2>1 DEF AllNever
    <3>3. p \notin Shown(v)
      BY <3>2 DEF Shown, Shows
    <3>. QED  BY <1>3, <2>1, <3>1, <3>3, DotsAre
  <2>2. CASE p[1] # c
    BY <2>2 DEF Dotted
  <2>. QED  BY <2>1, <2>2
<1>5. \A d : Area(w, d) = Area(v, d)
  BY SameFat DEF Area
<1>6. \A d : Chain(w, d) = Chain(v, d)
  BY SameFat
<1>7. c \in {Root} \union Clusters /\ Ends(v, c)
  BY <1>0, DirFacts
<1>8. c \in Area(v, c)
  BY <1>7, ClustersAre DEF Area
<1>9. NoGap(w, c)
  <2> DEFINE s == <<c>>
  <2>1. Places(w, c) = PlacesIn(s)
    BY <1>6 DEF Places
  <2>2. c \in Clusters
    BY <1>7
  <2>3. s \in Seq(Clusters) /\ Len(s) = 1 /\ s[1] = c
    BY <2>2
  <2> HIDE DEF s
  <2> DEFINE Q == PlacesIn(s)
  <2>4. AreOf(Q, s)
    BY <2>3, PlacesInChain
  <2>5. \A i \in DOMAIN Q : i \in 1..DirSlots /\ Q[i] = <<c, i>>
    <3>1. ASSUME NEW i \in DOMAIN Q PROVE i \in 1..DirSlots /\ Q[i] = <<c, i>>
      <4>1. PICK k \in 1..Len(s), r \in 1..DirSlots : i = ((k - 1) * DirSlots) + r /\ Q[i] = <<s[k], r>>
        BY <2>4 DEF AreOf
      <4>2. k = 1
        BY <2>3
      <4>3. i = r
        BY <4>1, <4>2, NumberTypes
      <4>. QED  BY <2>3, <4>1, <4>2, <4>3
    <3>. QED  BY <3>1
  <2> HIDE DEF Q
  <2>6. \A i \in 1..DirSlots : EntryAt(w, <<c, i>>) = Dots(c, parent)[i]
    <3>1. ASSUME NEW i \in 1..DirSlots PROVE EntryAt(w, <<c, i>>) = Dots(c, parent)[i]
      <4>1. <<c, i>> \in Slots
        BY <2>2, SlotsAre
      <4> DEFINE q == <<c, i>>
      <4>2. q[1] = c /\ q[2] = i
        OBVIOUS
      <4> HIDE DEF q
      <4>. QED  BY <4>1, <4>2 DEF Dotted, q
    <3>. QED  BY <3>1
  <2>7. \A i \in DOMAIN Q : EntryAt(w, Q[i]) = Dots(c, parent)[i]
    BY <2>5, <2>6
  <2>. QED  BY <2>1, <2>5, <2>7, DotsAre DEF NoGap, Q
<1>10. ASSUME NEW d \in DirsOf(v), d # c PROVE NoGap(w, d)
  <2>1. d \in {Root} \union Clusters /\ Ends(v, d) /\ NoGap(v, d)
    BY <1>0, DirFacts
  <2>2. c \notin Area(v, d)
    BY <1>0, <1>8, <1>10, AreasApart
  <2>3. \A p \in Slots : p[1] \in Area(v, d) => EntryAt(w, p) = EntryAt(v, p)
    BY <2>2 DEF Dotted
  <2>4. Chain(w, d) = Chain(v, d)
    BY <1>6
  <2>. QED  BY <2>1, <2>3, <2>4, NoGapKept
<1>11. \A d \in DirsOf(v) : Area(v, d) \subseteq Area(w, d) /\ NoGap(w, d)
  BY <1>5, <1>9, <1>10
<1>12. \A d, e \in DirsOf(v) : \A x \in Area(w, d) : x \in Area(v, e) => x \in Area(v, d)
  BY <1>5
<1>13. Alike(v, w) /\ Arranged(w, to)
  BY <1>1, <1>4, <1>11, <1>12, ArrangedKept
<1>14. RightSizes(w, {})
  BY <1>1, <1>6, <1>13, SizesKept
<1>15. Chains(w, Heads(w, {}, 0))
  <2>1. Heads(w, {}, 0) = H
    BY <1>13, AlikeGives
  <2> HIDE DEF H
  <2>. QED  BY <1>1, <2>1, SameFamily
<1>16. Whole(w, {}, 0, to)
  BY <1>13, <1>14, <1>15 DEF Whole
<1>. QED  BY <1>13, <1>16 DEF Settled

(* A file's chain is freed before its entry is written or deleted.         *)
LEMMA WholeFrees ==
    ASSUME NEW v, Volume(v), NEW to, Settled(v, to), NEW p \in Shown(v) \ ShownDirs(v)
    PROVE  /\ Whole(FreeChain(v, EntryAt(v, p).first), {p}, 0, to)
           /\ Alike(v, FreeChain(v, EntryAt(v, p).first))
<1> DEFINE H == Heads(v, {}, 0)
           K == Heads(v, {p}, 0)
           w == FreeChain(v, EntryAt(v, p).first)
<1>0. Whole(v, {}, 0, to)
  BY DEF Settled
<1>1. Chains(v, H) /\ RightSizes(v, {}) /\ Arranged(v, to)
  BY <1>0 DEF Whole
<1>2. p \in DOMAIN H /\ H[p] = EntryAt(v, p).first /\ K[p] = 0 /\ DOMAIN K = DOMAIN H
  <2>1. p # Orphan /\ DOMAIN H = Shown(v) \union {Orphan} /\ DOMAIN K = Shown(v) \union {Orphan}
    BY HeadsAre
  <2>2. H[p] = EntryAt(v, p).first
    BY <2>1 DEF Heads
  <2>3. K[p] = 0
    BY <2>1 DEF Heads
  <2>. QED  BY <2>1, <2>2, <2>3
<1>3. \A i \in DOMAIN H \ {p} : K[i] = H[i]
  BY DEF Heads
<1>4. v.fat \in Fats /\ "fat" \in DOMAIN v /\ w.content = v.content
  BY DEF Volume, HasFields, FreeChain
<1> HIDE DEF H, K
<1>5. w = FreeChain(v, H[p])
  BY <1>2
<1> HIDE DEF w
<1>6. Chains(w, K) /\ SameBut(v, w, H, p)
  BY <1>1, <1>2, <1>3, <1>4, <1>5, HeadFreed DEF SameBut
<1>7. KeptBut(v, w, {}, 0, p)
  BY <1>0, <1>6, OthersSame DEF H
<1>8. /\ \A q \in Shown(v) : q # p => Chain(w, EntryAt(v, q).first) = Chain(v, EntryAt(v, q).first)
      /\ \A d \in DirsOf(v) : Chain(w, d) = Chain(v, d)
  BY <1>7 DEF KeptBut
<1>9. \A q : EntryAt(w, q) = EntryAt(v, q)
  BY <1>4 DEF EntryAt
<1>10. \A d \in DirsOf(v) : Area(w, d) = Area(v, d)
  BY <1>8 DEF Area, ClustersOf
<1>11. ASSUME NEW d \in DirsOf(v) PROVE NoGap(w, d)
  <2>1. d \in {Root} \union Clusters /\ Ends(v, d) /\ NoGap(v, d)
    BY <1>0, DirFacts
  <2>. QED  BY <1>8, <1>9, <2>1, NoGapKept
<1>12. Alike(v, w) /\ Arranged(w, to)
  <2>1. \A d \in DirsOf(v) : Area(v, d) \subseteq Area(w, d) /\ NoGap(w, d)
    BY <1>10, <1>11
  <2>2. \A d, e \in DirsOf(v) : \A x \in Area(w, d) : x \in Area(v, e) => x \in Area(v, d)
    BY <1>10
  <2>. QED  BY <1>1, <1>9, <2>1, <2>2, ArrangedKept
<1>13. RightSizes(w, {p})
  <2>1. RightSizes(v, {p})
    BY <1>1 DEF RightSizes
  <2>2. \A q \in Shown(v) \ (ShownDirs(v) \union {p}) :
           Chain(w, EntryAt(v, q).first) = Chain(v, EntryAt(v, q).first)
    BY <1>8
  <2>. QED  BY <1>12, <2>1, <2>2, SizesKept
<1>14. Chains(w, Heads(w, {p}, 0)) /\ {p} \subseteq Shown(w) \ ShownDirs(w)
  <2>1. Heads(w, {p}, 0) = K
    BY <1>12, AlikeGives DEF K
  <2>. QED  BY <1>6, <1>12, <2>1, AlikeGives DEF Alike
<1>15. Whole(w, {p}, 0, to)
  BY <1>12, <1>13, <1>14 DEF Whole
<1>. QED  BY <1>12, <1>15 DEF w

----------------------------------------------------------------------------
(* Operations on a volume that is sound give a volume that is sound.       *)
LEMMA SameVolume ==
    ASSUME NEW v, NEW w, NEW to, Settled(v, to), w.fat = v.fat, w.content = v.content
    PROVE  Settled(w, to) /\ DirsOf(w) = DirsOf(v)
<1>0. Whole(v, {}, 0, to)
  BY DEF Settled
<1>1. \A q : EntryAt(w, q) = EntryAt(v, q)
  BY DEF EntryAt
<1>2. \A d : Chain(w, d) = Chain(v, d) /\ Area(w, d) = Area(v, d)
  BY SameFat DEF Area
<1>3. ASSUME NEW d \in DirsOf(v) PROVE NoGap(w, d)
  <2>1. d \in {Root} \union Clusters /\ Ends(v, d) /\ NoGap(v, d)
    BY <1>0, DirFacts
  <2>. QED  BY <1>1, <1>2, <2>1, NoGapKept
<1>4. Alike(v, w) /\ Arranged(w, to)
  <2>1. Arranged(v, to)
    BY <1>0 DEF Whole
  <2>. QED  BY <1>1, <1>2, <1>3, <2>1, ArrangedKept
<1>5. RightSizes(w, {})
  <2>1. RightSizes(v, {})
    BY <1>0 DEF Whole
  <2>. QED  BY <1>2, <1>4, <2>1, SizesKept
<1>6. Chains(w, Heads(w, {}, 0))
  <2> DEFINE H == Heads(v, {}, 0)
  <2>1. Heads(w, {}, 0) = H /\ Chains(v, H)
    BY <1>0, <1>4, AlikeGives DEF Whole
  <2> HIDE DEF H
  <2>. QED  BY <2>1, SameFamily
<1>7. Whole(w, {}, 0, to)
  BY <1>4, <1>5, <1>6 DEF Whole
<1>. QED  BY <1>4, <1>7, AlikeGives DEF Settled

(* An old entry that is found is shown.                                    *)
LEMMA FoundIsShown ==
    ASSUME NEW v, Volume(v), NEW to, Settled(v, to), NEW d \in DirsOf(v),
           NEW name, name.stem \notin {".", ".."},
           NEW kind \in {"file", "dir"}, Existing(v, d, name, kind) # << >>
    PROVE  LET p == Head(Existing(v, d, name, kind))
           IN  /\ p \in Shown(v) /\ p[1] \in Area(v, d) /\ EntryAt(v, p).kind = kind
               /\ IsName(name, EntryAt(v, p).name)
<1> DEFINE p == Head(Existing(v, d, name, kind))
<1>1. p \in List(v, d) /\ EntryAt(v, p).kind = kind /\ IsName(name, EntryAt(v, p).name)
  BY ExistingThere
<1> HIDE DEF p
<1>2. d \in {Root} \union Clusters /\ Ends(v, d)
  BY DirFacts DEF Settled
<1>3. p \in Slots /\ p[1] \in Area(v, d) /\ EntryAt(v, p).kind \in {"file", "dir"}
  BY <1>1, <1>2, ListedIsSeen
<1>4. EntryAt(v, p).name[1] = name.stem
  BY <1>1 DEF IsName
<1>5. p \in Shown(v)
  BY <1>3, <1>4 DEF Shown, Shows
<1>. QED  BY <1>1, <1>3, <1>5 DEF p

\* A directory of that name is in d now: w has it, with path and parent in more.
NamedFor(short, name) == short[1] = name.stem /\ (name.kind = "long" => short[2] # 0)
Enters(more, to, c, d, short) == more[c].path = Append(to[d].path, short) /\ more[c].up = d
Made(v, w, c, to, more, d, name) ==
    /\ Settled(w, more) /\ DirsOf(v) \subseteq DirsOf(w) /\ \A x \in DirsOf(v) : more[x] = to[x]
    /\ c \in DirsOf(w) /\ c # Root
    /\ \E short \in OnDrive : /\ Enters(more, to, c, d, short) /\ NamedFor(short, name)
                              /\ c \in DirsOf(v) => name.kind = "plain" /\ short[2] = 0

LEMMA ExistingIsMade ==
    ASSUME NEW v, Volume(v), NEW to, Settled(v, to), NEW d \in DirsOf(v), NEW name,
           name.stem \in Names \ {".", ".."}, Existing(v, d, name, "dir") # << >>
    PROVE  Made(v, v, EntryAt(v, Head(Existing(v, d, name, "dir"))).first, to, to, d, name)
<1> DEFINE p == Head(Existing(v, d, name, "dir"))
           c == EntryAt(v, p).first
           short == EntryAt(v, p).name
<1>1. p \in Shown(v) /\ p[1] \in Area(v, d) /\ EntryAt(v, p).kind = "dir" /\ IsName(name, short)
  BY FoundIsShown
<1> HIDE DEF p
<1>2. p \in ShownDirs(v) /\ p \in Slots
  BY <1>1 DEF ShownDirs, Shown
<1>3. c \in DirsOf(v) /\ Enters(to, to, c, d, short)
  BY <1>1, <1>2 DEF DirsOf, Enters, Settled, Whole, Arranged, Nested
<1>4. FineEntry(EntryAt(v, p)) /\ EntryAt(v, p).name[1] \notin {".", ".."}
  BY <1>1, <1>2, SlotIsFine DEF Shown, Shows
<1>5. c # Root /\ short \in OnDrive
  BY <1>1, <1>4, NumberTypes DEF FineEntry, Root
<1>6. NamedFor(short, name) /\ name.kind = "plain" /\ short[2] = 0
  BY <1>1 DEF IsName, NamedFor
<1> HIDE DEF c, short
<1>7. Made(v, v, c, to, to, d, name)
  BY <1>3, <1>5, <1>6 DEF Made
<1>. QED  BY <1>7 DEF c, p

LEMMA NewDirIsMade ==
    ASSUME NEW v, Volume(v), NEW to, Settled(v, to), NEW d \in DirsOf(v), Len(to[d].path) < Depth,
           NEW name, name.stem \in Names \ {".", ".."},
           NEW z, NEW c \in FreeClusters(v), Volume(z), z.fat = [v.fat EXCEPT ![c] = Eoc],
           z.content = [v.content EXCEPT ![c] = Zeroed],
           NEW short \in OnDrive, NamedFor(short, name), FreeSlot(z, d).ok
    PROVE  LET x == WriteEntry(FreeSlot(z, d).vol, FreeSlot(z, d).got, Entry("dir", short, c, 0))
               w == [x EXCEPT !.content[c].entries = Dots(c, d)]
           IN  \E more : Made(v, w, c, to, more, d, name)
<1> DEFINE f == FreeSlot(z, d)
           u == f.vol
           e == Entry("dir", short, c, 0)
           x == WriteEntry(f.vol, f.got, e)
           w == [x EXCEPT !.content[c].entries = Dots(c, d)]
           more == [y \in DirsOf(v) \union {c} |->
                       IF y = c THEN [path |-> Append(to[d].path, short), up |-> d] ELSE to[y]]
<1>1. c \in Clusters /\ v.fat \in Fats /\ Whole(v, {}, 0, to)
  BY DEF FreeClusters, Volume, Settled
<1>2. Blanked(v, z, c)
  <2>1. Zeroed.entries = [i \in 1..DirSlots |-> Never]
    BY DEF Zeroed, Holding
  <2>. QED  BY <1>1, <2>1, BlankedIs
<1>3. Whole(z, {}, c, to) /\ Alike(v, z) /\ Chain(z, c) = <<c>>
  BY <1>1, <1>2, WholeTakes
<1>4. DirsOf(z) = DirsOf(v)
  BY <1>3, AlikeGives
<1>5. Opened(z, f, d, {}, c, to)
  <2>1. Whole(z, {}, c, to) /\ d \in DirsOf(z)
    BY <1>3, <1>4
  <2>. QED  BY <2>1, FreeSlotOpens
<1>6. Volume(u)
  BY FreeSlotGives
<1>7. ClustersOf(z, c) = {c}
  <2>1. Len(<<c>>) = 1 /\ <<c>>[1] = c /\ 1..1 = {1}
    OBVIOUS
  <2>. QED  BY <1>3, <2>1, ClustersAre
<1> HIDE DEF f
<1>8. /\ Whole(u, {}, c, to) /\ Alike(z, u) /\ OpenAt(u, d, f.got)
      /\ \A p \in Slots : p[1] = c => EntryAt(u, p) = EntryAt(z, p)
  BY <1>5, <1>7 DEF Opened
<1>9. DirsOf(u) = DirsOf(v)
  BY <1>4, <1>8, AlikeGives
<1>10. Chain(u, c) = <<c>>
  BY <1>3, <1>5 DEF Opened
<1>11. ClustersOf(u, c) = {c}
  BY <1>5, <1>7 DEF Opened, ClustersOf
<1>12. AllNever(u, ClustersOf(u, c))
  BY <1>2, <1>8, <1>11 DEF AllNever, Blanked
<1>13. /\ e.kind = "dir" /\ e.name = short /\ e.first = c /\ e.size = 0
       /\ short[1] \notin {".", ".."}
  BY DEF Entry, NamedFor
<1> HIDE DEF e
<1>14. IsDirEntry(e, c) /\ FineEntry(e)
  BY <1>1, <1>13 DEF IsDirEntry, Shows, FineEntry
<1>15. f.got \in Slots /\ f.got[1] \in Area(u, d) /\ d \in DirsOf(u)
  BY <1>8, OpenIs
<1>16. EntryWritten(u, x, f.got, e) /\ x.fat = u.fat /\ Volume(x)
  BY <1>6, <1>14, <1>15, WrittenIs, WriteEntryKeeps
<1>17. f.got[1] # c
  BY <1>8, <1>11, <1>15, OrphanApart
<1>18. Extended(u, to, more, c, d, e.name)
  <2>1. c \notin DirsOf(v)
    <3>1. c \in Area(v, c)
      BY <1>1, ClustersAre, NumberTypes DEF Area, Root
    <3>. QED  BY <1>1, <3>1, FreeUnseen
  <2>2. more[c] = [path |-> Append(to[d].path, short), up |-> d]
    OBVIOUS
  <2>3. \A y \in DirsOf(v) : more[y] = to[y]
    BY <2>1
  <2> HIDE DEF more
  <2>. QED  BY <1>9, <1>13, <2>2, <2>3 DEF Extended
<1> HIDE DEF more, u, x
<1>19. Settled(x, more) /\ DirsOf(x) = DirsOf(u) \union {c} /\ c \notin DirsOf(u)
  BY <1>1, <1>8, <1>12, <1>14, <1>16, <1>18, DirWritten
<1>20. Settled(w, more) /\ Alike(x, w)
  <2>1. Chain(x, c) = <<c>>
    BY <1>10, <1>16, SameFat
  <2>2. AllNever(x, {c})
    BY <1>11, <1>12, <1>16, <1>17 DEF AllNever, EntryWritten
  <2>3. Dotted(x, w, c, d)
    BY <1>1, <1>16, DottedIs
  <2>4. w.fat = x.fat
    BY <1>16 DEF Volume, HasFields
  <2>5. c \in DirsOf(x) /\ c # Root
    BY <1>1, <1>19, NumberTypes DEF Root
  <2> HIDE DEF w
  <2>. QED  BY <1>19, <2>1, <2>2, <2>3, <2>4, <2>5, DirDotted
<1>21. DirsOf(w) = DirsOf(v) \union {c}
  BY <1>9, <1>19, <1>20, AlikeGives
<1>22. Enters(more, to, c, d, short) /\ \A y \in DirsOf(v) : more[y] = to[y]
  BY <1>9, <1>13, <1>18 DEF Extended, Enters
<1>23. c # Root /\ c \notin DirsOf(v)
  BY <1>1, <1>9, <1>19, NumberTypes DEF Root
<1> HIDE DEF w
<1>24. Made(v, w, c, to, more, d, name)
  BY <1>20, <1>21, <1>22, <1>23 DEF Made
<1>. QED  BY <1>24 DEF w, x, e, f, u

LEMMA MkdirIs ==
    ASSUME NEW v, NEW d, NEW name, Existing(v, d, name, "dir") = << >>, AllocCluster(v).ok
    PROVE  LET a == AllocCluster(v)
               z == [a.vol EXCEPT !.content[a.got] = Zeroed]
               f == FreeSlot(z, d)
               w == [WriteEntry(f.vol, f.got, Entry("dir", ShortName(name, Taken(v, d)), a.got, 0))
                        EXCEPT !.content[a.got].entries = Dots(a.got, d)]
           IN  Mkdir(v, d, name) = IF f.ok THEN Returned(w, a.got) ELSE f
  BY DEF Mkdir, Then

LEMMA MkdirMakes ==
    ASSUME NEW v, Volume(v), NEW to, Settled(v, to), NEW d \in DirsOf(v), Len(to[d].path) < Depth,
           NEW name, name.stem \in Names \ {".", ".."}, Mkdir(v, d, name).ok
    PROVE  \E more : Made(v, Mkdir(v, d, name).vol, Mkdir(v, d, name).got, to, more, d, name)
<1> DEFINE r == Mkdir(v, d, name)
           there == Existing(v, d, name, "dir")
           a == AllocCluster(v)
           c == a.got
           short == ShortName(name, Taken(v, d))
           z == [a.vol EXCEPT !.content[a.got] = Zeroed]
           f == FreeSlot(z, d)
           w == [WriteEntry(f.vol, f.got, Entry("dir", short, a.got, 0))
                    EXCEPT !.content[a.got].entries = Dots(a.got, d)]
<1>1. CASE there # << >>
  <2>1. r = Returned(v, EntryAt(v, Head(there)).first)
    BY <1>1 DEF Mkdir
  <2>2. r.vol = v /\ r.got = EntryAt(v, Head(there)).first
    BY <2>1 DEF Returned
  <2>3. Made(v, v, EntryAt(v, Head(there)).first, to, to, d, name)
    BY <1>1, ExistingIsMade
  <2> HIDE DEF r
  <2>4. Made(v, r.vol, r.got, to, to, d, name)
    BY <2>2, <2>3
  <2>. QED  BY <2>4 DEF r
<1>2. CASE there = << >> /\ ~a.ok
  <2>1. r = a
    BY <1>2 DEF Mkdir, Then
  <2>. QED  BY <1>2, <2>1
<1>3. CASE there = << >> /\ a.ok
  <2>1. r = IF f.ok THEN Returned(w, c) ELSE f
    BY <1>3, MkdirIs
  <2>2. f.ok
    <3>1. CASE ~f.ok
      <4>1. r = f
        BY <2>1, <3>1
      <4>. QED  BY <3>1, <4>1
    <3>. QED  BY <3>1
  <2>3. r = Returned(w, c)
    BY <2>1, <2>2
  <2>4. r.vol = w /\ r.got = c
    <3> HIDE DEF r, w, c
    <3>. QED  BY <2>3 DEF Returned
  <2>5. c \in FreeClusters(v) /\ Volume(a.vol) /\ a.vol = [v EXCEPT !.hint = c + 1, !.fat[c] = Eoc]
    <3>1. ~Thrown(v).ok
      BY DEF Thrown
    <3>2. a # Thrown(v)
      BY <1>3, <3>1
    <3>. QED  BY <3>2, AllocClusterGives
  <2>6. a.vol.fat = [v.fat EXCEPT ![c] = Eoc] /\ a.vol.content = v.content
    BY <2>5 DEF Volume, HasFields
  <2>7. c \in Clusters
    BY <2>5 DEF FreeClusters
  <2> HIDE DEF a
  <2>8. /\ HasFields(z) /\ z.fat = a.vol.fat /\ z.hint = a.vol.hint
        /\ z.content = [a.vol.content EXCEPT ![c] = Zeroed]
    BY <2>5 DEF Volume, HasFields
  <2> HIDE DEF z
  <2>9. Volume(z)
    <3>1. FineContent(a.vol.content)
      BY <2>5 DEF Volume
    <3>2. FineContent(z.content)
      BY <2>7, <2>8, <3>1, ZeroedKeeps
    <3>. QED  BY <2>5, <2>8, <3>2 DEF Volume
  <2>10. short \in OnDrive /\ NamedFor(short, name)
    BY ShortNameGives DEF NamedFor
  <2>11. z.fat = [v.fat EXCEPT ![c] = Eoc] /\ z.content = [v.content EXCEPT ![c] = Zeroed]
    BY <2>6, <2>8
  <2> HIDE DEF short, c
  <2>12. \E more : Made(v, w, c, to, more, d, name)
    BY <2>2, <2>5, <2>9, <2>10, <2>11, NewDirIsMade DEF c
  <2> HIDE DEF r, w
  <2>. QED  BY <2>4, <2>12 DEF r
<1>. QED  BY <1>1, <1>2, <1>3

(* A file is created or replaced.                                          *)
LEMMA AlikeDirs ==
    ASSUME NEW v, NEW w, Alike(v, w)
    PROVE  SameDirs(v, w)
  BY AlikeGives DEF SameDirs

LEMMA FileIsPlaced ==
    ASSUME NEW v, Volume(v), NEW out, NEW to, Whole(v, out, 0, to), NEW d \in DirsOf(v), NEW old,
           IF old = << >> THEN out = {} ELSE out = {Head(old)} /\ Head(old) \in Slots,
           NEW short, short[1] \notin {".", ".."}, NEW size, NEW version,
           Pieces(size) \in Nat, Pieces(size) <= Space(v),
           Entered(WithPieces(v, Pieces(size), version), d, old, short, size).ok
    PROVE  LET w == Entered(WithPieces(v, Pieces(size), version), d, old, short, size).vol
           IN  Settled(w, to) /\ SameDirs(v, w)
<1> DEFINE n == Pieces(size)
           new == WithPieces(v, n, version)
           u == new.vol
           first == new.first
           e == Entry("file", short, first, size)
           f == FreeSlot(u, d)
           r == Entered(new, d, old, short, size)
<1>1. Laid(v, out, to, new, n) /\ Volume(u)
  <2> HIDE DEF n
  <2>. QED  BY PiecesLaid DEF n
<1>2. Whole(u, out, first, to) /\ Alike(v, u) /\ Len(Chain(u, first)) = n
  BY <1>1 DEF Laid
<1> HIDE DEF new
<1>3. e.kind = "file" /\ e.name = short /\ e.first = first /\ e.size = size
  BY DEF Entry
<1> HIDE DEF e
<1>4. Shows(e) /\ SameDirs(v, u)
  BY <1>2, <1>3, AlikeDirs DEF Shows
<1>5. CASE old # << >>
  <2> DEFINE p == Head(old)
             w == WriteEntry(u, p, e)
  <2>1. r = Returned(w, short)
    BY <1>5 DEF Entered, e
  <2>2. r.vol = w
    BY <2>1 DEF Returned
  <2>3. p \in Slots /\ out = {p}
    BY <1>5
  <2> HIDE DEF p
  <2>4. EntryWritten(u, w, p, e) /\ w.fat = u.fat
    BY <1>1, <2>3, WrittenIs DEF WriteEntry, Volume, HasFields
  <2> HIDE DEF w, first, u, n, r
  <2>5. Len(Chain(u, first)) = Pieces(e.size)
    BY <1>2, <1>3 DEF n
  <2>6. Settled(w, to) /\ SameDirs(u, w)
    BY <1>2, <1>3, <1>4, <2>3, <2>4, <2>5, FileWritten
  <2>. QED  BY <1>4, <2>2, <2>6 DEF SameDirs, r, new, n
<1>6. CASE old = << >> /\ ~f.ok
  <2>1. r = f
    BY <1>6 DEF Entered, Then
  <2>2. ~r.ok
    BY <1>6, <2>1
  <2>. QED  BY <2>2 DEF new, n
<1>7. CASE old = << >> /\ f.ok
  <2> DEFINE w == WriteEntry(f.vol, f.got, e)
  <2>1. r = Returned(w, short)
    BY <1>7 DEF Entered, Then, e
  <2>2. r.vol = w
    BY <2>1 DEF Returned
  <2>3. out = {} /\ Whole(u, {}, first, to) /\ d \in DirsOf(u)
    BY <1>2, <1>4, <1>7 DEF SameDirs
  <2>4. Opened(u, f, d, {}, first, to)
    BY <1>1, <1>7, <2>3, FreeSlotOpens
  <2>5. Volume(f.vol)
    BY <1>1, <1>7, FreeSlotGives
  <2> HIDE DEF f
  <2>6. Whole(f.vol, {}, first, to) /\ Alike(u, f.vol) /\ OpenAt(f.vol, d, f.got)
    BY <2>4 DEF Opened
  <2>7. Len(Chain(f.vol, first)) = Len(Chain(u, first))
    BY <2>4 DEF Opened
  <2>8. f.got \in Slots
    BY <2>6, OpenIs
  <2>9. EntryWritten(f.vol, w, f.got, e) /\ w.fat = f.vol.fat
    BY <2>5, <2>8, WrittenIs DEF WriteEntry, Volume, HasFields
  <2>10. SameDirs(u, f.vol)
    BY <2>6, AlikeDirs
  <2> DEFINE x == f.vol
             p == f.got
  <2>11. Len(Chain(x, first)) = Pieces(e.size)
    BY <1>2, <1>3, <2>7
  <2>12. Whole(x, {}, first, to) /\ EntryWritten(x, w, p, e) /\ w.fat = x.fat /\ p \in Slots
         /\ \E y : OpenAt(x, y, p)
    BY <2>6, <2>8, <2>9
  <2> HIDE DEF w, first, u, n, x, p, r
  <2>13. Settled(w, to) /\ SameDirs(x, w)
    BY <1>3, <1>4, <2>11, <2>12, FileWritten
  <2>14. SameDirs(v, w)
    BY <1>4, <2>10, <2>13 DEF SameDirs, x
  <2>. QED  BY <2>2, <2>13, <2>14 DEF r, new, n
<1>. QED  BY <1>5, <1>6, <1>7

LEMMA WriteFileSettles ==
    ASSUME NEW v, Volume(v), NEW to, Settled(v, to), NEW d \in DirsOf(v),
           NEW name, name.stem \in Names \ {".", ".."}, NEW size \in Nat, NEW version,
           WriteFile(v, d, name, size, version).ok
    PROVE  LET w == WriteFile(v, d, name, size, version).vol
           IN  Settled(w, to) /\ SameDirs(v, w)
<1> DEFINE old == Existing(v, d, name, "file")
           p == Head(old)
           u == IF old # << >> THEN FreeChain(v, EntryAt(v, p).first) ELSE v
           short == IF old # << >> THEN EntryAt(u, p).name ELSE ShortName(name, Taken(u, d))
           out == IF old # << >> THEN {p} ELSE {}
           n == Pieces(size)
           r == WriteFile(v, d, name, size, version)
<1>1. r = NewFile(u, d, old, name, size, version)
  BY DEF WriteFile
<1>2. n \in Nat /\ Space(u) \in Nat
  <2>1. (size + 1) \div 2 \in Nat
    OBVIOUS
  <2>. QED  BY <2>1, FreeFinite DEF Pieces
<1>3. CASE n > Space(u)
  <2>1. r = Thrown(u)
    BY <1>1, <1>3 DEF NewFile, Space
  <2>2. ~r.ok
    BY <2>1 DEF Thrown
  <2>. QED  BY <2>2
<1>4. CASE ~(n > Space(u))
  <2>1. r = Entered(WithPieces(u, n, version), d, old, short, size)
    BY <1>1, <1>4 DEF NewFile, Space
  <2>2. Volume(u)
    BY FreeChainKeeps
  <2>3. /\ Whole(u, out, 0, to) /\ SameDirs(v, u) /\ short[1] = name.stem
        /\ IF old = << >> THEN out = {} ELSE out = {Head(old)} /\ Head(old) \in Slots
    <3>1. CASE old = << >>
      <4>1. ShortName(name, Taken(v, d))[1] = name.stem
        BY ShortNameGives
      <4>. QED  BY <3>1, <4>1 DEF Settled, SameDirs
    <3>2. CASE old # << >>
      <4>1. p \in Shown(v) /\ EntryAt(v, p).kind = "file" /\ IsName(name, EntryAt(v, p).name)
        BY <3>2, FoundIsShown
      <4> HIDE DEF old, p
      <4>2. p \in Shown(v) \ ShownDirs(v) /\ p \in Slots
        BY <4>1 DEF Shown, ShownDirs
      <4>3. Whole(u, {p}, 0, to) /\ Alike(v, u)
        BY <3>2, <4>2, WholeFrees
      <4>4. EntryAt(u, p) = EntryAt(v, p) /\ SameDirs(v, u)
        BY <4>2, <4>3, AlikeDirs DEF Alike
      <4>5. short[1] = name.stem
        BY <3>2, <4>1, <4>4 DEF IsName
      <4>. QED  BY <3>2, <4>2, <4>3, <4>4, <4>5 DEF p
    <3>. QED  BY <3>1, <3>2
  <2>4. n <= Space(u) /\ d \in DirsOf(u) /\ short[1] \notin {".", ".."}
    BY <1>2, <1>4, <2>3 DEF SameDirs
  <2> DEFINE q == Entered(WithPieces(u, n, version), d, old, short, size)
  <2>5. q.ok
    BY <2>1
  <2> HIDE DEF u, short, out, old
  <2>6. Settled(q.vol, to) /\ SameDirs(u, q.vol)
    BY <1>2, <2>2, <2>3, <2>4, <2>5, FileIsPlaced
  <2> HIDE DEF q, r
  <2>7. r.vol = q.vol
    BY <2>1 DEF q
  <2>. QED  BY <2>3, <2>6, <2>7 DEF SameDirs, r
<1>. QED  BY <1>3, <1>4

LEMMA DeleteSettles ==
    ASSUME NEW v, Volume(v), NEW to, Settled(v, to), NEW p \in Slots, EntryAt(v, p).kind = "file"
    PROVE  LET w == WriteEntry(FreeChain(v, EntryAt(v, p).first), p, Deleted)
           IN  Settled(w, to) /\ SameDirs(v, w)
<1> DEFINE u == FreeChain(v, EntryAt(v, p).first)
           w == WriteEntry(u, p, Deleted)
<1>1. p \in Shown(v) \ ShownDirs(v)
  BY DEF Settled, Whole, Arranged, FilesNamed, ShownDirs
<1>2. Whole(u, {p}, 0, to) /\ Alike(v, u)
  BY <1>1, WholeFrees
<1>3. Volume(u)
  BY FreeChainKeeps
<1> HIDE DEF u
<1>4. EntryWritten(u, w, p, Deleted) /\ w.fat = u.fat
  BY <1>3, WrittenIs DEF WriteEntry, Volume, HasFields
<1>5. Deleted.kind = "deleted"
  BY DEF Deleted, Entry
<1> HIDE DEF w
<1>6. Settled(w, to) /\ SameDirs(u, w)
  <2> DEFINE out == {p}
             first == 0
  <2>1. out = {p} /\ first = 0 /\ Whole(u, out, first, to)
    BY <1>2
  <2> HIDE DEF out, first
  <2>. QED  BY <1>4, <1>5, <2>1, EntryDeleted
<1>7. SameDirs(v, u)
  BY <1>2, AlikeDirs
<1>. QED  BY <1>6, <1>7 DEF SameDirs, u, w

(* A new volume.                                                           *)
AtRoot == [x \in {Root} |-> [path |-> << >>, up |-> Root]]
LEMMA FormattedIsEmpty ==
    ASSUME NEW p \in Slots
    PROVE  EntryAt(Formatted, p) = Never
<1> DEFINE v == Formatted
<1>1. p[1] \in 0..(N + 1) /\ p[2] \in SlotsOf(p[1])
  BY SlotsAre
<1>2. v.content[p[1]] = IF p[1] = Root THEN Holding([i \in 1..RootSlots |-> Never], NoPiece) ELSE Zeroed
  BY <1>1 DEF Formatted
<1> HIDE DEF v
<1>3. v.content[p[1]].entries = [i \in SlotsOf(p[1]) |-> Never]
  <2>1. CASE p[1] = Root
    <3>1. SlotsOf(p[1]) = 1..RootSlots
      BY <2>1 DEF SlotsOf
    <3>2. v.content[p[1]] = Holding([i \in 1..RootSlots |-> Never], NoPiece)
      BY <1>2, <2>1
    <3>. QED  BY <3>1, <3>2 DEF Holding
  <2>2. CASE p[1] # Root
    <3>1. SlotsOf(p[1]) = 1..DirSlots
      BY <2>2 DEF SlotsOf
    <3>2. v.content[p[1]] = Zeroed
      BY <1>2, <2>2
    <3>. QED  BY <3>1, <3>2 DEF Holding, Zeroed
  <2>. QED  BY <2>1, <2>2
<1>4. EntryAt(v, p) = Never
  BY <1>1, <1>3 DEF EntryAt
<1>. QED  BY <1>4 DEF v

LEMMA FormattedIsSettled == Settled(Formatted, AtRoot)
<1> DEFINE v == Formatted
           H == Heads(v, {}, 0)
<1>1. \A c \in Clusters : v.fat[c] = Free
  BY NumberTypes DEF Formatted, Free
<1>2. ASSUME NEW p \in Slots PROVE EntryAt(v, p) = Never
  BY FormattedIsEmpty
<1>3. Never.kind = "never"
  BY DEF Never, Entry
<1> HIDE DEF v
<1>4. Shown(v) = {} /\ ShownDirs(v) = {} /\ DirsOf(v) = {Root}
  BY <1>2, <1>3 DEF Shown, Shows, ShownDirs, DirsOf
<1>5. DOMAIN H = {Orphan} /\ H[Orphan] = 0
  BY <1>4 DEF Heads
<1>6. ClustersOf(v, 0) = {} /\ Ends(v, 0)
  BY NoHead
<1> HIDE DEF H
<1>7. Chains(v, H)
  BY <1>1, <1>5, <1>6 DEF Chains
<1>8. NoGap(v, Root)
  <2>1. \A i \in DOMAIN Places(v, Root) : Places(v, Root)[i] \in Slots
    BY <1>6, PlacesOf DEF Root
  <2>. QED  BY <1>2, <1>3, <2>1 DEF NoGap
<1>9. FilesNamed(v) /\ Homes(v) /\ RightSizes(v, {})
  BY <1>2, <1>3, <1>4 DEF FilesNamed, Homes, RightSizes
<1>10. Nested(v, AtRoot)
  <2>1. AtRoot[Root].path = << >> /\ << >> \in Seq(OnDrive) /\ Len(<< >>) = 0 /\ 0 <= Depth
    BY DepthIsNat DEF AtRoot
  <2>. QED  BY <1>4, <2>1 DEF Nested
<1>11. Whole(v, {}, 0, AtRoot)
  BY <1>4, <1>7, <1>8, <1>9, <1>10 DEF Whole, Arranged, H
<1>. QED  BY <1>11 DEF Settled, v

LEMMA FilledIsSettled ==
    ASSUME NEW files \in Volumes, Filled(files).ok
    PROVE  Settled(Filled(files).vol, AtRoot)
<1> DEFINE n == Len(files)
           with == CHOOSE f : FilledBy(files, f, n)
           T == {i \in 0..n : Volume(with[i].vol) /\ (with[i].ok => Settled(with[i].vol, AtRoot))}
           Parts == {files[i] : i \in DOMAIN files}
<1>1. files \in Seq(Parts)
  BY FileAssumption
<1> HIDE DEF Parts
<1>2. n \in Nat /\ DOMAIN files = 1..n
  BY <1>1
<1>3. \A i \in 1..n : /\ files[i].size \in Nat \intersect AllSizes
                      /\ files[i].name.stem \in Names \ {".", ".."}
  <2>1. \A i \in 1..n : files[i].size \in Nat
    BY <1>2, FileAssumption
  <2>2. \A i \in 1..n : files[i].size \in AllSizes /\ files[i].name \in AllNames
    BY <1>2 DEF AllSizes, AllNames
  <2>. QED  BY <2>1, <2>2, NamesGiven
<1>4. FilledBy(files, with, n)
  BY <1>2, FillingExists
<1>5. Filled(files) = with[n]
  BY DEF Filled, FilledBy, Putting
<1> HIDE DEF with
<1>6. 0 \in T
  <2>1. with[0].vol = Formatted
    BY <1>2, <1>4 DEF FilledBy, Returned
  <2>. QED  BY <1>2, <2>1, FormattedIsVolume, FormattedIsSettled
<1>7. ASSUME NEW i \in 0..(n - 1), i \in T PROVE i + 1 \in T
  <2> DEFINE file == files[i + 1]
             v == with[i].vol
  <2>1. with[i + 1] = Putting(with[i], file)
    <3>1. i + 1 \in 0..n /\ i + 1 # 0 /\ (i + 1) - 1 = i
      BY <1>2
    <3> HIDE DEF n
    <3>. QED  BY <1>4, <3>1 DEF FilledBy
  <2>2. i + 1 \in 0..n /\ file.size \in Nat \intersect AllSizes /\ file.name.stem \in Names \ {".", ".."}
    BY <1>2, <1>3
  <2> DEFINE name == file.name
             size == file.size
  <2>3. Volume(v) /\ (with[i].ok => Settled(v, AtRoot)) /\ Root \in DirsOf(v)
    BY <1>7 DEF DirsOf
  <2> HIDE DEF file, v
  <2>4. CASE with[i].ok
    <3>1. with[i + 1] = WriteFile(v, Root, name, size, 0)
      BY <2>1, <2>4 DEF Putting, v
    <3>2. name.stem \in Names \ {".", ".."} /\ size \in Nat \intersect AllSizes
      BY <2>2
    <3> HIDE DEF name, size
    <3>3. Volume(with[i + 1].vol)
      BY <2>3, <3>1, <3>2, WriteFileGives
    <3>4. with[i + 1].ok => Settled(with[i + 1].vol, AtRoot)
      BY <2>3, <2>4, <3>1, <3>2, WriteFileSettles
    <3>. QED  BY <2>2, <3>3, <3>4
  <2>5. CASE ~with[i].ok
    BY <1>7, <2>1, <2>2, <2>5 DEF Putting
  <2>. QED  BY <2>4, <2>5
<1>8. \A i \in 0..n : i \in T
  <2> HIDE DEF T, n
  <2>. QED  BY <1>2, <1>6, <1>7, UpTo
<1>. QED  BY <1>2, <1>5, <1>8

----------------------------------------------------------------------------
(* What can be reached from the root is what is shown.                     *)
NodesIn(v, dir, path) ==
    {[path |-> Append(path, EntryAt(v, p).name), in |-> dir, entry |-> EntryAt(v, p)] :
        p \in {q \in List(v, dir) : EntryAt(v, q).name[1] \notin {".", ".."}}}
Below(v, nodes) ==
    UNION {NodesIn(v, m.entry.first, m.path) : m \in {above \in nodes : above.entry.kind = "dir"}}
Levels(v, level, k) ==
    level = [n \in 0..k |-> IF n = 0 THEN NodesIn(v, Root, << >>) ELSE Below(v, level[n - 1])]

LEMMA LevelsExist ==
    ASSUME NEW v, NEW n \in Nat
    PROVE  \E level : Levels(v, level, n)
<1> DEFINE T == {m \in 0..n : \E level : Levels(v, level, m)}
<1>1. 0 \in T
  <2> DEFINE f == [i \in 0..0 |-> NodesIn(v, Root, << >>)]
  <2>1. Levels(v, f, 0)
    BY DEF Levels
  <2>. QED  BY <2>1
<1>2. ASSUME NEW m \in 0..(n - 1), m \in T PROVE m + 1 \in T
  <2>1. PICK g : Levels(v, g, m)
    BY <1>2
  <2> DEFINE f == [i \in 0..(m + 1) |-> IF i = 0 THEN NodesIn(v, Root, << >>) ELSE Below(v, g[i - 1])]
  <2>2. ASSUME NEW i \in 0..m PROVE f[i] = g[i]
    <3>1. g[i] = IF i = 0 THEN NodesIn(v, Root, << >>) ELSE Below(v, g[i - 1])
      BY <2>1 DEF Levels
    <3>2. i \in 0..(m + 1)
      OBVIOUS
    <3>. QED  BY <3>1, <3>2
  <2>3. ASSUME NEW i \in 0..(m + 1)
        PROVE  f[i] = IF i = 0 THEN NodesIn(v, Root, << >>) ELSE Below(v, f[i - 1])
    <3>1. i = 0 \/ i - 1 \in 0..m
      OBVIOUS
    <3>2. i = 0 \/ f[i - 1] = g[i - 1]
      BY <2>2, <3>1
    <3>. QED  BY <3>2
  <2>4. Levels(v, f, m + 1)
    BY <2>3 DEF Levels
  <2>. QED  BY <2>4
<1>3. \A m \in 0..n : m \in T
  <2> HIDE DEF T
  <2>. QED  BY <1>1, <1>2, UpTo
<1>. QED  BY <1>3

NodeOf(v, to, d, p) ==
    [path |-> Append(to[d].path, EntryAt(v, p).name), in |-> d, entry |-> EntryAt(v, p)]
OnLevel(v, to, n, m) ==
    \E d \in DirsOf(v), p \in Shown(v) :
        p[1] \in Area(v, d) /\ Len(to[d].path) = n /\ m = NodeOf(v, to, d, p)

LEMMA NodesAre ==
    ASSUME NEW v, Volume(v), NEW to, Settled(v, to), NEW d \in DirsOf(v), NEW path, path = to[d].path
    PROVE  \A m : m \in NodesIn(v, d, path) <=>
              \E p \in Shown(v) : p[1] \in Area(v, d) /\ m = NodeOf(v, to, d, p)
<1>1. d \in {Root} \union Clusters /\ Ends(v, d)
  BY DirFacts DEF Settled
<1>2. \A p \in List(v, d) : EntryAt(v, p).name[1] \notin {".", ".."} => p \in Shown(v) /\ p[1] \in Area(v, d)
  BY <1>1, ListedIsSeen DEF Shown, Shows
<1>3. \A p \in Shown(v) : p[1] \in Area(v, d) => p \in List(v, d) /\ EntryAt(v, p).name[1] \notin {".", ".."}
  BY SeenIsListed DEF Settled, Shown, Shows
<1>4. \A m : m \in NodesIn(v, d, path) <=>
         \E p \in List(v, d) : EntryAt(v, p).name[1] \notin {".", ".."} /\ m = NodeOf(v, to, d, p)
  BY DEF NodesIn, NodeOf
<1>. QED  BY <1>2, <1>3, <1>4

LEMMA DirIsShown ==
    ASSUME NEW v, NEW to, Settled(v, to), NEW d \in DirsOf(v), d # Root
    PROVE  \E e \in DirsOf(v), p \in ShownDirs(v) :
              /\ p \in Shown(v) /\ p[1] \in Area(v, e) /\ EntryAt(v, p).first = d /\ EntryAt(v, p).kind = "dir"
              /\ to[d].path = NodeOf(v, to, e, p).path
              /\ Len(to[d].path) = Len(to[e].path) + 1 /\ Len(to[e].path) \in Nat
<1>1. PICK p \in ShownDirs(v) : EntryAt(v, p).first = d
  BY DEF DirsOf
<1>2. p \in Shown(v) /\ EntryAt(v, p).kind = "dir" /\ Nested(v, to) /\ Homes(v)
  BY DEF ShownDirs, Settled, Whole, Arranged
<1>3. PICK e \in DirsOf(v) : p[1] \in Area(v, e)
  BY <1>2 DEF Homes
<1>4. to[d].path = Append(to[e].path, EntryAt(v, p).name) /\ to[e].path \in Seq(OnDrive)
      /\ to[d].path \in Seq(OnDrive)
  BY <1>1, <1>2, <1>3 DEF Nested
<1>5. Len(Append(to[e].path, EntryAt(v, p).name)) = Len(to[e].path) + 1 /\ Len(to[e].path) \in Nat
  BY <1>4
<1>6. NodeOf(v, to, e, p).path = Append(to[e].path, EntryAt(v, p).name)
  BY DEF NodeOf
<1>. QED  BY <1>1, <1>2, <1>3, <1>4, <1>5, <1>6

LEMMA LevelsAre ==
    ASSUME NEW v, Volume(v), NEW to, Settled(v, to), NEW k \in Nat, NEW level, Levels(v, level, k)
    PROVE  \A n \in 0..k : \A m : m \in level[n] <=> OnLevel(v, to, n, m)
<1> DEFINE T == {n \in 0..k : \A m : m \in level[n] <=> OnLevel(v, to, n, m)}
<1>0. Root \in DirsOf(v) /\ to[Root].path = << >> /\ Len(<< >>) = 0
  BY DEF DirsOf, Settled, Whole, Arranged, Nested
<1>1. 0 \in T
  <2>1. level[0] = NodesIn(v, Root, << >>)
    BY DEF Levels
  <2>2. \A m : m \in level[0] <=> \E p \in Shown(v) : p[1] \in Area(v, Root) /\ m = NodeOf(v, to, Root, p)
    BY <1>0, <2>1, NodesAre
  <2>3. \A d \in DirsOf(v) : Len(to[d].path) = 0 <=> d = Root
    <3>1. ASSUME NEW d \in DirsOf(v), d # Root PROVE Len(to[d].path) # 0
      BY <3>1, DirIsShown
    <3>. QED  BY <1>0, <3>1
  <2>4. \A m : OnLevel(v, to, 0, m) <=>
           \E p \in Shown(v) : p[1] \in Area(v, Root) /\ m = NodeOf(v, to, Root, p)
    BY <1>0, <2>3 DEF OnLevel
  <2>. QED  BY <2>2, <2>4
<1>2. ASSUME NEW n \in 0..(k - 1), n \in T PROVE n + 1 \in T
  <2>1. n + 1 \in 0..k /\ level[n + 1] = Below(v, level[n])
    BY DEF Levels
  <2>2. \A x : x \in level[n + 1] <=>
           \E m \in level[n] : m.entry.kind = "dir" /\ x \in NodesIn(v, m.entry.first, m.path)
    BY <2>1 DEF Below
  <2>3. ASSUME NEW x, NEW m \in level[n], m.entry.kind = "dir", x \in NodesIn(v, m.entry.first, m.path)
        PROVE  OnLevel(v, to, n + 1, x)
    <3>1. PICK d \in DirsOf(v), p \in Shown(v) :
             p[1] \in Area(v, d) /\ Len(to[d].path) = n /\ m = NodeOf(v, to, d, p)
      BY <1>2 DEF OnLevel
    <3> DEFINE e == EntryAt(v, p).first
    <3>2. m.entry = EntryAt(v, p) /\ m.path = Append(to[d].path, EntryAt(v, p).name)
      BY <3>1 DEF NodeOf
    <3>3. p \in ShownDirs(v)
      BY <2>3, <3>2 DEF ShownDirs
    <3>4. e \in DirsOf(v) /\ to[e].path = m.path /\ to[d].path \in Seq(OnDrive) /\ to[e].path \in Seq(OnDrive)
      BY <3>1, <3>2, <3>3 DEF DirsOf, Settled, Whole, Arranged, Nested
    <3>5. Len(to[e].path) = n + 1
      BY <3>1, <3>2, <3>4
    <3>7. m.entry.first = e
      BY <3>2
    <3> HIDE DEF e
    <3> DEFINE path == m.path
    <3>8. path = to[e].path /\ x \in NodesIn(v, e, path)
      BY <2>3, <3>4, <3>7
    <3> HIDE DEF path
    <3>6. PICK q \in Shown(v) : q[1] \in Area(v, e) /\ x = NodeOf(v, to, e, q)
      <4>1. e \in DirsOf(v) /\ path = to[e].path
        BY <3>4, <3>8
      <4>2. \A y : y \in NodesIn(v, e, path) <=>
               \E q \in Shown(v) : q[1] \in Area(v, e) /\ y = NodeOf(v, to, e, q)
        BY <4>1, NodesAre
      <4>. QED  BY <3>8, <4>2
    <3>. QED  BY <3>4, <3>5, <3>6 DEF OnLevel
  <2>4. ASSUME NEW x, OnLevel(v, to, n + 1, x)
        PROVE  \E m \in level[n] : m.entry.kind = "dir" /\ x \in NodesIn(v, m.entry.first, m.path)
    <3>1. PICK e \in DirsOf(v), q \in Shown(v) :
             q[1] \in Area(v, e) /\ Len(to[e].path) = n + 1 /\ x = NodeOf(v, to, e, q)
      BY <2>4 DEF OnLevel
    <3>2. e # Root
      BY <1>0, <3>1
    <3>3. PICK d \in DirsOf(v), p \in ShownDirs(v) :
             /\ p \in Shown(v) /\ p[1] \in Area(v, d) /\ EntryAt(v, p).first = e /\ EntryAt(v, p).kind = "dir"
             /\ to[e].path = NodeOf(v, to, d, p).path
             /\ Len(to[e].path) = Len(to[d].path) + 1 /\ Len(to[d].path) \in Nat
      BY <3>2, DirIsShown
    <3> DEFINE m == NodeOf(v, to, d, p)
    <3>4. Len(to[d].path) = n
      BY <3>1, <3>3
    <3>5. m \in level[n]
      BY <1>2, <3>3, <3>4 DEF OnLevel
    <3>6. m.entry = EntryAt(v, p) /\ m.path = to[e].path
      BY <3>3 DEF NodeOf
    <3> HIDE DEF m
    <3>7. x \in NodesIn(v, e, m.path)
      BY <3>1, <3>6, NodesAre
    <3>. QED  BY <3>3, <3>5, <3>6, <3>7
  <2>. QED  BY <2>1, <2>2, <2>3, <2>4
<1>3. \A n \in 0..k : n \in T
  <2> HIDE DEF T
  <2>. QED  BY <1>1, <1>2, UpTo
<1>. QED  BY <1>3

LEMMA TreeIs ==
    ASSUME NEW v, Volume(v), NEW to, Settled(v, to)
    PROVE  \A m : m \in Tree(v) <=>
              \E d \in DirsOf(v), p \in Shown(v) : p[1] \in Area(v, d) /\ m = NodeOf(v, to, d, p)
<1> DEFINE level == CHOOSE f : Levels(v, f, Depth)
<1>1. Levels(v, level, Depth)
  BY LevelsExist, DepthIsNat
<1>2. Tree(v) = UNION {level[n] : n \in 0..Depth}
  BY DEF Tree, Levels, NodesIn, Below
<1> HIDE DEF level
<1>3. \A n \in 0..Depth : \A m : m \in level[n] <=> OnLevel(v, to, n, m)
  BY <1>1, DepthIsNat, LevelsAre
<1>4. \A d \in DirsOf(v) : Len(to[d].path) \in 0..Depth
  BY DepthIsNat DEF Settled, Whole, Arranged, Nested
<1>. QED  BY <1>2, <1>3, <1>4 DEF OnLevel

(* What VolumeSound says of a volume.                                      *)
LEMMA SharesNothing ==
    ASSUME NEW v, Volume(v), NEW to, Settled(v, to)
    PROVE  /\ \A m \in Tree(v) :
                 /\ Chain(v, m.entry.first) # << >> => v.fat[Last(Chain(v, m.entry.first))] = Eoc
                 /\ m.entry.kind = "file" => Len(Chain(v, m.entry.first)) = Pieces(m.entry.size)
           /\ \A m, n \in Tree(v) :
                 m = n \/ ClustersOf(v, m.entry.first) \intersect ClustersOf(v, n.entry.first) = {}
<1> DEFINE H == Heads(v, {}, 0)
<1>1. Chains(v, H) /\ RightSizes(v, {})
  BY DEF Settled, Whole
<1>2. \A p \in Shown(v) : p \in DOMAIN H /\ H[p] = EntryAt(v, p).first
  <2>1. \A p \in Shown(v) : p # Orphan
    BY HeadsAre
  <2>. QED  BY <2>1 DEF Heads
<1> HIDE DEF H
<1>3. ASSUME NEW m \in Tree(v)
      PROVE  \E d \in DirsOf(v), p \in Shown(v) :
                p[1] \in Area(v, d) /\ m = NodeOf(v, to, d, p) /\ m.entry = EntryAt(v, p)
  BY TreeIs DEF NodeOf
<1>4. ASSUME NEW m \in Tree(v)
      PROVE  /\ Chain(v, m.entry.first) # << >> => v.fat[Last(Chain(v, m.entry.first))] = Eoc
             /\ m.entry.kind = "file" => Len(Chain(v, m.entry.first)) = Pieces(m.entry.size)
  <2>1. PICK p \in Shown(v) : m.entry = EntryAt(v, p)
    BY <1>3
  <2>2. Ends(v, m.entry.first)
    BY <1>1, <1>2, <2>1 DEF Chains
  <2>3. m.entry.kind = "file" => Len(Chain(v, m.entry.first)) = Pieces(m.entry.size)
    BY <1>1, <2>1 DEF RightSizes, ShownDirs
  <2>. QED  BY <2>2, <2>3, ChainGives DEF Ends
<1>5. ASSUME NEW m \in Tree(v), NEW n \in Tree(v), m # n
      PROVE  ClustersOf(v, m.entry.first) \intersect ClustersOf(v, n.entry.first) = {}
  <2>1. PICK d \in DirsOf(v), p \in Shown(v) :
           p[1] \in Area(v, d) /\ m = NodeOf(v, to, d, p) /\ m.entry = EntryAt(v, p)
    BY <1>3
  <2>2. PICK e \in DirsOf(v), q \in Shown(v) :
           q[1] \in Area(v, e) /\ n = NodeOf(v, to, e, q) /\ n.entry = EntryAt(v, q)
    BY <1>3
  <2>3. p # q
    <3>1. p = q => d = e
      BY <2>1, <2>2, AreasApart DEF Settled
    <3>. QED  BY <1>5, <2>1, <2>2, <3>1
  <2>. QED  BY <1>1, <1>2, <2>1, <2>2, <2>3 DEF Chains
<1>. QED  BY <1>4, <1>5

LEMMA LosesNothing ==
    ASSUME NEW v, Volume(v), NEW to, Settled(v, to)
    PROVE  Clusters \ FreeClusters(v) = UNION {ClustersOf(v, m.entry.first) : m \in Tree(v)}
<1> DEFINE H == Heads(v, {}, 0)
<1>1. Chains(v, H) /\ Homes(v)
  BY DEF Settled, Whole, Arranged
<1>2. \A p \in Shown(v) : p \in DOMAIN H /\ H[p] = EntryAt(v, p).first
  <2>1. \A p \in Shown(v) : p # Orphan
    BY HeadsAre
  <2>. QED  BY <2>1 DEF Heads
<1>3. DOMAIN H = Shown(v) \union {Orphan} /\ H[Orphan] = 0
  BY HeadsAre, OrphanHead
<1> HIDE DEF H
<1>4. ASSUME NEW c \in Clusters, c \notin FreeClusters(v)
      PROVE  \E m \in Tree(v) : c \in ClustersOf(v, m.entry.first)
  <2>1. v.fat[c] # Free
    BY <1>4 DEF FreeClusters
  <2>2. PICK p \in DOMAIN H : c \in ClustersOf(v, H[p])
    BY <1>1, <2>1 DEF Chains
  <2>3. p \in Shown(v)
    BY <1>3, <2>2, NoHead
  <2>4. PICK d \in DirsOf(v) : p[1] \in Area(v, d)
    BY <1>1, <2>3 DEF Homes
  <2> DEFINE m == NodeOf(v, to, d, p)
  <2>5. m \in Tree(v) /\ m.entry = EntryAt(v, p)
    BY <2>3, <2>4, TreeIs DEF NodeOf
  <2>. QED  BY <1>2, <2>2, <2>3, <2>5
<1>5. ASSUME NEW m \in Tree(v), NEW c \in ClustersOf(v, m.entry.first)
      PROVE  c \in Clusters /\ c \notin FreeClusters(v)
  <2>1. PICK p \in Shown(v) : m.entry = EntryAt(v, p)
    BY TreeIs DEF NodeOf
  <2>2. Ends(v, m.entry.first)
    BY <1>1, <1>2, <2>1 DEF Chains
  <2>. QED  BY <1>5, <2>2, NotFree, ClustersAre DEF FreeClusters
<1>. QED  BY <1>4, <1>5

----------------------------------------------------------------------------
(* The directories of an archive: the path of each one that this job knows *)
(* and the directory it is.                                                *)
(***************************************************************************)

\* No directory's name as it stands is what another one's becomes.
StemsApart ==
    \A a, b \in DirNames : a.kind = "plain" /\ b.kind # "long" /\ a.stem = b.stem => a = b

\* The directory of a path of the archive is d.
At(home, known, path, d) ==
    (path = << >> /\ d = home) \/ \E k \in known : k.path = path /\ k.dir = d
IsKnown(v, to, home, known, k) ==
    /\ k.path \in Seq(DirNames) /\ Len(k.path) > 0
    /\ k.dir \in DirsOf(v) /\ Len(to[k.dir].path) = 2 + Len(k.path)
    /\ NamedFor(Last(to[k.dir].path), Last(k.path))
    /\ At(home, known, Front(k.path), to[k.dir].up)
OneEach(known) == \A k, l \in known : k.path = l.path <=> k.dir = l.dir
Known(v, to, home, known) ==
    /\ home \in DirsOf(v) /\ Len(to[home].path) = 2
    /\ \A k \in known : IsKnown(v, to, home, known, k)
    /\ StemsApart => OneEach(known)

LEMMA SameKeys ==
    ASSUME NEW S, NEW s \in Seq(S), NEW t \in Seq(S), Len(s) = Len(t), Len(s) > 0,
           Last(s) = Last(t), Front(s) = Front(t)
    PROVE  s = t
<1> DEFINE n == Len(s)
<1>1. n \in Nat /\ Len(t) = n /\ n > 0
  BY LenProperties
<1>2. \A i \in 1..(n - 1) : SubSeq(s, 1, n - 1)[i] = s[i] /\ SubSeq(t, 1, n - 1)[i] = t[i]
  <2>1. \A i \in 1..(n - 1) : s[i] \in S /\ t[i] \in S
    BY <1>1, ElementOfSeq
  <2>2. \A i \in 1..((n - 1) - 1 + 1) : SubSeq(s, 1, n - 1)[i] = s[1 + i - 1]
    BY <1>1, <2>1, SubSeqProperties
  <2>3. \A i \in 1..((n - 1) - 1 + 1) : SubSeq(t, 1, n - 1)[i] = t[1 + i - 1]
    BY <1>1, <2>1, SubSeqProperties
  <2> HIDE DEF n
  <2>. QED  BY <1>1, <2>2, <2>3
<1>3. SubSeq(s, 1, n - 1) = SubSeq(t, 1, n - 1) /\ s[n] = t[n]
  BY <1>1 DEF Front, Last
<1> HIDE DEF n
<1>4. \A i \in 1..n : s[i] = t[i]
  <2>1. \A i \in 1..n : i = n \/ i \in 1..(n - 1)
    BY <1>1
  <2>. QED  BY <1>2, <1>3, <2>1
<1>. QED  BY <1>1, <1>4, SeqEqual DEF n

(* The names of a path, and the paths to each of them.                     *)
LEMMA KeysAre ==
    ASSUME NEW path \in DirPaths, NEW i \in 1..Len(path)
    PROVE  /\ SubSeq(path, 1, i) \in Seq(DirNames) /\ Len(SubSeq(path, 1, i)) = i
           /\ Last(SubSeq(path, 1, i)) = path[i] /\ path[i] \in DirNames
           /\ Front(SubSeq(path, 1, i)) = SubSeq(path, 1, i - 1)
<1> DEFINE Parts == {path[j] : j \in DOMAIN path}
           key == SubSeq(path, 1, i)
           m == i - 1
<1>1. path \in Seq(Parts)
  BY PathAssumption
<1>2. Parts \subseteq DirNames
  BY DEF DirNames
<1> HIDE DEF Parts
<1>3. path \in Seq(DirNames)
  BY <1>1, <1>2, SeqMonotonic
<1>4. Len(path) \in Nat /\ \A j \in 1..Len(path) : path[j] \in DirNames
  BY <1>3
<1>5. i \in Int /\ m \in Int /\ 1 <= i /\ i <= Len(path) /\ m + 1 = i
  BY <1>4
<1>6. \A j \in 1..i : path[j] \in DirNames
  BY <1>4, <1>5
<1>7. key \in Seq(DirNames) /\ Len(key) = i /\ \A j \in 1..i : key[j] = path[j]
  <2>1. key \in Seq(DirNames) /\ Len(key) = IF 1 <= i THEN i - 1 + 1 ELSE 0
    BY <1>5, <1>6, SubSeqProperties
  <2>2. \A j \in 1..(i - 1 + 1) : key[j] = path[1 + j - 1]
    BY <1>5, <1>6, SubSeqProperties
  <2> HIDE DEF key
  <2>. QED  BY <1>5, <2>1, <2>2
<1> HIDE DEF key
<1>8. Last(key) = path[i]
  BY <1>5, <1>7 DEF Last
<1> DEFINE a == SubSeq(key, 1, m)
           b == SubSeq(path, 1, m)
<1>9. Front(key) = a
  BY <1>5, <1>7 DEF Front
<1>10. \A j \in 1..m : key[j] \in DirNames /\ path[j] \in DirNames /\ key[j] = path[j]
  BY <1>5, <1>6, <1>7
<1> HIDE DEF m
<1>11. /\ a \in Seq(DirNames) /\ Len(a) = IF 1 <= m THEN m - 1 + 1 ELSE 0
       /\ \A j \in 1..(m - 1 + 1) : a[j] = key[1 + j - 1]
  BY <1>5, <1>10, SubSeqProperties
<1>12. /\ b \in Seq(DirNames) /\ Len(b) = IF 1 <= m THEN m - 1 + 1 ELSE 0
       /\ \A j \in 1..(m - 1 + 1) : b[j] = path[1 + j - 1]
  BY <1>5, <1>10, SubSeqProperties
<1> HIDE DEF a, b
<1>13. m >= 0
  BY <1>5
<1>14. a = b
  <2>1. Len(a) = m /\ Len(b) = m
    BY <1>5, <1>11, <1>12, <1>13
  <2>2. \A j \in 1..m : a[j] = b[j]
    BY <1>5, <1>10, <1>11, <1>12
  <2>. QED  BY <1>11, <1>12, <2>1, <2>2, SeqEqual
<1>. QED  BY <1>4, <1>7, <1>8, <1>9, <1>14 DEF key, b, m

LEMMA AtIs ==
    ASSUME NEW v, NEW to, NEW home, NEW known, Known(v, to, home, known),
           NEW path, NEW d, At(home, known, path, d)
    PROVE  d \in DirsOf(v) /\ Len(to[d].path) = 2 + Len(path) /\ Len(path) \in Nat
<1>1. CASE path = << >> /\ d = home
  <2>1. Len(path) = 0
    BY <1>1
  <2>. QED  BY <1>1, <2>1 DEF Known
<1>2. CASE \E k \in known : k.path = path /\ k.dir = d
  <2>1. PICK k \in known : k.path = path /\ k.dir = d
    BY <1>2
  <2>2. IsKnown(v, to, home, known, k)
    BY <2>1 DEF Known
  <2>3. Len(path) \in Nat
    BY <2>1, <2>2, LenProperties DEF IsKnown
  <2>. QED  BY <2>1, <2>2, <2>3 DEF IsKnown
<1>. QED  BY <1>1, <1>2 DEF At

(* Two paths of the archive are one exactly if their directories are.      *)
LEMMA AtUnique ==
    ASSUME StemsApart, NEW v, NEW to, NEW home, NEW known, Known(v, to, home, known),
           NEW p, NEW d, At(home, known, p, d), NEW q, NEW e, At(home, known, q, e)
    PROVE  p = q <=> d = e
<1>1. ASSUME NEW k \in known PROVE k.path # << >> /\ k.dir # home
  <2>1. IsKnown(v, to, home, known, k) /\ Len(to[home].path) = 2
    BY DEF Known
  <2>2. Len(k.path) \in Nat /\ Len(k.path) > 0
    BY <2>1, LenProperties DEF IsKnown
  <2>3. Len(to[k.dir].path) = 2 + Len(k.path)
    BY <2>1 DEF IsKnown
  <2> DEFINE n == Len(k.path)
             m == Len(to[k.dir].path)
  <2> HIDE DEF n, m
  <2>4. k.dir # home
    <3>1. m = 2 + n /\ n \in Nat /\ n > 0
      BY <2>2, <2>3 DEF n, m
    <3>2. m # 2
      BY <3>1
    <3>. QED  BY <2>1, <3>2 DEF m
  <2>5. Len(<< >>) = 0
    OBVIOUS
  <2>6. k.path # << >>
    BY <2>2, <2>5
  <2>. QED  BY <2>4, <2>6
<1>2. CASE (p = << >> /\ d = home) /\ (q = << >> /\ e = home)
  BY <1>2
<1>3. CASE (p = << >> /\ d = home) /\ \E k \in known : k.path = q /\ k.dir = e
  BY <1>1, <1>3
<1>4. CASE (\E k \in known : k.path = p /\ k.dir = d) /\ (q = << >> /\ e = home)
  BY <1>1, <1>4
<1>5. CASE (\E k \in known : k.path = p /\ k.dir = d) /\ (\E k \in known : k.path = q /\ k.dir = e)
  <2>1. PICK k \in known : k.path = p /\ k.dir = d
    BY <1>5
  <2>2. PICK l \in known : l.path = q /\ l.dir = e
    BY <1>5
  <2>3. k.path = l.path <=> k.dir = l.dir
    BY DEF Known, OneEach
  <2>. QED  BY <2>1, <2>2, <2>3
<1>. QED  BY <1>2, <1>3, <1>4, <1>5 DEF At

(* What is known stays known when directories are made.                    *)
Grown(v, to, w, more) == DirsOf(v) \subseteq DirsOf(w) /\ \A x \in DirsOf(v) : more[x] = to[x]
LEMMA KnownKept ==
    ASSUME NEW v, NEW to, NEW home, NEW known, Known(v, to, home, known),
           NEW w, NEW more, Grown(v, to, w, more), NEW all, known \subseteq all
    PROVE  /\ home \in DirsOf(w) /\ Len(more[home].path) = 2
           /\ \A k \in known : IsKnown(w, more, home, all, k)
<1>0. DirsOf(v) \subseteq DirsOf(w) /\ \A x \in DirsOf(v) : more[x] = to[x]
  BY DEF Grown
<1>1. home \in DirsOf(v) /\ Len(to[home].path) = 2
  BY DEF Known
<1>2. ASSUME NEW k \in known PROVE IsKnown(w, more, home, all, k)
  <2>1. IsKnown(v, to, home, known, k)
    BY DEF Known
  <2>2. k.dir \in DirsOf(v) /\ k.dir \in DirsOf(w) /\ more[k.dir] = to[k.dir]
    BY <1>0, <2>1 DEF IsKnown
  <2>3. At(home, all, Front(k.path), more[k.dir].up)
    BY <2>1, <2>2 DEF IsKnown, At
  <2>. QED  BY <2>1, <2>2, <2>3 DEF IsKnown
<1>. QED  BY <1>0, <1>1, <1>2

(* A directory that is made, or is found, for a path that is not known.    *)
LEMMA KnownGrows ==
    ASSUME NEW v, NEW to, NEW home, NEW known, Known(v, to, home, known), Settled(v, to),
           NEW key \in Seq(DirNames), Len(key) > 0, \A k \in known : k.path # key,
           NEW d, At(home, known, Front(key), d),
           NEW w, NEW c, NEW more, Made(v, w, c, to, more, d, Last(key))
    PROVE  LET all == known \union {[path |-> key, dir |-> c]}
           IN  Known(w, more, home, all) /\ At(home, all, key, c)
<1> DEFINE new == [path |-> key, dir |-> c]
           all == known \union {new}
           front == Front(key)
           name == Last(key)
<1>1. new.path = key /\ new.dir = c
  OBVIOUS
<1> HIDE DEF new
<1>2. /\ Settled(w, more) /\ DirsOf(v) \subseteq DirsOf(w) /\ \A x \in DirsOf(v) : more[x] = to[x]
      /\ c \in DirsOf(w)
  BY DEF Made
<1>3. PICK short \in OnDrive : /\ Enters(more, to, c, d, short) /\ NamedFor(short, name)
                               /\ c \in DirsOf(v) => name.kind = "plain" /\ short[2] = 0
  BY DEF Made
<1>4. Len(key) \in Nat /\ Len(front) = Len(key) - 1 /\ name \in DirNames
  <2> DEFINE n == Len(key)
  <2>1. n \in Nat /\ \A i \in 1..n : key[i] \in DirNames
    BY ElementOfSeq, LenProperties
  <2>2. Len(SubSeq(key, 1, n - 1)) = IF 1 <= n - 1 THEN (n - 1) - 1 + 1 ELSE 0
    BY <2>1, SubSeqProperties
  <2>3. front = SubSeq(key, 1, n - 1) /\ name = key[n] /\ n > 0
    BY DEF Front, Last
  <2> HIDE DEF front, name, n
  <2>4. Len(front) = n - 1 /\ name \in DirNames
    BY <2>1, <2>2, <2>3
  <2>. QED  BY <2>1, <2>4 DEF n
<1>5. d \in DirsOf(v) /\ Len(to[d].path) = 2 + Len(front)
  BY AtIs
<1>6. to[d].path \in Seq(OnDrive) /\ more[c].path = Append(to[d].path, short) /\ more[c].up = d
  BY <1>3, <1>5 DEF Enters, Settled, Whole, Arranged, Nested
<1>7. Len(more[c].path) = 2 + Len(key) /\ Last(more[c].path) = short
  <2> DEFINE s == to[d].path
  <2> HIDE DEF s
  <2>1. Len(Append(s, short)) = Len(s) + 1 /\ Append(s, short)[Len(s) + 1] = short
    BY <1>6 DEF s
  <2> HIDE DEF front
  <2>. QED  BY <1>4, <1>5, <1>6, <2>1 DEF Last, s
<1>8. At(home, all, key, c)
  BY <1>1 DEF At
<1>9. At(home, all, front, d)
  BY DEF At
<1>10. /\ home \in DirsOf(w) /\ Len(more[home].path) = 2
       /\ \A k \in known : IsKnown(w, more, home, all, k)
  <2>1. known \subseteq all
    OBVIOUS
  <2>2. Grown(v, to, w, more)
    BY <1>2 DEF Grown
  <2> HIDE DEF all
  <2>. QED  BY <2>1, <2>2, KnownKept
<1> HIDE DEF front, name
<1>11. IsKnown(w, more, home, all, new)
  <2> HIDE DEF all
  <2>. QED  BY <1>1, <1>2, <1>3, <1>6, <1>7, <1>9 DEF IsKnown, front, name
<1>12. ASSUME StemsApart, NEW k \in known PROVE k.path # key /\ k.dir # c
  <2>1. IsKnown(v, to, home, known, k)
    BY DEF Known
  <2>2. SUFFICES ASSUME k.dir = c PROVE FALSE
    OBVIOUS
  <2>3. c \in DirsOf(v) /\ more[c] = to[c]
    BY <1>2, <2>1, <2>2 DEF IsKnown
  <2>4. name.kind = "plain" /\ short[2] = 0 /\ short[1] = name.stem
    BY <1>3, <2>3 DEF NamedFor
  <2> DEFINE last == Last(k.path)
  <2>5. last \in DirNames
    <3>1. k.path \in Seq(DirNames) /\ Len(k.path) > 0
      BY <2>1 DEF IsKnown
    <3>2. Len(k.path) \in 1..Len(k.path)
      BY <3>1, LenProperties
    <3>. QED  BY <3>1, <3>2, ElementOfSeq DEF Last
  <2>6. NamedFor(short, last)
    BY <1>7, <2>1, <2>2, <2>3 DEF IsKnown
  <2> HIDE DEF last
  <2>7. last = name
    BY <1>4, <1>12, <2>4, <2>5, <2>6 DEF NamedFor, StemsApart
  <2>8. Len(k.path) = Len(key)
    <3>1. Len(to[c].path) = 2 + Len(k.path) /\ Len(k.path) \in Nat
      BY <2>1, <2>2, LenProperties DEF IsKnown
    <3>. QED  BY <1>4, <1>7, <2>3, <3>1
  <2>9. Front(k.path) = front
    <3>1. At(home, known, Front(k.path), d)
      BY <1>6, <2>1, <2>2, <2>3 DEF IsKnown
    <3>. QED  BY <1>12, <3>1, AtUnique DEF front
  <2>10. k.path = key
    BY <2>1, <2>7, <2>8, <2>9, SameKeys DEF IsKnown, last, name, front
  <2>. QED  BY <2>10
<1>13. ASSUME StemsApart PROVE OneEach(all)
  <2>1. OneEach(known)
    BY <1>13 DEF Known
  <2>2. \A k \in known : k.path # key /\ k.dir # c
    BY <1>12, <1>13
  <2>. QED  BY <1>1, <2>1, <2>2 DEF OneEach
<1>14. Known(w, more, home, all)
  <2>1. \A k \in all : IsKnown(w, more, home, all, k)
    BY <1>10, <1>11
  <2> HIDE DEF all
  <2>. QED  BY <1>10, <1>13, <2>1 DEF Known
<1>. QED  BY <1>8, <1>14 DEF new

\* The walk of an archive's path has come as far as key, and forgotten nothing.
Walks(home, known, r, key) ==
    r.ok => \E to : /\ Settled(r.vol, to) /\ Known(r.vol, to, home, r.got.known)
                    /\ At(home, r.got.known, key, r.got.dir) /\ known \subseteq r.got.known

LEMMA EnteringWalks ==
    ASSUME NEW home, NEW known, NEW r, Volume(r.vol), r.ok => Directory(r.got),
           NEW key \in Seq(DirNames), Len(key) > 0, 2 + Len(key) <= Depth,
           Last(key).stem \in Names \ {".", ".."}, Walks(home, known, r, Front(key))
    PROVE  Walks(home, known, Entering(r, key), key)
<1> DEFINE was == Remembered(r.got.known, key)
           k == CHOOSE x \in was : TRUE
           m == Mkdir(r.vol, r.got.dir, Last(key))
           q == Entering(r, key)
<1>1. CASE ~r.ok
  <2>1. q = r
    BY <1>1 DEF Entering
  <2>. QED  BY <1>1, <2>1 DEF Walks
<1>2. CASE r.ok
  <2>1. PICK to : /\ Settled(r.vol, to) /\ Known(r.vol, to, home, r.got.known)
                  /\ At(home, r.got.known, Front(key), r.got.dir) /\ known \subseteq r.got.known
    BY <1>2 DEF Walks
  <2>2. {"dir", "known"} \subseteq DOMAIN r.got
    BY <1>2 DEF Directory
  <2>3. CASE was # {}
    <3>1. q = Returned(r.vol, [r.got EXCEPT !.dir = k.dir])
      BY <1>2, <2>3 DEF Entering
    <3>2. q.ok /\ q.vol = r.vol /\ q.got = [r.got EXCEPT !.dir = k.dir]
      BY <3>1 DEF Returned
    <3>3. k \in r.got.known /\ k.path = key
      BY <2>3 DEF Remembered
    <3> HIDE DEF k, q
    <3>4. q.got.known = r.got.known /\ q.got.dir = k.dir
      BY <2>2, <3>2
    <3>5. At(home, q.got.known, key, q.got.dir)
      BY <3>3, <3>4 DEF At
    <3>6. Walks(home, known, q, key)
      BY <2>1, <3>2, <3>4, <3>5 DEF Walks
    <3>. QED  BY <3>6 DEF q
  <2>4. CASE was = {} /\ ~m.ok
    <3>1. q = m
      BY <1>2, <2>4 DEF Entering, Then
    <3> HIDE DEF m, q
    <3>2. Walks(home, known, q, key)
      BY <2>4, <3>1 DEF Walks
    <3>. QED  BY <3>2 DEF q
  <2>5. CASE was = {} /\ m.ok
    <3> DEFINE all == r.got.known \union {[path |-> key, dir |-> m.got]}
               got == [dir |-> m.got, known |-> all]
               d == r.got.dir
               name == Last(key)
    <3>1. q = Returned(m.vol, got)
      BY <1>2, <2>5 DEF Entering, Then
    <3>2. q.ok /\ q.vol = m.vol /\ q.got = got
      BY <3>1 DEF Returned
    <3>3. q.got.dir = m.got /\ q.got.known = all
      BY <3>2
    <3>4. d \in DirsOf(r.vol) /\ Len(to[d].path) < Depth
      <4>1. d \in DirsOf(r.vol) /\ Len(to[d].path) = 2 + Len(Front(key))
        BY <2>1, AtIs
      <4>2. Len(key) \in Nat /\ Len(Front(key)) = Len(key) - 1
        <5> DEFINE n == Len(key)
        <5>1. n \in Nat /\ \A i \in 1..n : key[i] \in DirNames
          BY ElementOfSeq, LenProperties
        <5>2. Len(SubSeq(key, 1, n - 1)) = IF 1 <= n - 1 THEN (n - 1) - 1 + 1 ELSE 0
          BY <5>1, SubSeqProperties
        <5>3. Front(key) = SubSeq(key, 1, n - 1) /\ n > 0
          BY DEF Front
        <5> HIDE DEF n
        <5>4. Len(Front(key)) = n - 1
          BY <5>1, <5>2, <5>3
        <5>. QED  BY <5>1, <5>4 DEF n
      <4>3. Depth \in Nat
        BY DepthIsNat
      <4> HIDE DEF d
      <4>. QED  BY <4>1, <4>2, <4>3
    <3> HIDE DEF name
    <3>5. PICK more : Made(r.vol, m.vol, m.got, to, more, d, name)
      <4>1. name.stem \in Names \ {".", ".."}
        BY DEF name
      <4>2. m = Mkdir(r.vol, d, name)
        BY DEF name
      <4> DEFINE v == r.vol
      <4> HIDE DEF d, m, v
      <4>3. Volume(v) /\ Settled(v, to) /\ d \in DirsOf(v) /\ m = Mkdir(v, d, name)
        BY <2>1, <3>4, <4>2 DEF v
      <4>4. \E more : Made(v, m.vol, m.got, to, more, d, name)
        BY <2>5, <3>4, <4>1, <4>3, MkdirMakes
      <4>. QED  BY <4>4 DEF v
    <3>6. \A x \in r.got.known : x.path # key
      BY <2>5 DEF Remembered
    <3> DEFINE v == r.vol
               w == m.vol
               c == m.got
               old == r.got.known
    <3>7. Known(w, more, home, all) /\ At(home, all, key, c)
      <4>1. /\ Known(v, to, home, old) /\ Settled(v, to) /\ (\A x \in old : x.path # key)
            /\ At(home, old, Front(key), d) /\ Made(v, w, c, to, more, d, Last(key))
        BY <2>1, <3>5, <3>6 DEF name
      <4>2. all = old \union {[path |-> key, dir |-> c]}
        OBVIOUS
      <4> HIDE DEF v, w, c, old, d, all, m
      <4>. QED  BY <4>1, <4>2, KnownGrows
    <3>8. Settled(w, more) /\ known \subseteq all
      BY <2>1, <3>5 DEF Made
    <3> HIDE DEF all, q, m
    <3>9. Walks(home, known, q, key)
      BY <3>2, <3>3, <3>7, <3>8 DEF Walks
    <3>. QED  BY <3>9 DEF q
  <2>. QED  BY <2>3, <2>4, <2>5
<1>. QED  BY <1>1, <1>2

LEMMA InDirWalks ==
    ASSUME NEW v, Volume(v), Directory(job), NEW to, Settled(v, to),
           Known(v, to, job.dir, job.known), NEW path \in DirPaths
    PROVE  Walks(job.dir, job.known, InDir(v, path), path)
<1> DEFINE n == Len(path)
           home == job.dir
           known == job.known
           after == CHOOSE f : PathFrom(v, path, f, n)
           key(i) == SubSeq(path, 1, i)
           T == {i \in 0..n : Reached(v, after[i], i) /\ Walks(home, known, after[i], key(i))}
           Parts == {path[i] : i \in DOMAIN path}
<1>1. path \in Seq(Parts)
  BY PathAssumption
<1> HIDE DEF Parts
<1>2. n \in Nat /\ DOMAIN path = 1..n /\ 2 + n <= Depth /\ Depth \in Nat
  BY <1>1, DepthIsNat
<1>3. \A i \in 1..n : path[i].stem \in Names \ {".", ".."}
  <2>1. \A i \in 1..n : path[i] \in AllNames
    BY <1>2 DEF AllNames, DirNames
  <2>. QED  BY <2>1, NamesGiven
<1>4. key(0) = << >> /\ key(n) = path
  BY <1>1, <1>2, SubSeqEmpty, SubSeqFull
<1>5. PathFrom(v, path, after, n)
  BY <1>2, PathExists
<1>6. InDir(v, path) = after[n]
  BY DEF InDir, PathFrom, Entering, AtHome
<1> HIDE DEF after
<1>7. 0 \in T
  <2>1. after[0] = AtHome(v)
    BY <1>2, <1>5 DEF PathFrom
  <2>2. AtHome(v).ok /\ AtHome(v).vol = v /\ AtHome(v).got = [dir |-> job.dir, known |-> job.known]
    BY DEF AtHome, Returned
  <2>3. Space(v) \in Nat
    BY FreeFinite
  <2>4. Reached(v, after[0], 0)
    BY <2>1, <2>2, <2>3 DEF Reached, Directory
  <2> DEFINE r == after[0]
  <2>5. r.ok /\ r.vol = v /\ r.got.dir = job.dir /\ r.got.known = job.known
    BY <2>1, <2>2
  <2> HIDE DEF r
  <2>6. At(home, r.got.known, key(0), r.got.dir)
    BY <1>4, <2>5 DEF At
  <2> HIDE DEF key
  <2>7. Walks(home, known, r, key(0))
    BY <2>5, <2>6 DEF Walks
  <2>. QED  BY <1>2, <2>4, <2>7 DEF r
<1>8. ASSUME NEW i \in 0..(n - 1), i \in T PROVE i + 1 \in T
  <2> DEFINE j == i + 1
             k == key(j)
             r == after[i]
             q == after[j]
  <2>1. after[i + 1] = Entering(after[i], SubSeq(path, 1, i + 1))
    <3>1. i + 1 \in 0..n /\ i + 1 # 0 /\ (i + 1) - 1 = i
      BY <1>2
    <3> HIDE DEF n
    <3>. QED  BY <1>5, <3>1 DEF PathFrom
  <2>2. j \in 1..n /\ i \in Nat /\ j - 1 = i /\ j > 0 /\ 2 + j <= Depth
    BY <1>2
  <2>3. k \in Seq(DirNames) /\ Len(k) = j /\ Last(k) = path[j] /\ Front(k) = key(i)
    BY <2>2, KeysAre
  <2>4. Last(k).stem \in Names \ {".", ".."}
    BY <1>3, <2>2, <2>3
  <2>5. Reached(v, r, i) /\ Walks(home, known, r, key(i))
    BY <1>8
  <2>6. q = Entering(r, k)
    BY <2>1
  <2>7. Volume(r.vol) /\ (r.ok => Directory(r.got))
    BY <2>5 DEF Reached
  <2> HIDE DEF j, k, r, q, home, known
  <2>8. Walks(home, known, r, Front(k))
    BY <2>3, <2>5
  <2>9. Reached(v, q, i + 1)
    BY <2>2, <2>4, <2>5, <2>6, EnteringReaches
  <2>10. Len(k) > 0 /\ 2 + Len(k) <= Depth
    BY <2>2, <2>3
  <2>11. Walks(home, known, q, k)
    BY <2>3, <2>4, <2>6, <2>7, <2>8, <2>10, EnteringWalks
  <2>12. j \in 0..n /\ j = i + 1
    BY <2>2 DEF j
  <2>. QED  BY <2>9, <2>11, <2>12 DEF k, q
<1>9. \A i \in 0..n : i \in T
  <2> HIDE DEF T, n
  <2>. QED  BY <1>2, <1>7, <1>8, UpTo
<1>10. n \in T
  <2>1. n \in 0..n
    BY <1>2
  <2> HIDE DEF T, n
  <2>. QED  BY <1>9, <2>1
<1>11. Walks(home, known, after[n], key(n))
  BY <1>10
<1> HIDE DEF n, key
<1>. QED  BY <1>4, <1>6, <1>11

----------------------------------------------------------------------------
(* The invariant: unless an import failed, directories and FAT describe    *)
(* one volume, and the job that copies knows where it has put things.      *)
JobKnows(v, to, j) ==
    /\ Known(v, to, j.dir, j.known)
    /\ \A p \in j.placed : At(j.dir, j.known, p.path, p.dir)
ImportInv ==
    /\ job.step # "failed" => \E to : Settled(vol, to) /\ (job.step = "copying" => JobKnows(vol, to, job))
    /\ job.step # "copying" => job.placed = {}

LEMMA NoJobPlaced == NoJob.placed = {}
  BY DEF NoJob

LEMMA InitImport == FatInit => ImportInv
<1> SUFFICES ASSUME FatInit PROVE ImportInv
  OBVIOUS
<1>1. PICK files \in Volumes :
         /\ Filled(files).ok
         /\ \/ vol = Filled(files).vol
            \/ LET games == Mkdir(Filled(files).vol, Root, Games) IN games.ok /\ vol = games.vol
  BY DEF FatInit
<1> DEFINE v == Filled(files).vol
           r == Mkdir(v, Root, Games)
           to == AtRoot
<1>2. Volume(v) /\ Settled(v, to)
  BY <1>1, FilledIsVolume, FilledIsSettled
<1>3. \E at : Settled(vol, at)
  <2>1. CASE vol = v
    BY <1>2, <2>1
  <2>2. CASE r.ok /\ vol = r.vol
    <3>1. Root \in DirsOf(v)
      BY DEF DirsOf
    <3>2. Len(to[Root].path) < Depth
      <4>1. to[Root].path = << >>
        BY DEF AtRoot
      <4>2. Len(to[Root].path) = 0
        BY <4>1
      <4> HIDE DEF to
      <4>. QED  BY <4>2, DepthIsNat
    <3> HIDE DEF v, to
    <3>3. PICK more : Made(v, r.vol, r.got, to, more, Root, Games)
      BY <1>2, <2>2, <3>1, <3>2, NamesFine, MkdirMakes
    <3> HIDE DEF r
    <3>4. Settled(r.vol, more)
      BY <3>3 DEF Made
    <3>. QED  BY <2>2, <3>4
  <2>. QED  BY <1>1, <2>1, <2>2
<1>4. job.step = "idle" /\ job.placed = {}
  BY NoJobFields, NoJobPlaced DEF FatInit
<1>. QED  BY <1>3, <1>4 DEF ImportInv

(* A job that begins knows no directory but its own.                       *)
LEMMA StartImportKeeps ==
    ASSUME SpaceInv, ImportInv, ~GoesOn, NEW program \in Programs, StartImport(program)
    PROVE  ImportInv'
<1> DEFINE a == Mkdir(Mounted, Root, Games)
           r == Then(a, LAMBDA v, games : Mkdir(v, games, program))
           b == Mkdir(a.vol, a.got, program)
<1>1. /\ job.step = "idle"
      /\ IF r.ok THEN /\ vol' = r.vol
                      /\ job' = [NoJob EXCEPT !.step = "copying", !.dir = r.got]
                 ELSE job' = [NoJob EXCEPT !.step = "failed", !.needed = 3]
  BY DEF StartImport
<1>2. CASE ~r.ok
  <2>1. job'.step = "failed" /\ job'.placed = {}
    BY <1>1, <1>2, NoJobFields, NoJobPlaced
  <2>. QED  BY <2>1 DEF ImportInv
<1>3. CASE r.ok
  <2>1. Volume(vol) /\ vol.fat = savedFat /\ savedFat \in Fats
    BY <1>1 DEF SpaceInv
  <2> DEFINE v == Mounted
  <2>2. HasFields(v) /\ v.fat = vol.fat /\ v.hint = 2 /\ v.content = vol.content
    BY <2>1 DEF Mounted, Volume, HasFields
  <2>3. PICK to : Settled(vol, to)
    BY <1>1 DEF ImportInv
  <2>4. a.ok /\ r = b
    BY <1>3 DEF Then
  <2>5. a = Mkdir(v, Root, Games)
    OBVIOUS
  <2> HIDE DEF v, a
  <2>6. Volume(v) /\ Settled(v, to)
    BY <2>1, <2>2, <2>3, SameVolume, NumberTypes DEF Volume
  <2>7. to[Root].path = << >>
    BY <2>3 DEF Settled, Whole, Arranged, Nested
  <2>8. Len(to[Root].path) = 0 /\ Root \in DirsOf(v) /\ Depth \in Nat /\ 2 <= Depth
    BY <2>7, DepthIsNat DEF DirsOf
  <2>9. PICK more : Made(v, a.vol, a.got, to, more, Root, Games)
    <3>1. Mkdir(v, Root, Games).ok /\ Len(to[Root].path) < Depth
      <4> DEFINE len == Len(to[Root].path)
      <4>1. len = 0 /\ Depth \in Nat /\ 2 <= Depth
        BY <2>8
      <4> HIDE DEF len
      <4>2. len < Depth
        BY <4>1
      <4>3. Mkdir(v, Root, Games).ok
        BY <2>4, <2>5
      <4>. QED  BY <4>2, <4>3 DEF len
    <3>2. \E more : Made(v, Mkdir(v, Root, Games).vol, Mkdir(v, Root, Games).got, to, more, Root, Games)
      BY <2>6, <2>8, <3>1, NamesFine, MkdirMakes
    <3>. QED  BY <2>5, <3>2
  <2>10. Volume(a.vol)
    BY <2>5, <2>6, NamesFine, MkdirGives
  <2> DEFINE w == a.vol
             d == a.got
  <2> HIDE DEF w, d
  <2>11. Settled(w, more) /\ d \in DirsOf(w) /\ Volume(w)
    BY <2>9, <2>10 DEF Made, w, d
  <2>12. Len(more[d].path) = 1
    <3>1. PICK short \in OnDrive : more[d].path = Append(to[Root].path, short)
      BY <2>9 DEF Made, Enters, d
    <3>2. more[d].path = Append(<< >>, short)
      BY <2>7, <3>1
    <3>. QED  BY <3>2
  <2>13. b = Mkdir(w, d, program)
    BY DEF w, d
  <2> HIDE DEF b, r
  <2>14. PICK all : Made(w, b.vol, b.got, more, all, d, program)
    <3>1. Mkdir(w, d, program).ok /\ Len(more[d].path) < Depth
      BY <1>3, <2>4, <2>8, <2>12, <2>13
    <3>2. \E all : Made(w, Mkdir(w, d, program).vol, Mkdir(w, d, program).got, more, all, d, program)
      BY <2>11, <3>1, NamesFine, MkdirMakes
    <3>. QED  BY <2>13, <3>2
  <2> DEFINE x == b.vol
             home == b.got
  <2>15. Settled(x, all) /\ home \in DirsOf(x)
    BY <2>14 DEF Made
  <2>16. Len(all[home].path) = 2
    <3>1. PICK short \in OnDrive : all[home].path = Append(more[d].path, short)
      BY <2>14 DEF Made, Enters
    <3>2. more[d].path \in Seq(OnDrive)
      BY <2>11 DEF Settled, Whole, Arranged, Nested
    <3> HIDE DEF home
    <3>. QED  BY <2>12, <3>1, <3>2
  <2>17. /\ vol' = x /\ job'.dir = home /\ job'.step = "copying" /\ job'.known = {} /\ job'.placed = {}
    BY <1>1, <1>3, <2>4, NoJobFields, NoJobPlaced
  <2> HIDE DEF x, home
  <2>18. JobKnows(vol', all, job')
    BY <2>15, <2>16, <2>17 DEF JobKnows, Known, OneEach
  <2>. QED  BY <2>15, <2>17, <2>18 DEF ImportInv
<1>. QED  BY <1>2, <1>3

(* A file goes to the directory of its path.                               *)
LEMMA ImportFileKeeps ==
    ASSUME SpaceInv, ImportInv,
           NEW path \in DirPaths, NEW name \in FileNames, NEW size \in Sizes, ImportFile(path, name, size)
    PROVE  ImportInv'
<1> DEFINE version == count.files + 1
           at == InDir(vol, path)
           r == Then(at, LAMBDA v, got : WriteFile(v, got.dir, name, size, version))
           b == WriteFile(at.vol, at.got.dir, name, size, version)
<1>1. /\ job.step = "copying"
      /\ IF r.ok THEN /\ vol' = r.vol
                      /\ job' = [job EXCEPT !.known = at.got.known,
                                    !.placed = @ \union {[path |-> path, dir |-> at.got.dir, short |-> r.got]}]
                 ELSE job' = [NoJob EXCEPT !.step = "failed", !.needed = Pieces(size) + (2 * Len(path)) + 1]
  BY DEF ImportFile
<1> HIDE DEF version
<1>2. CASE ~r.ok
  <2> HIDE DEF r
  <2>1. job'.step = "failed" /\ job'.placed = {}
    BY <1>1, <1>2, NoJobFields, NoJobPlaced
  <2>. QED  BY <2>1 DEF ImportInv
<1>3. CASE r.ok
  <2>1. /\ Volume(vol) /\ Directory(job)
        /\ {"step", "dir", "known", "placed", "needed"} \subseteq DOMAIN job
    BY <1>1 DEF SpaceInv
  <2>2. PICK from : Settled(vol, from) /\ JobKnows(vol, from, job)
    BY <1>1 DEF ImportInv
  <2>3. Walks(job.dir, job.known, at, path) /\ Reached(vol, at, Len(path))
    BY <2>1, <2>2, InDirWalks, InDirReaches DEF JobKnows
  <2>4. at.ok /\ r = b
    BY <1>3 DEF Then
  <2> HIDE DEF at
  <2>5. Volume(at.vol)
    BY <2>3 DEF Reached
  <2> DEFINE home == job.dir
             v == at.vol
             d == at.got.dir
             known == at.got.known
  <2>6. PICK to : /\ Settled(v, to) /\ Known(v, to, home, known)
                  /\ At(home, known, path, d) /\ job.known \subseteq known
    BY <2>3, <2>4 DEF Walks
  <2>7. d \in DirsOf(v)
    BY <2>6, AtIs
  <2>8. size \in Nat /\ name.stem \in Names \ {".", ".."}
    <3>1. name \in AllNames
      BY DEF AllNames
    <3>. QED  BY <3>1, FileAssumption, NamesGiven
  <2>9. b = WriteFile(v, d, name, size, version)
    OBVIOUS
  <2> HIDE DEF b, r, v, d, known
  <2> DEFINE w == b.vol
  <2>10. Settled(w, to) /\ SameDirs(v, w)
    BY <1>3, <2>4, <2>5, <2>6, <2>7, <2>8, <2>9, WriteFileSettles DEF v
  <2> HIDE DEF w
  <2> DEFINE new == [path |-> path, dir |-> d, short |-> r.got]
  <2>11. /\ vol' = w /\ job' = [job EXCEPT !.known = known, !.placed = @ \union {new}]
    BY <1>1, <1>3, <2>4 DEF w, d, known
  <2>12. new.path = path /\ new.dir = d
    OBVIOUS
  <2> HIDE DEF new
  <2>13. /\ job'.step = "copying" /\ job'.dir = home /\ job'.known = known
         /\ job'.placed = job.placed \union {new}
    BY <1>1, <2>1, <2>11
  <2>14. Known(w, to, home, known)
    <3>1. Grown(v, to, w, to)
      BY <2>10 DEF Grown, SameDirs
    <3>2. /\ home \in DirsOf(w) /\ Len(to[home].path) = 2
          /\ \A k \in known : IsKnown(w, to, home, known, k)
      BY <2>6, <3>1, KnownKept
    <3>3. StemsApart => OneEach(known)
      BY <2>6 DEF Known
    <3>. QED  BY <3>2, <3>3 DEF Known
  <2>15. \A p \in job.placed : At(home, known, p.path, p.dir)
    <3>1. \A p \in job.placed : At(home, job.known, p.path, p.dir)
      BY <2>2 DEF JobKnows
    <3> HIDE DEF home
    <3>. QED  BY <2>6, <3>1 DEF At
  <2> HIDE DEF home
  <2>16. JobKnows(vol', to, job')
    <3>1. \A p \in job'.placed : At(home, known, p.path, p.dir)
      BY <2>6, <2>12, <2>13, <2>15
    <3>. QED  BY <2>11, <2>13, <2>14, <3>1 DEF JobKnows
  <2>17. Settled(vol', to)
    BY <2>10, <2>11
  <2>. QED  BY <2>13, <2>16, <2>17 DEF ImportInv
<1>. QED  BY <1>2, <1>3

LEMMA FinishKeeps ==
    ASSUME SpaceInv, ImportInv, Finish
    PROVE  ImportInv'
<1>1. job.step = "copying" /\ vol' = [vol EXCEPT !.fat = Flushed] /\ job' = NoJob
  BY DEF Finish
<1>2. Volume(vol)
  BY DEF SpaceInv
<1>3. vol'.fat = vol.fat /\ vol'.content = vol.content
  BY <1>1, <1>2 DEF Volume, HasFields, Flushed
<1>4. PICK to : Settled(vol, to)
  BY <1>1 DEF ImportInv
<1> DEFINE w == vol'
<1>5. w.fat = vol.fat /\ w.content = vol.content
  BY <1>3
<1> HIDE DEF w
<1>6. Settled(w, to)
  BY <1>4, <1>5, SameVolume
<1>7. job'.step = "idle" /\ job'.placed = {}
  BY <1>1, NoJobFields, NoJobPlaced
<1>. QED  BY <1>6, <1>7 DEF ImportInv, w

LEMMA DosDeleteKeeps ==
    ASSUME SpaceInv, ImportInv, NEW place \in Slots, DosDelete(place)
    PROVE  ImportInv'
<1> DEFINE w == WriteEntry(FreeChain(vol, EntryAt(vol, place).first), place, Deleted)
<1>1. job.step = "idle" /\ EntryAt(vol, place).kind = "file" /\ job' = job /\ vol' = w
  BY DEF DosDelete
<1>2. Volume(vol)
  BY DEF SpaceInv
<1>3. PICK to : Settled(vol, to)
  BY <1>1 DEF ImportInv
<1>4. Settled(w, to)
  BY <1>1, <1>2, <1>3, DeleteSettles
<1> HIDE DEF w
<1>5. job'.step = "idle" /\ job'.placed = {}
  BY <1>1 DEF ImportInv
<1>. QED  BY <1>1, <1>4, <1>5 DEF ImportInv

LEMMA NextImport ==
    ASSUME ~GoesOn, SpaceInv, ImportInv, [FatNext]_fatVars
    PROVE  ImportInv'
<1>1. ASSUME NEW program \in Programs, StartImport(program) PROVE ImportInv'
  BY <1>1, StartImportKeeps
<1>2. ASSUME NEW path \in DirPaths, NEW name \in FileNames, NEW size \in Sizes,
             ImportFile(path, name, size)
      PROVE  ImportInv'
  BY <1>2, ImportFileKeeps
<1>3. CASE Finish
  BY <1>3, FinishKeeps
<1>4. ASSUME NEW place \in Slots, DosDelete(place) PROVE ImportInv'
  BY <1>4, DosDeleteKeeps
<1>5. CASE UNCHANGED fatVars
  <2>1. vol' = vol /\ job' = job
    BY <1>5 DEF fatVars
  <2>. QED  BY <2>1 DEF ImportInv
<1>. QED  BY <1>1, <1>2, <1>3, <1>4, <1>5 DEF FatNext

----------------------------------------------------------------------------
(* Types.                                                                  *)
StateTypes ==
    /\ job.step \in {"idle", "copying", "failed"} /\ job.dir \in {Root} \union Clusters
    /\ count \in [files : 0..MaxFiles, imports : 0..MaxImports, deletes : 0..MaxDeletes]

LEMMA InitTypes == FatInit => StateTypes
<1> SUFFICES ASSUME FatInit PROVE StateTypes
  OBVIOUS
<1>1. job = NoJob /\ count = [files |-> 0, imports |-> 0, deletes |-> 0]
  BY DEF FatInit
<1>2. MaxFiles \in Nat /\ MaxImports \in Nat /\ MaxDeletes \in Nat
  BY BoundAssumption
<1>. QED  BY <1>1, <1>2, NoJobFields DEF StateTypes

LEMMA NextTypes ==
    ASSUME SpaceInv, SpaceInv', StateTypes, [FatNext]_fatVars
    PROVE  StateTypes'
<1>0. MaxFiles \in Nat /\ MaxImports \in Nat /\ MaxDeletes \in Nat
  BY BoundAssumption
<1>1. count \in [files : 0..MaxFiles, imports : 0..MaxImports, deletes : 0..MaxDeletes]
  BY DEF StateTypes
<1>2. job'.step = "copying" => job'.dir \in Clusters
  BY DEF SpaceInv, Directory
<1>3. ASSUME NEW program \in Programs, StartImport(program) PROVE StateTypes'
  <2>1. count.imports < MaxImports /\ count' = [count EXCEPT !.imports = @ + 1]
    BY <1>3 DEF StartImport
  <2>2. count' \in [files : 0..MaxFiles, imports : 0..MaxImports, deletes : 0..MaxDeletes]
    BY <1>0, <1>1, <2>1
  <2>3. \/ \E d : job' = [NoJob EXCEPT !.step = "copying", !.dir = d]
        \/ job' = [NoJob EXCEPT !.step = "failed", !.needed = 3]
    BY <1>3 DEF StartImport
  <2>4. \/ job'.step = "copying"
        \/ job'.step = "failed" /\ job'.dir = Root
    BY <2>3, NoJobFields
  <2>. QED  BY <1>2, <2>2, <2>4 DEF StateTypes
<1>4. ASSUME NEW path \in DirPaths, NEW name \in FileNames, NEW size \in Sizes,
             ImportFile(path, name, size)
      PROVE  StateTypes'
  <2>1. count.files < MaxFiles /\ count' = [count EXCEPT !.files = @ + 1]
    BY <1>4 DEF ImportFile
  <2>2. count' \in [files : 0..MaxFiles, imports : 0..MaxImports, deletes : 0..MaxDeletes]
    BY <1>0, <1>1, <2>1
  <2>3. /\ job.step = "copying"
        /\ \/ \E known, new : job' = [job EXCEPT !.known = known, !.placed = @ \union new]
           \/ \E needed : job' = [NoJob EXCEPT !.step = "failed", !.needed = needed]
    BY <1>4 DEF ImportFile
  <2>4. {"step", "dir", "known", "placed", "needed"} \subseteq DOMAIN job
    BY DEF SpaceInv
  <2>5. \/ job'.step = "copying"
        \/ job'.step = "failed" /\ job'.dir = Root
    BY <2>3, <2>4, NoJobFields
  <2>. QED  BY <1>2, <2>2, <2>5 DEF StateTypes
<1>5. CASE Finish
  <2>1. job' = NoJob /\ count' = count
    BY <1>5 DEF Finish
  <2>. QED  BY <1>1, <2>1, NoJobFields DEF StateTypes
<1>6. ASSUME NEW place \in Slots, DosDelete(place) PROVE StateTypes'
  <2>1. count.deletes < MaxDeletes /\ count' = [count EXCEPT !.deletes = @ + 1] /\ job' = job
    BY <1>6 DEF DosDelete
  <2>2. count' \in [files : 0..MaxFiles, imports : 0..MaxImports, deletes : 0..MaxDeletes]
    BY <1>0, <1>1, <2>1
  <2>. QED  BY <2>1, <2>2 DEF StateTypes
<1>7. CASE UNCHANGED fatVars
  BY <1>7 DEF StateTypes, fatVars
<1>. QED  BY <1>3, <1>4, <1>5, <1>6, <1>7 DEF FatNext

LEMMA TypesHold == SpaceInv /\ StateTypes => FatTypeOK
<1> SUFFICES ASSUME SpaceInv, StateTypes PROVE FatTypeOK
  OBVIOUS
<1>1. Volume(vol) /\ savedFat \in Fats
  BY DEF SpaceInv
<1>2. vol.fat \in Fats /\ vol.hint \in Clusters \union {Eoc}
  BY <1>1, NumberTypes DEF Volume
<1>3. \A place \in Slots :
         LET e == EntryAt(vol, place)
         IN  /\ e.kind \in {"never", "deleted", "file", "dir"} /\ e.name \in OnDrive
             /\ e.first \in {0} \union Clusters /\ e.size \in {0} \union AllSizes
  BY <1>1, SlotIsFine DEF FineEntry
<1>. QED  BY <1>1, <1>2, <1>3 DEF FatTypeOK, StateTypes

----------------------------------------------------------------------------
(* The volume as it is found, and where the files of an archive are.       *)
LEMMA SoundHolds == SpaceInv /\ StateTypes /\ ImportInv => VolumeSound
<1> SUFFICES ASSUME SpaceInv, StateTypes, ImportInv PROVE VolumeSound
  OBVIOUS
<1>1. FatTypeOK
  BY TypesHold
<1>2. ASSUME job.step # "failed" PROVE \E to : Settled(vol, to)
  BY <1>2 DEF ImportInv
<1>3. Volume(vol)
  BY DEF SpaceInv
<1>4. NoSharedClusters
  <2>1. SUFFICES ASSUME job.step # "failed"
        PROVE  /\ \A m \in Tree(vol) :
                     /\ Chain(vol, m.entry.first) # << >> => vol.fat[Last(Chain(vol, m.entry.first))] = Eoc
                     /\ m.entry.kind = "file" => Len(Chain(vol, m.entry.first)) = Pieces(m.entry.size)
               /\ \A m, n \in Tree(vol) :
                     m = n \/ ToSet(Chain(vol, m.entry.first)) \intersect
                              ToSet(Chain(vol, n.entry.first)) = {}
    BY DEF NoSharedClusters
  <2>2. PICK to : Settled(vol, to)
    BY <1>2, <2>1
  <2>. QED  BY <1>3, <2>2, SharesNothing DEF ClustersOf
<1>5. NothingLost
  <2>1. SUFFICES ASSUME job.step # "failed"
        PROVE  Clusters \ FreeClusters(vol) = UNION {ToSet(Chain(vol, m.entry.first)) : m \in Tree(vol)}
    BY DEF NothingLost
  <2>2. PICK to : Settled(vol, to)
    BY <1>2, <2>1
  <2>. QED  BY <1>3, <2>2, LosesNothing DEF ClustersOf
<1>. QED  BY <1>1, <1>4, <1>5 DEF VolumeSound

LEMMA TogetherHolds == StemsApart /\ ImportInv => PlacedTogether
<1> SUFFICES ASSUME StemsApart, ImportInv, NEW p \in job.placed, NEW q \in job.placed
             PROVE  p.path = q.path <=> p.dir = q.dir
  BY DEF PlacedTogether
<1>1. PICK to : JobKnows(vol, to, job)
  BY DEF ImportInv
<1>2. /\ Known(vol, to, job.dir, job.known)
      /\ At(job.dir, job.known, p.path, p.dir) /\ At(job.dir, job.known, q.path, q.dir)
  BY <1>1 DEF JobKnows
<1>. QED  BY <1>2, AtUnique

LEMMA AlwaysImport == ~GoesOn => (FatSpec => [](SpaceInv /\ StateTypes /\ ImportInv))
<1> SUFFICES ASSUME ~GoesOn PROVE FatSpec => [](SpaceInv /\ StateTypes /\ ImportInv)
  OBVIOUS
<1> DEFINE Inv == SpaceInv /\ StateTypes /\ ImportInv
<1>1. FatInit => Inv
  BY InitSpace, InitTypes, InitImport
<1>2. Inv /\ [FatNext]_fatVars => Inv'
  <2>1. SUFFICES ASSUME SpaceInv, StateTypes, ImportInv, [FatNext]_fatVars
                 PROVE  SpaceInv' /\ StateTypes' /\ ImportInv'
    OBVIOUS
  <2>2. SpaceInv'
    BY <2>1, NextSpace
  <2>3. StateTypes'
    BY <2>1, <2>2, NextTypes
  <2>4. ImportInv'
    BY <2>1, NextImport
  <2>. QED  BY <2>2, <2>3, <2>4
<1>. QED  BY <1>1, <1>2, PTL DEF FatSpec

\* Unless the user goes on after an import that failed, no two files or directories
\* share a cluster, every chain is as long as its file and ends properly, and no
\* cluster is lost, on a volume of any size.
THEOREM VolumeStaysSound == ~GoesOn => (FatSpec => []VolumeSound)
<1> SUFFICES ASSUME ~GoesOn PROVE FatSpec => []VolumeSound
  OBVIOUS
<1>1. FatSpec => [](SpaceInv /\ StateTypes /\ ImportInv)
  BY AlwaysImport
<1>. QED  BY <1>1, SoundHolds, PTL

\* The files of an archive are together on the drive exactly if they are in the
\* archive, unless a directory's plain name is what another's was changed into.
THEOREM FilesStayTogether == ~GoesOn /\ StemsApart => (FatSpec => []PlacedTogether)
<1> SUFFICES ASSUME ~GoesOn, StemsApart PROVE FatSpec => []PlacedTogether
  OBVIOUS
<1>1. FatSpec => [](SpaceInv /\ StateTypes /\ ImportInv)
  BY AlwaysImport
<1>2. SpaceInv /\ StateTypes /\ ImportInv => PlacedTogether
  BY TogetherHolds
<1>. QED  BY <1>1, <1>2, PTL

----------------------------------------------------------------------------
(* What an operation leaves as it was: the files that are not at out, in   *)
(* their directories, and entries that were used are not cleared.          *)
FilesAt(v) == Shown(v) \ ShownDirs(v)
ChainSame(v, w, p) == Chain(w, EntryAt(v, p).first) = Chain(v, EntryAt(v, p).first)
PiecesSame(v, w, p) ==
    \A c \in ClustersOf(v, EntryAt(v, p).first) : w.content[c].piece = v.content[c].piece
AreasKept(v, w) == \A d \in DirsOf(v) : Area(v, d) \subseteq Area(w, d)
NotCleared(v, w) ==
    \A d \in DirsOf(v), q \in Slots :
        q[1] \in Area(v, d) /\ EntryAt(v, q).kind # "never" => EntryAt(w, q).kind # "never"
Steady(v, w, out) ==
    /\ \A p \in FilesAt(v) \ out : ChainSame(v, w, p) /\ PiecesSame(v, w, p)
    /\ AreasKept(v, w) /\ NotCleared(v, w)
EntriesKept(v, w, out) == \A p \in Shown(v) \ out : p \in Shown(w) /\ EntryAt(w, p) = EntryAt(v, p)
NoneBut(v, w, out, new) == \A p \in FilesAt(w) : p \in FilesAt(v) \ out \/ p \in new
Keeps(v, w, out, new) ==
    /\ out \intersect ShownDirs(v) = {} /\ DirsOf(v) \subseteq DirsOf(w)
    /\ EntriesKept(v, w, out) /\ NoneBut(v, w, out, new) /\ Steady(v, w, out)

LEMMA KeepsTwice ==
    ASSUME NEW u, NEW v, NEW w, NEW a, NEW b, NEW c, NEW d, Keeps(u, v, a, b), Keeps(v, w, c, d)
    PROVE  Keeps(u, w, a \union c, b \union d)
<1>1. /\ a \intersect ShownDirs(u) = {} /\ DirsOf(u) \subseteq DirsOf(v)
      /\ EntriesKept(u, v, a) /\ NoneBut(u, v, a, b) /\ Steady(u, v, a)
  BY DEF Keeps
<1>2. /\ c \intersect ShownDirs(v) = {} /\ DirsOf(v) \subseteq DirsOf(w)
      /\ EntriesKept(v, w, c) /\ NoneBut(v, w, c, d) /\ Steady(v, w, c)
  BY DEF Keeps
<1>3. EntriesKept(u, w, a \union c)
  BY <1>1, <1>2 DEF EntriesKept
<1>4. (a \union c) \intersect ShownDirs(u) = {}
  BY <1>1, <1>2 DEF EntriesKept, ShownDirs
<1>5. NoneBut(u, w, a \union c, b \union d)
  BY <1>1, <1>2 DEF NoneBut
<1>6. AreasKept(u, w) /\ NotCleared(u, w)
  BY <1>1, <1>2 DEF Steady, AreasKept, NotCleared
<1>7. ASSUME NEW p \in FilesAt(u) \ (a \union c) PROVE ChainSame(u, w, p) /\ PiecesSame(u, w, p)
  <2>1. p \in FilesAt(v) \ c /\ EntryAt(v, p) = EntryAt(u, p)
    BY <1>1, <1>7 DEF EntriesKept, FilesAt, ShownDirs
  <2>2. ChainSame(u, v, p) /\ PiecesSame(u, v, p) /\ ChainSame(v, w, p) /\ PiecesSame(v, w, p)
    BY <1>1, <1>2, <1>7, <2>1 DEF Steady
  <2>. QED  BY <2>1, <2>2 DEF ChainSame, PiecesSame, ClustersOf
<1>8. Steady(u, w, a \union c)
  BY <1>6, <1>7 DEF Steady
<1>. QED  BY <1>1, <1>2, <1>3, <1>4, <1>5, <1>8 DEF Keeps

LEMMA KeepsItself ==
    ASSUME NEW v
    PROVE  Keeps(v, v, {}, {})
  BY DEF Keeps, EntriesKept, NoneBut, Steady, ChainSame, PiecesSame, AreasKept, NotCleared

\* Nothing is written or deleted, whatever becomes of the chains of what is out.
LEMMA AlikeKeeps ==
    ASSUME NEW v, NEW w, NEW out, Alike(v, w), out \intersect ShownDirs(v) = {}, Steady(v, w, out)
    PROVE  Keeps(v, w, out, out)
<1>1. DirsOf(w) = DirsOf(v) /\ FilesAt(w) = FilesAt(v)
  BY AlikeGives DEF Alike, FilesAt
<1>2. EntriesKept(v, w, out) /\ NoneBut(v, w, out, out)
  BY <1>1 DEF EntriesKept, NoneBut, Alike
<1>. QED  BY <1>1, <1>2 DEF Keeps

(* Only a free cluster is written, and only chains of no file change.      *)
Changes(v, w, first) ==
    \A x \in Clusters : w.fat[x] = v.fat[x] \/ v.fat[x] = Free \/ x \in ClustersOf(v, first)
LEMMA OrphanChanges ==
    ASSUME NEW v, NEW w, NEW out, NEW first, NEW to, Whole(v, out, first, to), Changes(v, w, first)
    PROVE  /\ \A p \in FilesAt(v) \ out : ChainSame(v, w, p)
           /\ \A d \in DirsOf(v) : Chain(w, d) = Chain(v, d)
<1> DEFINE H == Heads(v, out, first)
<1>1. Orphan \in DOMAIN H /\ H[Orphan] = first
  BY HeadsAre, OrphanHead
<1>2. Chains(v, H)
  BY DEF Whole
<1>3. SameBut(v, w, H, Orphan)
  <2> HIDE DEF H
  <2>1. \A c \in Clusters : \/ w.fat[c] = v.fat[c] \/ v.fat[c] = Free
                            \/ c \in ClustersOf(v, H[Orphan])
    BY <1>1 DEF Changes
  <2>. QED  BY <1>1, <1>2, <2>1, OthersKept DEF SameBut
<1>4. KeptBut(v, w, out, first, Orphan)
  BY <1>3, OthersSame
<1>5. Orphan \notin ShownDirs(v) /\ \A p \in Shown(v) : p # Orphan
  BY HeadsAre DEF ShownDirs
<1>. QED  BY <1>4, <1>5 DEF KeptBut, ChainSame, FilesAt

LEMMA DirChanges ==
    ASSUME NEW v, NEW w, NEW out, NEW first, NEW to, Whole(v, out, first, to),
           NEW d \in DirsOf(v), d # Root, Changes(v, w, d)
    PROVE  /\ \A p \in FilesAt(v) \ out : ChainSame(v, w, p)
           /\ \A e \in DirsOf(v) : e # d => Chain(w, e) = Chain(v, e)
<1> DEFINE H == Heads(v, out, first)
<1>1. PICK j \in ShownDirs(v) : EntryAt(v, j).first = d /\ j \in DOMAIN H /\ H[j] = d
  BY DirFacts
<1>2. Chains(v, H)
  BY DEF Whole
<1>3. SameBut(v, w, H, j)
  <2> HIDE DEF H
  <2>1. \A c \in Clusters : \/ w.fat[c] = v.fat[c] \/ v.fat[c] = Free
                            \/ c \in ClustersOf(v, H[j])
    BY <1>1 DEF Changes
  <2>. QED  BY <1>1, <1>2, <2>1, OthersKept DEF SameBut
<1>4. KeptBut(v, w, out, first, j)
  BY <1>3, OthersSame
<1>. QED  BY <1>1, <1>4 DEF KeptBut, ChainSame, FilesAt

PiecesBut(v, w, c) == \A x \in Clusters \ {c} : w.content[x].piece = v.content[x].piece
LEMMA ClearedKeeps ==
    ASSUME NEW v, NEW w, NEW out, NEW first, NEW to, Whole(v, out, first, to), Alike(v, w),
           NEW c \in FreeClusters(v), Blanked(v, w, c), PiecesBut(v, w, c), AreasKept(v, w),
           \A p \in FilesAt(v) \ out : ChainSame(v, w, p)
    PROVE  Keeps(v, w, out, out)
<1>1. out \intersect ShownDirs(v) = {}
  BY DEF Whole
<1>2. NotCleared(v, w)
  BY FreeUnseen DEF NotCleared, Blanked
<1>3. ASSUME NEW p \in FilesAt(v) \ out PROVE PiecesSame(v, w, p)
  <2> DEFINE first2 == EntryAt(v, p).first
  <2>1. Ends(v, first2)
    <3>1. p \in DOMAIN Heads(v, out, first) /\ Heads(v, out, first)[p] = first2
      <4>1. p \in Shown(v) /\ p \notin out
        BY DEF FilesAt
      <4>2. p \in DOMAIN Heads(v, out, first)
        BY <4>1, HeadsAre
      <4>. QED  BY <4>1, <4>2, SeenHead
    <3>. QED  BY <3>1 DEF Whole, Chains
  <2>2. c \notin ClustersOf(v, first2)
    BY <2>1, NotFree DEF FreeClusters
  <2>3. ClustersOf(v, first2) \in SUBSET Clusters
    BY ClustersAre
  <2>. QED  BY <2>2, <2>3 DEF PiecesSame, PiecesBut
<1>4. Steady(v, w, out)
  BY <1>2, <1>3 DEF Steady
<1>. QED  BY <1>1, <1>4, AlikeKeeps

----------------------------------------------------------------------------
LEMMA PiecesButIs ==
    ASSUME NEW v, Volume(v), NEW w, NEW c \in Clusters, NEW x, w.content = [v.content EXCEPT ![c] = x]
    PROVE  PiecesBut(v, w, c)
<1>1. \A y \in Clusters : y \in DOMAIN v.content
  BY DEF Volume, FineContent, Clusters
<1>. QED  BY <1>1 DEF PiecesBut

LEMMA SameAreas ==
    ASSUME NEW v, NEW w, \A d \in DirsOf(v) : Chain(w, d) = Chain(v, d)
    PROVE  AreasKept(v, w)
  BY DEF AreasKept, Area, ClustersOf

LEMMA TakesKeeps ==
    ASSUME NEW v, NEW w, NEW out, NEW to, Whole(v, out, 0, to), Alike(v, w), v.fat \in Fats,
           NEW c \in FreeClusters(v), w.fat = [v.fat EXCEPT ![c] = Eoc], Blanked(v, w, c), PiecesBut(v, w, c)
    PROVE  Keeps(v, w, out, out)
<1>1. Changes(v, w, 0)
  <2>1. v.fat[c] = Free
    BY DEF FreeClusters
  <2>2. \A x \in Clusters : x # c => w.fat[x] = v.fat[x]
    BY DEF Fats
  <2>. QED  BY <2>1, <2>2 DEF Changes
<1> DEFINE first == 0
<1>2. Whole(v, out, first, to) /\ Changes(v, w, first)
  BY <1>1
<1> HIDE DEF first
<1>3. /\ \A p \in FilesAt(v) \ out : ChainSame(v, w, p)
      /\ \A d \in DirsOf(v) : Chain(w, d) = Chain(v, d)
  BY <1>2, OrphanChanges
<1>4. AreasKept(v, w)
  BY <1>3, SameAreas
<1>. QED  BY <1>2, <1>3, <1>4, ClearedKeeps

LEMMA LinkedChanges ==
    ASSUME NEW v, v.fat \in Fats, NEW w, NEW first \in Clusters, NEW c \in FreeClusters(v),
           LinkedAt(v, w, Last(Chain(v, first)), c)
    PROVE  Changes(v, w, first)
<1> DEFINE last == Last(Chain(v, first))
<1>1. last \in ClustersOf(v, first)
  <2>1. Chain(v, first) # << >> /\ Chain(v, first) \in Seq(Clusters)
    BY ChainGives, ChainInClusters
  <2>2. last = Chain(v, first)[Len(Chain(v, first))] /\ Len(Chain(v, first)) \in 1..Len(Chain(v, first))
    BY <2>1, LastOf
  <2>. QED  BY <2>2, ClustersAre
<1>2. v.fat[c] = Free
  BY DEF FreeClusters
<1>3. w.fat = [[v.fat EXCEPT ![c] = Eoc] EXCEPT ![last] = c]
  BY DEF LinkedAt
<1> HIDE DEF last
<1>4. \A x \in Clusters : x # c /\ x # last => w.fat[x] = v.fat[x]
  <2>1. \A x \in Clusters : x \in DOMAIN v.fat
    BY NumberTypes DEF Fats
  <2>. QED  BY <1>3, <2>1
<1>. QED  BY <1>1, <1>2, <1>4 DEF Changes

LEMMA LinksKeep ==
    ASSUME NEW v, NEW w, NEW out, NEW first \in Clusters, NEW to, Whole(v, out, first, to), Alike(v, w),
           v.fat \in Fats, NEW c \in FreeClusters(v), Blanked(v, w, c), PiecesBut(v, w, c),
           LinkedAt(v, w, Last(Chain(v, first)), c)
    PROVE  Keeps(v, w, out, out)
<1>1. Changes(v, w, first)
  BY LinkedChanges
<1>2. /\ \A p \in FilesAt(v) \ out : ChainSame(v, w, p)
      /\ \A d \in DirsOf(v) : Chain(w, d) = Chain(v, d)
  BY <1>1, OrphanChanges
<1>3. AreasKept(v, w)
  BY <1>2, SameAreas
<1>. QED  BY <1>2, <1>3, ClearedKeeps

LEMMA DirGrowsKeeps ==
    ASSUME NEW v, NEW w, NEW out, NEW first, NEW to, Whole(v, out, first, to), Alike(v, w),
           NEW d \in DirsOf(v), d # Root,
           v.fat \in Fats, NEW c \in FreeClusters(v), Blanked(v, w, c), PiecesBut(v, w, c),
           LinkedAt(v, w, Last(Chain(v, d)), c)
    PROVE  Keeps(v, w, out, out)
<1>0. d \in Clusters /\ Ends(v, d) /\ c \in Clusters /\ v.fat[c] = Free
  BY DirFacts DEF FreeClusters
<1>1. Changes(v, w, d)
  BY <1>0, LinkedChanges
<1>2. /\ \A p \in FilesAt(v) \ out : ChainSame(v, w, p)
      /\ \A e \in DirsOf(v) : e # d => Chain(w, e) = Chain(v, e)
  BY <1>1, DirChanges
<1>3. Chain(w, d) = Append(Chain(v, d), c)
  <2> DEFINE last == Last(Chain(v, d))
  <2>1. Chain(v, d) # << >> /\ Chain(v, d) \in Seq(Clusters)
    BY <1>0, ChainGives, ChainInClusters
  <2>2. last \in Clusters /\ v.fat[last] = Eoc
    BY <1>0, <2>1, LastOf DEF Ends
  <2>3. last # c /\ Eoc # Free
    BY <1>0, <2>2, NumberTypes DEF Free
  <2> HIDE DEF last
  <2>4. w.fat[last] = c /\ w.fat[c] = Eoc /\ \A x \in Clusters : x # c /\ x # last => w.fat[x] = v.fat[x]
    BY <1>0, <2>2, <2>3, NumberTypes DEF LinkedAt, Fats, last
  <2>5. \A x \in ClustersOf(v, d) : x # c /\ x \in Clusters
    BY <1>0, NotFree, ClustersAre
  <2>6. \A x \in ClustersOf(v, d) \ {last} : w.fat[x] = v.fat[x]
    BY <2>4, <2>5
  <2>. QED  BY <1>0, <2>4, <2>6, ChainGrows DEF last
<1>4. Area(v, d) \subseteq Area(w, d)
  <2>1. ToSet(Chain(v, d)) \subseteq ToSet(Append(Chain(v, d), c))
    <3> DEFINE s == Chain(v, d)
               t == Append(s, c)
    <3>0. s \in Seq(Clusters)
      BY ChainInClusters
    <3>1. Len(s) \in Nat /\ Len(t) = Len(s) + 1 /\ \A i \in 1..Len(s) : t[i] = s[i]
      BY <1>0, <3>0, AppendProperties
    <3>2. DOMAIN s = 1..Len(s) /\ DOMAIN t = 1..(Len(s) + 1)
      BY <1>0, <3>0, <3>1, AppendProperties
    <3> HIDE DEF s, t
    <3>3. 1..Len(s) \subseteq 1..(Len(s) + 1)
      BY <3>1
    <3>. QED  BY <3>1, <3>2, <3>3 DEF ToSet, s, t
  <2>. QED  BY <1>3, <2>1 DEF Area, ClustersOf
<1>5. AreasKept(v, w)
  BY <1>2, <1>4 DEF AreasKept, Area, ClustersOf
<1>. QED  BY <1>2, <1>5, ClearedKeeps

\* A place for an entry takes nothing from any file.
LEMMA FreeSlotKeeps ==
    ASSUME NEW v, Volume(v), NEW out, NEW first, NEW to, Whole(v, out, first, to), NEW d \in DirsOf(v),
           FreeSlot(v, d).ok
    PROVE  Keeps(v, FreeSlot(v, d).vol, out, out)
<1> DEFINE r == FreeSlot(v, d)
           a == AllocCluster(v)
           open == OpenPlace(v, d)
<1>0. Alike(v, r.vol)
  BY FreeSlotOpens DEF Opened
<1>1. CASE open # << >>
  <2>1. r = Returned(v, Head(open))
    BY <1>1 DEF FreeSlot
  <2>2. r.vol = v
    BY <2>1 DEF Returned
  <2> HIDE DEF r
  <2>3. Steady(v, v, out)
    BY DEF Steady, ChainSame, PiecesSame, AreasKept, NotCleared
  <2>4. out \intersect ShownDirs(v) = {} /\ Alike(v, v)
    BY DEF Whole, Alike
  <2>5. Keeps(v, r.vol, out, out)
    BY <2>2, <2>3, <2>4, AlikeKeeps
  <2>. QED  BY <2>5 DEF r
<1>2. CASE open = << >> /\ d = Root
  <2>1. r = Thrown(v)
    BY <1>2 DEF FreeSlot
  <2>2. ~r.ok
    BY <2>1 DEF Thrown
  <2>. QED  BY <2>2
<1>3. CASE open = << >> /\ d # Root /\ ~a.ok
  <2>1. r = a
    BY <1>3 DEF FreeSlot, Then
  <2>. QED  BY <1>3, <2>1
<1>4. CASE open = << >> /\ d # Root /\ a.ok
  <2> DEFINE last == Last(Chain(v, d))
             end == IF v.fat[last] = Free THEN 0 ELSE last
             w == [a.vol EXCEPT !.fat[end] = a.got, !.content[a.got] = Zeroed]
             c == a.got
  <2>1. r = Returned(w, <<a.got, 1>>)
    BY <1>4 DEF FreeSlot, Then
  <2>2. c \in FreeClusters(v) /\ Volume(a.vol) /\ a.vol = [v EXCEPT !.hint = c + 1, !.fat[c] = Eoc]
    <3>1. ~Thrown(v).ok
      BY DEF Thrown
    <3>2. a # Thrown(v)
      BY <1>4, <3>1
    <3>. QED  BY <3>2, AllocClusterGives
  <2>3. a.vol.fat = [v.fat EXCEPT ![c] = Eoc] /\ a.vol.content = v.content
    BY <2>2 DEF Volume, HasFields
  <2>4. d \in Clusters /\ Ends(v, d)
    BY <1>4, DirFacts
  <2>5. end = last
    BY <2>4, NumberTypes DEF Ends, Free
  <2> HIDE DEF a, end
  <2>6. w.fat = [a.vol.fat EXCEPT ![end] = c] /\ w.content = [a.vol.content EXCEPT ![c] = Zeroed]
    BY <2>2 DEF Volume, HasFields
  <2>7. r.vol = w
    BY <2>1 DEF Returned
  <2> HIDE DEF w, r
  <2>8. LinkedAt(v, w, Last(Chain(v, d)), c)
    BY <2>3, <2>5, <2>6 DEF LinkedAt
  <2> HIDE DEF last
  <2>9. c \in Clusters
    BY <2>2 DEF FreeClusters
  <2> HIDE DEF c
  <2>10. w.content = [v.content EXCEPT ![c] = Zeroed]
    BY <2>3, <2>6
  <2>11. Blanked(v, w, c) /\ PiecesBut(v, w, c)
    <3>1. Zeroed.entries = [i \in 1..DirSlots |-> Never]
      BY DEF Zeroed, Holding
    <3>. QED  BY <2>9, <2>10, <3>1, BlankedIs, PiecesButIs
  <2>12. v.fat \in Fats
    BY DEF Volume
  <2>13. c \in FreeClusters(v) /\ Alike(v, w)
    BY <1>0, <2>2, <2>7 DEF c, r
  <2>14. Keeps(v, w, out, out)
    BY <1>4, <2>8, <2>11, <2>12, <2>13, DirGrowsKeeps
  <2>. QED  BY <2>7, <2>14 DEF r
<1>. QED  BY <1>1, <1>2, <1>3, <1>4

----------------------------------------------------------------------------
(* What the parts of writing and deleting a file leave as it was.          *)
LEMMA FileChanges ==
    ASSUME NEW v, NEW w, NEW out, NEW first, NEW to, Whole(v, out, first, to),
           NEW p \in FilesAt(v) \ out, Changes(v, w, EntryAt(v, p).first)
    PROVE  /\ \A q \in FilesAt(v) \ (out \union {p}) : ChainSame(v, w, q)
           /\ \A d \in DirsOf(v) : Chain(w, d) = Chain(v, d)
<1> DEFINE H == Heads(v, out, first)
           head == EntryAt(v, p).first
<1>1. p \in DOMAIN H /\ H[p] = head
  <2>1. p \in Shown(v) /\ p \notin out
    BY DEF FilesAt
  <2>2. H[p] = head
    BY <2>1, SeenHead
  <2>. QED  BY <2>1, <2>2, HeadsAre
<1>2. Chains(v, H)
  BY DEF Whole
<1>3. SameBut(v, w, H, p)
  <2> HIDE DEF H
  <2>1. \A c \in Clusters : \/ w.fat[c] = v.fat[c] \/ v.fat[c] = Free
                            \/ c \in ClustersOf(v, H[p])
    BY <1>1 DEF Changes
  <2>2. \A i \in DOMAIN H \ {p} : Chain(w, H[i]) = Chain(v, H[i])
    BY <1>1, <1>2, <2>1, OthersKept, SMTT(30)
  <2>. QED  BY <2>2 DEF SameBut
<1>4. KeptBut(v, w, out, first, p)
  BY <1>3, OthersSame
<1>5. p \notin ShownDirs(v)
  BY DEF FilesAt
<1>. QED  BY <1>4, <1>5 DEF KeptBut, ChainSame, FilesAt

LEMMA FreesKeep ==
    ASSUME NEW v, Volume(v), NEW to, Settled(v, to), NEW p \in FilesAt(v)
    PROVE  Keeps(v, FreeChain(v, EntryAt(v, p).first), {p}, {p})
<1> DEFINE first == EntryAt(v, p).first
           w == FreeChain(v, first)
           out == {p}
<1>0. Whole(v, {}, 0, to) /\ Alike(v, w)
  BY WholeFrees DEF Settled, FilesAt
<1>1. Changes(v, w, first)
  <2>1. w.fat = [c \in DOMAIN v.fat |-> IF c \in ToSet(Chain(v, first)) THEN Free ELSE v.fat[c]]
    BY DEF FreeChain, Volume, HasFields
  <2>2. \A c \in Clusters : c \in DOMAIN v.fat
    BY NumberTypes DEF Volume, Fats
  <2>. QED  BY <2>1, <2>2 DEF ClustersOf, Changes
<1>2. w.content = v.content
  BY DEF FreeChain, Volume, HasFields
<1> HIDE DEF w
<1>3. /\ \A q \in FilesAt(v) \ ({} \union {p}) : ChainSame(v, w, q)
      /\ \A d \in DirsOf(v) : Chain(w, d) = Chain(v, d)
  BY <1>0, <1>1, FileChanges
<1>4. AreasKept(v, w)
  BY <1>3, SameAreas
<1>5. Steady(v, w, {p})
  BY <1>2, <1>3, <1>4 DEF Steady, PiecesSame, NotCleared, EntryAt
<1>6. out \intersect ShownDirs(v) = {} /\ Steady(v, w, out)
  BY <1>5 DEF FilesAt
<1> HIDE DEF out
<1>7. Keeps(v, w, out, out)
  BY <1>0, <1>6, AlikeKeeps
<1>. QED  BY <1>7 DEF w, out

LEMMA AlikeBetween ==
    ASSUME NEW u, NEW v, NEW w, Alike(u, v), Alike(u, w)
    PROVE  Alike(v, w)
  BY DEF Alike

LEMMA PieceLeaves ==
    ASSUME NEW v, NEW out, NEW to, NEW r, NEW i \in Nat, Laid(v, out, to, r, i), Volume(r.vol),
           Space(r.vol) # 0, NEW version
    PROVE  Keeps(r.vol, AddedPiece(r, AllocCluster(r.vol), version, i + 1).vol, out, out)
<1> DEFINE u == r.vol
           a == AllocCluster(u)
           c == a.got
           q == AddedPiece(r, a, version, i + 1)
           w == q.vol
<1>1. c \in FreeClusters(u) /\ Volume(a.vol) /\ a.vol = [u EXCEPT !.hint = c + 1, !.fat[c] = Eoc]
  BY AllocClusterGives
<1>2. a.vol.fat = [u.fat EXCEPT ![c] = Eoc] /\ a.vol.content = u.content
  BY <1>1 DEF Volume, HasFields
<1>0. Alike(u, w)
  <2>1. Laid(v, out, to, q, i + 1)
    BY PieceIsLaid
  <2> HIDE DEF q
  <2>2. Alike(v, w) /\ Alike(v, u)
    BY <2>1 DEF Laid
  <2>. QED  BY <2>2, AlikeBetween
<1> HIDE DEF u, a
<1>3. /\ w.fat = IF r.last = 0 THEN a.vol.fat ELSE [a.vol.fat EXCEPT ![r.last] = c]
      /\ w.content = [a.vol.content EXCEPT ![c] = Piece(version, i + 1)]
  BY <1>1 DEF AddedPiece, Volume, HasFields
<1> HIDE DEF q, w, c
<1>4. c \in Clusters /\ c # 0
  BY <1>1, NumberTypes DEF FreeClusters
<1>5. Blanked(u, w, c) /\ PiecesBut(u, w, c)
  <2>1. Piece(version, i + 1).entries = [s \in 1..DirSlots |-> Never]
    BY DEF Piece, Holding
  <2>2. w.content = [u.content EXCEPT ![c] = Piece(version, i + 1)]
    BY <1>2, <1>3
  <2>. QED  BY <1>4, <2>1, <2>2, BlankedIs, PiecesButIs DEF u
<1>6. u.fat \in Fats /\ Whole(u, out, r.first, to)
  BY DEF u, Volume, Laid
<1>7. CASE i = 0
  <2>1. r.first = 0 /\ r.last = 0
    BY <1>7 DEF Laid
  <2>2. w.fat = [u.fat EXCEPT ![c] = Eoc]
    BY <1>2, <1>3, <2>1
  <2>3. Whole(u, out, 0, to)
    BY <1>6, <2>1
  <2>4. Keeps(u, w, out, out)
    BY <1>0, <1>1, <1>5, <1>6, <2>2, <2>3, TakesKeeps
  <2>. QED  BY <2>4 DEF q, w, a, u
<1>8. CASE i # 0
  <2> DEFINE first == r.first
  <2>1. r.first # 0 /\ r.last = Last(Chain(u, r.first)) /\ r.last # 0
    BY <1>8, NumberTypes DEF Laid, u
  <2>2. w.fat = [[u.fat EXCEPT ![c] = Eoc] EXCEPT ![Last(Chain(u, r.first))] = c]
    BY <1>2, <1>3, <2>1
  <2>3. LinkedAt(u, w, Last(Chain(u, first)), c) /\ Whole(u, out, first, to) /\ first # 0
    BY <1>6, <2>1, <2>2 DEF LinkedAt
  <2> HIDE DEF first
  <2>4. first \in Clusters
    <3>1. Orphan \in DOMAIN Heads(u, out, first) /\ Heads(u, out, first)[Orphan] = first
      BY HeadsAre, OrphanHead
    <3>2. first \in {0} \union Clusters
      BY <2>3, <3>1 DEF Whole, Chains
    <3>. QED  BY <2>3, <3>2
  <2>5. Keeps(u, w, out, out)
    BY <1>0, <1>1, <1>5, <1>6, <2>3, <2>4, LinksKeep
  <2>. QED  BY <2>5 DEF q, w, a, u
<1>. QED  BY <1>7, <1>8

LEMMA PiecesLeave ==
    ASSUME NEW v, Volume(v), NEW out, NEW to, Whole(v, out, 0, to), NEW version,
           NEW n \in Nat, n <= Space(v)
    PROVE  Keeps(v, WithPieces(v, n, version).vol, out, out)
<1> DEFINE with == CHOOSE f : PiecesFrom(v, version, f, n)
           T == {i \in 0..n : Laid(v, out, to, with[i], i) /\ Keeps(v, with[i].vol, out, out)}
<1>1. PiecesFrom(v, version, with, n)
  BY PiecesExist
<1>2. WithPieces(v, n, version) = with[n]
  BY DEF WithPieces, PiecesFrom, AddedPiece
<1> HIDE DEF with
<1>3. \A i \in 0..n : Volume(with[i].vol) /\ Space(with[i].vol) = Space(v) - i
  BY <1>1, PiecesTakeSpace
<1>4. 0 \in T
  <2>1. with[0] = [vol |-> v, first |-> 0, last |-> 0]
    BY <1>1 DEF PiecesFrom
  <2>2. with[0].vol = v /\ with[0].first = 0 /\ with[0].last = 0
    BY <2>1
  <2>3. Steady(v, v, out)
    BY DEF Steady, ChainSame, PiecesSame, AreasKept, NotCleared
  <2>4. out \intersect ShownDirs(v) = {} /\ Alike(v, v)
    BY DEF Whole, Alike
  <2>5. Keeps(v, v, out, out)
    BY <2>3, <2>4, AlikeKeeps
  <2>. QED  BY <2>2, <2>5, NothingLaid
<1>5. ASSUME NEW i \in 0..(n - 1), i \in T PROVE i + 1 \in T
  <2> DEFINE r == with[i]
             q == with[i + 1]
  <2>1. /\ i + 1 \in 0..n /\ i \in Nat
        /\ q = AddedPiece(r, AllocCluster(r.vol), version, i + 1)
    BY <1>1 DEF PiecesFrom
  <2>2. Volume(r.vol) /\ Space(r.vol) # 0
    <3>1. Space(v) \in Nat
      BY FreeFinite
    <3>. QED  BY <1>3, <3>1
  <2>3. Laid(v, out, to, r, i) /\ Keeps(v, r.vol, out, out)
    BY <1>5
  <2> HIDE DEF r, q
  <2>4. Laid(v, out, to, q, i + 1)
    BY <2>1, <2>2, <2>3, PieceIsLaid
  <2>5. Keeps(r.vol, q.vol, out, out)
    BY <2>1, <2>2, <2>3, PieceLeaves
  <2>6. Keeps(v, q.vol, out, out)
    <3>1. Keeps(v, q.vol, out \union out, out \union out)
      BY <2>3, <2>5, KeepsTwice
    <3>2. out \union out = out
      OBVIOUS
    <3>. QED  BY <3>1, <3>2
  <2>. QED  BY <2>1, <2>4, <2>6 DEF q
<1>6. \A i \in 0..n : i \in T
  <2> HIDE DEF T
  <2>. QED  BY <1>4, <1>5, UpTo
<1>7. n \in 0..n
  OBVIOUS
<1>. QED  BY <1>2, <1>6, <1>7

LEMMA EntryPieces ==
    ASSUME NEW v, Volume(v), NEW place \in Slots, NEW e
    PROVE  /\ \A x \in Clusters : WriteEntry(v, place, e).content[x].piece = v.content[x].piece
           /\ WriteEntry(v, place, e).fat = v.fat
<1> DEFINE w == WriteEntry(v, place, e)
           a == place[1]
           b == place[2]
<1>1. w.fat = v.fat /\ w.content = [v.content EXCEPT ![a].entries[b] = e]
  BY DEF Volume, HasFields, WriteEntry
<1>2. \A x \in Clusters : x \in DOMAIN v.content /\ "piece" \in DOMAIN v.content[x]
  BY DEF Volume, FineContent, Clusters
<1> HIDE DEF w, a, b
<1>3. ASSUME NEW x \in Clusters PROVE w.content[x].piece = v.content[x].piece
  <2>1. CASE x = a
    <3>1. w.content[x] = [v.content[x] EXCEPT !.entries[b] = e]
      BY <1>1, <1>2, <2>1
    <3>. QED  BY <1>2, <3>1
  <2>2. CASE x # a
    BY <1>1, <1>2, <2>2
  <2>. QED  BY <2>1, <2>2
<1>. QED  BY <1>1, <1>3 DEF w

LEMMA EntryLeaves ==
    ASSUME NEW v, NEW w, w.fat = v.fat, NEW out, NEW new, NEW p \in Slots, NEW e,
           EntryWritten(v, w, p, e), e.kind # "never",
           \A x \in Clusters : w.content[x].piece = v.content[x].piece,
           IF p \in Shown(v) THEN out = {p} /\ p \in FilesAt(v) ELSE out = {},
           IF Shows(e) THEN e.kind = "file" /\ new = {p} ELSE new = {},
           DirsOf(v) \subseteq DirsOf(w)
    PROVE  Keeps(v, w, out, new)
<1>1. \A d : Chain(w, d) = Chain(v, d) /\ ClustersOf(w, d) = ClustersOf(v, d)
  BY SameFat
<1>2. AreasKept(v, w)
  BY <1>1 DEF AreasKept, Area
<1>3. NotCleared(v, w)
  BY DEF NotCleared, EntryWritten
<1>4. \A q \in FilesAt(v) \ out : ChainSame(v, w, q) /\ PiecesSame(v, w, q)
  BY <1>1, ClustersAre DEF ChainSame, PiecesSame
<1>5. out \intersect ShownDirs(v) = {}
  BY DEF FilesAt
<1>6. EntriesKept(v, w, out)
  BY DEF EntriesKept, EntryWritten, Shown
<1>7. NoneBut(v, w, out, new)
  BY DEF NoneBut, EntryWritten, Shown, FilesAt, ShownDirs
<1>. QED  BY <1>2, <1>3, <1>4, <1>5, <1>6, <1>7 DEF Keeps, Steady

----------------------------------------------------------------------------
(* A file that is put at p replaces the one of its name, or has a name     *)
(* that nothing in its directory had.                                      *)
SeenIn(v, d) == {p \in Shown(v) : p[1] \in Area(v, d)}
Fresh(v, d, short) == \A q \in SeenIn(v, d) : EntryAt(v, q).name # short
Puts(w, d, p, short) == p \in FilesAt(w) /\ p[1] \in Area(w, d) /\ EntryAt(w, p).name = short
FilePut(v, w, d, p, out, short) ==
    /\ Keeps(v, w, out, {p}) /\ Puts(w, d, p, short)
    /\ IF p \in FilesAt(v) THEN out = {p} /\ Puts(v, d, p, short)
                           ELSE out = {} /\ p \notin Shown(v) /\ Fresh(v, d, short)

LEMMA IsPut ==
    ASSUME NEW w, NEW p \in Slots, NEW d, NEW e, Shows(e), e.kind = "file", EntryAt(w, p) = e,
           p[1] \in Area(w, d)
    PROVE  Puts(w, d, p, e.name)
  BY DEF Puts, FilesAt, Shown, ShownDirs

LEMMA NotTaken ==
    ASSUME NEW v, NEW to, Settled(v, to), NEW d \in DirsOf(v), NEW short, short \notin Taken(v, d)
    PROVE  Fresh(v, d, short)
<1>1. \A q \in SeenIn(v, d) : q \in List(v, d)
  BY SeenIsListed DEF Settled, SeenIn
<1>. QED  BY <1>1 DEF Taken, Fresh

EnteredAt(v, w, d, old, out, p, short) ==
    /\ Keeps(v, w, out, {p}) /\ Puts(w, d, p, short)
    /\ IF old = << >> THEN p \notin Shown(v) ELSE p = Head(old)
LEMMA FileIsEntered ==
    ASSUME NEW v, Volume(v), NEW out, NEW to, Whole(v, out, 0, to), NEW d \in DirsOf(v), NEW old,
           IF old = << >> THEN out = {}
           ELSE out = {Head(old)} /\ Head(old) \in FilesAt(v) /\ Head(old)[1] \in Area(v, d),
           NEW short, short[1] \notin {".", ".."}, NEW size, NEW version,
           Pieces(size) \in Nat, Pieces(size) <= Space(v),
           Entered(WithPieces(v, Pieces(size), version), d, old, short, size).ok
    PROVE  LET r == Entered(WithPieces(v, Pieces(size), version), d, old, short, size)
           IN  r.got = short /\ \E p : EnteredAt(v, r.vol, d, old, out, p, short)
<1> DEFINE n == Pieces(size)
           new == WithPieces(v, n, version)
           u == new.vol
           first == new.first
           e == Entry("file", short, first, size)
           f == FreeSlot(u, d)
           r == Entered(new, d, old, short, size)
<1>1. Laid(v, out, to, new, n) /\ Volume(u)
  <2> HIDE DEF n
  <2>. QED  BY PiecesLaid DEF n
<1>2. Whole(u, out, first, to) /\ Alike(v, u) /\ Len(Chain(u, first)) = n
  BY <1>1 DEF Laid
<1>3. Keeps(v, u, out, out)
  <2> HIDE DEF n
  <2>. QED  BY PiecesLeave DEF n
<1> HIDE DEF new
<1>4. e.kind = "file" /\ e.name = short /\ e.first = first /\ e.size = size
  BY DEF Entry
<1> HIDE DEF e
<1>5. Shows(e) /\ SameDirs(v, u)
  BY <1>2, <1>4, AlikeDirs DEF Shows
<1>6. e.kind = "file" /\ e.kind # "never"
  BY <1>4
<1>7. CASE old # << >>
  <2> DEFINE p == Head(old)
             w == WriteEntry(u, p, e)
  <2>1. r = Returned(w, short)
    BY <1>7 DEF Entered, e
  <2>2. r.vol = w /\ r.got = short
    BY <2>1 DEF Returned
  <2>3. p \in FilesAt(v) /\ out = {p} /\ p[1] \in Area(v, d)
    BY <1>7
  <2> HIDE DEF p
  <2>4. p \in FilesAt(u) /\ p[1] \in Area(u, d) /\ p \in Shown(u)
    BY <1>2, <1>3, <1>5, <2>3 DEF Alike, SameDirs, FilesAt, Keeps, Steady, AreasKept
  <2>5. p \in Slots
    BY <2>4 DEF Shown
  <2>6. EntryWritten(u, w, p, e) /\ w.fat = u.fat /\ \A x \in Clusters : w.content[x].piece = u.content[x].piece
    BY <1>1, <2>5, WrittenIs, EntryPieces
  <2> HIDE DEF w, first, u, n, r
  <2>7. Len(Chain(u, first)) = Pieces(e.size)
    BY <1>2, <1>4 DEF n
  <2>8. Settled(w, to) /\ SameDirs(u, w)
    BY <1>2, <1>4, <1>5, <2>3, <2>5, <2>6, <2>7, FileWritten
  <2>9. Keeps(u, w, out, {p})
    <3>1. DirsOf(u) \subseteq DirsOf(w)
      BY <2>8 DEF SameDirs
    <3> DEFINE put == {p}
    <3>2. /\ IF p \in Shown(u) THEN out = {p} /\ p \in FilesAt(u) ELSE out = {}
          /\ IF Shows(e) THEN e.kind = "file" /\ put = {p} ELSE put = {}
      BY <1>5, <1>6, <2>3, <2>4
    <3> HIDE DEF put
    <3>3. Keeps(u, w, out, put)
      BY <1>6, <2>5, <2>6, <3>1, <3>2, EntryLeaves
    <3>. QED  BY <3>3 DEF put
  <2>10. Keeps(v, w, out, {p})
    <3>1. Keeps(v, w, out \union out, out \union {p})
      BY <1>3, <2>9, KeepsTwice
    <3>2. out \union out = out /\ out \union {p} = {p}
      BY <2>3
    <3>. QED  BY <3>1, <3>2
  <2>11. Puts(w, d, p, short)
    <3>1. EntryAt(w, p) = e
      BY <2>5, <2>6 DEF EntryWritten
    <3>2. d \in DirsOf(u)
      BY <1>5 DEF SameDirs
    <3>3. p[1] \in Area(w, d)
      BY <2>4, <2>9, <3>2 DEF Keeps, Steady, AreasKept
    <3>4. Puts(w, d, p, e.name)
      BY <1>5, <1>6, <2>5, <3>1, <3>3, IsPut
    <3>. QED  BY <1>4, <3>4
  <2>12. EnteredAt(v, w, d, old, out, p, short)
    BY <1>7, <2>10, <2>11 DEF EnteredAt, p
  <2>. QED  BY <2>2, <2>12 DEF r, new, n
<1>8. CASE old = << >> /\ ~f.ok
  <2>1. r = f
    BY <1>8 DEF Entered, Then
  <2>2. ~r.ok
    BY <1>8, <2>1
  <2>. QED  BY <2>2 DEF new, n
<1>9. CASE old = << >> /\ f.ok
  <2> DEFINE w == WriteEntry(f.vol, f.got, e)
             none == {}
  <2>1. r = Returned(w, short)
    BY <1>9 DEF Entered, Then, e
  <2>2. r.vol = w /\ r.got = short
    BY <2>1 DEF Returned
  <2>3. out = none /\ Whole(u, out, first, to) /\ d \in DirsOf(u)
    BY <1>2, <1>5, <1>9 DEF SameDirs
  <2> HIDE DEF none
  <2>4. Opened(u, f, d, out, first, to) /\ Keeps(u, f.vol, out, out)
    BY <1>1, <1>9, <2>3, FreeSlotOpens, FreeSlotKeeps
  <2>5. Volume(f.vol)
    BY <1>1, <1>9, FreeSlotGives
  <2> HIDE DEF f
  <2>6. /\ Whole(f.vol, out, first, to) /\ Alike(u, f.vol) /\ OpenAt(f.vol, d, f.got)
        /\ Len(Chain(f.vol, first)) = Len(Chain(u, first))
    BY <2>4 DEF Opened
  <2>7. /\ f.got \in Slots /\ f.got \notin Shown(f.vol) /\ f.got[1] \in Area(f.vol, d)
        /\ d \in DirsOf(f.vol)
    BY <2>6, OpenIs
  <2>8. /\ EntryWritten(f.vol, w, f.got, e) /\ w.fat = f.vol.fat
        /\ \A y \in Clusters : w.content[y].piece = f.vol.content[y].piece
    BY <2>5, <2>7, WrittenIs, EntryPieces
  <2>9. Shown(f.vol) = Shown(v)
    BY <1>2, <2>6 DEF Alike
  <2> DEFINE x == f.vol
             p == f.got
  <2>10. Len(Chain(x, first)) = Pieces(e.size)
    BY <1>2, <1>4, <2>6
  <2>11. /\ Whole(x, out, first, to) /\ EntryWritten(x, w, p, e) /\ w.fat = x.fat /\ p \in Slots
         /\ \A y \in Clusters : w.content[y].piece = x.content[y].piece
         /\ (\E y : OpenAt(x, y, p)) /\ p \notin Shown(x) /\ p \notin Shown(v) /\ p[1] \in Area(x, d)
         /\ Keeps(u, x, out, out)  /\ d \in DirsOf(x)
    BY <2>4, <2>6, <2>7, <2>8, <2>9
  <2> HIDE DEF w, first, u, n, x, p, r
  <2>12. Settled(w, to) /\ SameDirs(x, w)
    <3>1. out = {}
      BY <1>9
    <3>. QED  BY <1>4, <1>5, <2>10, <2>11, <3>1, FileWritten
  <2>13. Keeps(x, w, out, {p})
    <3>1. DirsOf(x) \subseteq DirsOf(w)
      BY <2>12 DEF SameDirs
    <3> DEFINE put == {p}
    <3>2. /\ IF p \in Shown(x) THEN out = {p} /\ p \in FilesAt(x) ELSE out = {}
          /\ IF Shows(e) THEN e.kind = "file" /\ put = {p} ELSE put = {}
      BY <1>5, <1>6, <2>3, <2>11 DEF none
    <3> HIDE DEF put
    <3>3. Keeps(x, w, out, put)
      BY <1>6, <2>11, <3>1, <3>2, EntryLeaves
    <3>. QED  BY <3>3 DEF put
  <2>14. Keeps(v, w, out, {p})
    <3>1. Keeps(v, x, out \union out, out \union out)
      BY <1>3, <2>11, KeepsTwice
    <3>2. out \union out = out /\ out \union {p} = {p}
      BY <2>3 DEF none
    <3>3. Keeps(v, x, out, out)
      BY <3>1, <3>2
    <3>4. Keeps(v, w, out \union out, out \union {p})
      BY <2>13, <3>3, KeepsTwice
    <3>. QED  BY <3>2, <3>4
  <2>15. Puts(w, d, p, short)
    <3>1. EntryAt(w, p) = e
      BY <2>11 DEF EntryWritten
    <3>2. p[1] \in Area(w, d)
      BY <2>11, <2>13 DEF Keeps, Steady, AreasKept
    <3>3. Puts(w, d, p, e.name)
      BY <1>5, <1>6, <2>11, <3>1, <3>2, IsPut
    <3>. QED  BY <1>4, <3>3
  <2>16. EnteredAt(v, w, d, old, out, p, short)
    BY <1>9, <2>11, <2>14, <2>15 DEF EnteredAt
  <2>. QED  BY <2>2, <2>16 DEF r, new, n
<1>. QED  BY <1>7, <1>8, <1>9

----------------------------------------------------------------------------
(* What an operation that threw half way has left as it was.               *)
Intact(v, x) ==
    Alike(v, x) /\ (\A p \in FilesAt(v) : PiecesSame(v, x, p)) /\ NotCleared(v, x)

LEMMA KeptIsIntact ==
    ASSUME NEW v, NEW x, Alike(v, x), NEW out, NEW new, Keeps(v, x, out, new), out = {}
    PROVE  Intact(v, x)
  BY DEF Intact, Keeps, Steady

LEMMA SameIsIntact ==
    ASSUME NEW v, NEW x, Alike(v, x), x.content = v.content
    PROVE  Intact(v, x)
  BY DEF Intact, PiecesSame, NotCleared, EntryAt

LEMMA AlikeItself ==
    ASSUME NEW v
    PROVE  Alike(v, v) /\ Intact(v, v)
  BY DEF Alike, Intact, PiecesSame, NotCleared

LEMMA EnteredThrows ==
    ASSUME NEW v, Volume(v), NEW to, Settled(v, to), NEW d \in DirsOf(v), NEW old, old = << >>,
           NEW short, NEW size, NEW version, Pieces(size) \in Nat, Pieces(size) <= Space(v),
           ~Entered(WithPieces(v, Pieces(size), version), d, old, short, size).ok
    PROVE  Intact(v, Entered(WithPieces(v, Pieces(size), version), d, old, short, size).vol)
<1> DEFINE n == Pieces(size)
           new == WithPieces(v, n, version)
           u == new.vol
           f == FreeSlot(u, d)
           r == Entered(new, d, old, short, size)
           out == {}
<1>0. Whole(v, out, 0, to) /\ out = {}
  BY DEF Settled
<1> HIDE DEF out
<1>1. Laid(v, out, to, new, n) /\ Volume(u)
  <2> HIDE DEF n
  <2>. QED  BY <1>0, PiecesLaid DEF n
<1>2. Alike(v, u)
  BY <1>1 DEF Laid
<1>3. Keeps(v, u, out, out)
  <2> HIDE DEF n
  <2>. QED  BY <1>0, PiecesLeave DEF n
<1> HIDE DEF new
<1>4. CASE f.ok
  <2>1. r = Returned(WriteEntry(f.vol, f.got, Entry("file", short, new.first, size)), short)
    BY <1>4 DEF Entered, Then
  <2>2. r.ok
    BY <2>1 DEF Returned
  <2>. QED  BY <2>2 DEF new, n
<1>5. CASE ~f.ok
  <2>1. r = f
    BY <1>5 DEF Entered, Then
  <2>2. f.vol = u
    BY <1>1, <1>5, FreeSlotGives
  <2> HIDE DEF f, r, u
  <2>3. Intact(v, u)
    BY <1>0, <1>2, <1>3, KeptIsIntact
  <2>. QED  BY <2>1, <2>2, <2>3 DEF r, new, n
<1>. QED  BY <1>4, <1>5

\* A file is put where the old one was or at an entry not in use, or nothing that
\* could be found has changed.
PutOrThrown(v, r, d, short) ==
    IF r.ok THEN r.got = short /\ \E p, out : FilePut(v, r.vol, d, p, out, short)
            ELSE Intact(v, r.vol)
LEMMA NewFileOutcome ==
    ASSUME NEW v, Volume(v), NEW to, Settled(v, to), NEW d \in DirsOf(v),
           NEW old, NEW u, Volume(u),
           IF old = << >> THEN u = v ELSE Head(old) \in FilesAt(v) /\ Head(old)[1] \in Area(v, d)
                                          /\ u = FreeChain(v, EntryAt(v, Head(old)).first),
           NEW short, short[1] \notin {".", ".."},
           IF old = << >> THEN Fresh(v, d, short) ELSE short = EntryAt(v, Head(old)).name,
           NEW size \in Nat, NEW version, NEW r,
           r = IF Pieces(size) > Space(u) THEN Thrown(u)
               ELSE Entered(WithPieces(u, Pieces(size), version), d, old, short, size)
    PROVE  PutOrThrown(v, r, d, short)
<1> DEFINE n == Pieces(size)
           p == Head(old)
           q == Entered(WithPieces(u, n, version), d, old, short, size)
<1>1. n \in Nat /\ Space(u) \in Nat
  <2>1. (size + 1) \div 2 \in Nat
    OBVIOUS
  <2>. QED  BY <2>1, FreeFinite DEF Pieces
<1>2. old # << >> => /\ Whole(u, {p}, 0, to) /\ Alike(v, u) /\ Keeps(v, u, {p}, {p}) /\ u.content = v.content
                     /\ p \in FilesAt(u) /\ p[1] \in Area(u, d) /\ EntryAt(u, p) = EntryAt(v, p)
  <2>0. SUFFICES ASSUME old # << >>
                 PROVE  /\ Whole(u, {p}, 0, to) /\ Alike(v, u) /\ Keeps(v, u, {p}, {p}) /\ u.content = v.content
                        /\ p \in FilesAt(u) /\ p[1] \in Area(u, d) /\ EntryAt(u, p) = EntryAt(v, p)
    OBVIOUS
  <2>1. p \in FilesAt(v) /\ p[1] \in Area(v, d) /\ u = FreeChain(v, EntryAt(v, p).first)
    BY <2>0
  <2> HIDE DEF p
  <2>2. u.content = v.content
    BY <2>1 DEF FreeChain, Volume, HasFields
  <2>3. Whole(u, {p}, 0, to) /\ Alike(v, u)
    BY <2>1, WholeFrees DEF FilesAt
  <2>4. Keeps(v, u, {p}, {p})
    BY <2>1, FreesKeep
  <2>5. p \in FilesAt(u) /\ EntryAt(u, p) = EntryAt(v, p)
    BY <2>1, <2>3, AlikeDirs DEF Alike, SameDirs, FilesAt
  <2>6. p[1] \in Area(u, d)
    BY <2>1, <2>4 DEF Keeps, Steady, AreasKept
  <2>. QED  BY <2>2, <2>3, <2>4, <2>5, <2>6
<1>3. CASE n > Space(u)
  <2>1. r = Thrown(u)
    BY <1>3
  <2>2. ~r.ok /\ r.vol = u
    BY <2>1 DEF Thrown
  <2>3. Intact(v, u)
    <3>1. CASE old = << >>
      BY <3>1, AlikeItself
    <3>2. CASE old # << >>
      BY <1>2, <3>2, SameIsIntact
    <3>. QED  BY <3>1, <3>2
  <2>. QED  BY <2>2, <2>3 DEF PutOrThrown
<1>4. CASE ~(n > Space(u)) /\ old = << >>
  <2> DEFINE out == {}
  <2>1. r = q /\ n <= Space(u) /\ u = v
    BY <1>1, <1>4
  <2>2. Whole(u, out, 0, to) /\ d \in DirsOf(u) /\ out = {}
    BY <2>1 DEF Settled
  <2> HIDE DEF out
  <2>3. CASE q.ok
    <3>1. q.got = short /\ \E y : EnteredAt(u, q.vol, d, old, out, y, short)
      BY <1>1, <1>4, <2>1, <2>2, <2>3, FileIsEntered
    <3> HIDE DEF q
    <3>2. PICK y : EnteredAt(v, r.vol, d, old, out, y, short)
      BY <2>1, <3>1
    <3>3. FilePut(v, r.vol, d, y, out, short)
      BY <1>4, <2>2, <3>2 DEF EnteredAt, FilePut, FilesAt
    <3>. QED  BY <2>1, <2>3, <3>1, <3>3 DEF PutOrThrown
  <2>4. CASE ~q.ok
    <3>1. Intact(v, q.vol)
      BY <1>1, <1>4, <2>1, <2>4, EnteredThrows
    <3>. QED  BY <2>1, <2>4, <3>1 DEF PutOrThrown
  <2>. QED  BY <2>3, <2>4
<1>5. CASE ~(n > Space(u)) /\ old # << >>
  <2> DEFINE out == {p}
  <2>1. r = q /\ n <= Space(u)
    BY <1>1, <1>5
  <2>2. Whole(u, out, 0, to) /\ d \in DirsOf(u) /\ Keeps(v, u, out, {p}) /\ out = {p}
    BY <1>2, <1>5, AlikeGives
  <2> HIDE DEF out
  <2>3. q.ok
    <3>1. q = Returned(WriteEntry(WithPieces(u, n, version).vol, p,
                                  Entry("file", short, WithPieces(u, n, version).first, size)), short)
      BY <1>5 DEF Entered
    <3>. QED  BY <3>1 DEF Returned
  <2>4. IF old = << >> THEN out = {}
        ELSE out = {Head(old)} /\ Head(old) \in FilesAt(u) /\ Head(old)[1] \in Area(u, d)
    BY <1>2, <1>5, <2>2
  <2>5. q.got = short /\ \E y : EnteredAt(u, q.vol, d, old, out, y, short)
    BY <1>1, <2>1, <2>2, <2>3, <2>4, FileIsEntered
  <2> HIDE DEF q
  <2>6. PICK y : EnteredAt(u, q.vol, d, old, out, y, short)
    BY <2>5
  <2>7. Keeps(u, q.vol, out, {y}) /\ Puts(q.vol, d, y, short) /\ y = p
    BY <1>5, <2>6 DEF EnteredAt
  <2>8. Keeps(v, q.vol, out, {y})
    <3>1. Keeps(v, q.vol, out \union out, {p} \union {y})
      BY <2>2, <2>7, KeepsTwice
    <3>2. out \union out = out /\ {p} \union {y} = {y}
      BY <2>7
    <3>. QED  BY <3>1, <3>2
  <2>9. y \in FilesAt(v) /\ Puts(v, d, y, short)
    BY <1>5, <2>7 DEF Puts
  <2>10. FilePut(v, q.vol, d, y, out, short)
    BY <2>2, <2>7, <2>8, <2>9 DEF FilePut
  <2>. QED  BY <2>1, <2>3, <2>5, <2>10 DEF PutOrThrown
<1>. QED  BY <1>3, <1>4, <1>5

LEMMA WriteFileOutcome ==
    ASSUME NEW v, Volume(v), NEW to, Settled(v, to), NEW d \in DirsOf(v),
           NEW name, name.stem \in Names \ {".", ".."}, NEW size \in Nat, NEW version
    PROVE  \E short : PutOrThrown(v, WriteFile(v, d, name, size, version), d, short)
<1> DEFINE old == Existing(v, d, name, "file")
           p == Head(old)
           u == IF old # << >> THEN FreeChain(v, EntryAt(v, p).first) ELSE v
           short == IF old # << >> THEN EntryAt(u, p).name ELSE ShortName(name, Taken(u, d))
           n == Pieces(size)
           r == WriteFile(v, d, name, size, version)
<1>1. r = NewFile(u, d, old, name, size, version)
  BY DEF WriteFile
<1>2. r = IF n > Space(u) THEN Thrown(u) ELSE Entered(WithPieces(u, n, version), d, old, short, size)
  BY <1>1 DEF NewFile, Space
<1>3. Volume(u)
  BY FreeChainKeeps
<1>4. old = << >> => u = v /\ short[1] \notin {".", ".."} /\ Fresh(v, d, short)
  <2>0. SUFFICES ASSUME old = << >> PROVE u = v /\ short[1] \notin {".", ".."} /\ Fresh(v, d, short)
    OBVIOUS
  <2>1. u = v /\ short = ShortName(name, Taken(v, d))
    BY <2>0
  <2>2. ShortName(name, Taken(v, d)) \notin Taken(v, d) /\ ShortName(name, Taken(v, d))[1] = name.stem
    BY ShortNameGives
  <2> HIDE DEF old, u, short
  <2>3. short \notin Taken(v, d) /\ short[1] \notin {".", ".."}
    BY <2>1, <2>2
  <2>. QED  BY <2>1, <2>3, NotTaken
<1>5. old # << >> => /\ p \in FilesAt(v) /\ p[1] \in Area(v, d) /\ u = FreeChain(v, EntryAt(v, p).first)
                     /\ short = EntryAt(v, p).name /\ short[1] \notin {".", ".."}
  <2>0. SUFFICES ASSUME old # << >>
                 PROVE  /\ p \in FilesAt(v) /\ p[1] \in Area(v, d) /\ u = FreeChain(v, EntryAt(v, p).first)
                        /\ short = EntryAt(v, p).name /\ short[1] \notin {".", ".."}
    OBVIOUS
  <2>1. p \in Shown(v) /\ p[1] \in Area(v, d) /\ EntryAt(v, p).kind = "file"
        /\ IsName(name, EntryAt(v, p).name)
    BY <2>0, FoundIsShown
  <2>2. u = FreeChain(v, EntryAt(v, p).first) /\ short = EntryAt(u, p).name
    BY <2>0
  <2> HIDE DEF old, p, u, short
  <2>3. p \in Shown(v) \ ShownDirs(v)
    BY <2>1 DEF ShownDirs
  <2>4. Alike(v, u)
    BY <2>2, <2>3, WholeFrees
  <2>5. short = EntryAt(v, p).name
    BY <2>1, <2>2, <2>4 DEF Alike
  <2>6. short[1] \notin {".", ".."}
    BY <2>1, <2>5 DEF IsName
  <2>. QED  BY <2>1, <2>2, <2>3, <2>5, <2>6 DEF FilesAt
<1> HIDE DEF old, u, short, r, n
<1>6. PutOrThrown(v, r, d, short)
  BY <1>2, <1>3, <1>4, <1>5, NewFileOutcome DEF n
<1>. QED  BY <1>6 DEF r

----------------------------------------------------------------------------
(* No two entries of a directory have one name, and nothing that is kept   *)
(* comes to another directory.                                             *)
NamesApart(v) ==
    \A d \in DirsOf(v) : \A p, q \in SeenIn(v, d) : EntryAt(v, p).name = EntryAt(v, q).name => p = q
\* The directories of v are some of those of w, with all their clusters.
Within(v, w) == DirsOf(v) \subseteq DirsOf(w) /\ AreasKept(v, w)

LEMMA HomeSame ==
    ASSUME NEW v, NEW to, Settled(v, to), NEW w, NEW more, Settled(w, more), Within(v, w),
           NEW p \in Shown(v), NEW d \in DirsOf(w), p[1] \in Area(w, d)
    PROVE  d \in DirsOf(v) /\ p[1] \in Area(v, d)
<1>1. PICK e \in DirsOf(v) : p[1] \in Area(v, e)
  BY DEF Settled, Whole, Arranged, Homes
<1>2. e \in DirsOf(w) /\ p[1] \in Area(w, e)
  BY <1>1 DEF Within, AreasKept
<1>3. e = d
  BY <1>2, AreasApart DEF Settled
<1>. QED  BY <1>1, <1>3

\* Entries that are shown in w are in v, under the same name.
NoneNew(v, w, s) == \A q \in Shown(w) : q \in s \/ (q \in Shown(v) /\ EntryAt(w, q).name = EntryAt(v, q).name)
LEMMA NamesKept ==
    ASSUME NEW v, NEW to, Settled(v, to), NEW w, NEW more, Settled(w, more), Within(v, w),
           NamesApart(v), NoneNew(v, w, {})
    PROVE  NamesApart(w)
<1>1. ASSUME NEW d \in DirsOf(w), NEW p \in SeenIn(w, d) PROVE d \in DirsOf(v) /\ p \in SeenIn(v, d)
  BY HomeSame DEF SeenIn, NoneNew
<1>. QED  BY <1>1 DEF NamesApart, NoneNew, SeenIn

\* Only p is new, or has been rewritten, and nothing else in its directory has its name.
OnlyOne(v, d, p, short) == \A q \in SeenIn(v, d) : q = p \/ EntryAt(v, q).name # short
LEMMA NamesGrow ==
    ASSUME NEW v, NEW to, Settled(v, to), NEW w, NEW more, Settled(w, more), Within(v, w),
           NamesApart(v), NEW p, NoneNew(v, w, {p}), NEW d \in DirsOf(v), p[1] \in Area(w, d),
           OnlyOne(v, d, p, EntryAt(w, p).name)
    PROVE  NamesApart(w)
<1>1. d \in DirsOf(w)
  BY DEF Within
<1>2. ASSUME NEW e \in DirsOf(w), NEW q \in SeenIn(w, e), q # p
      PROVE  e \in DirsOf(v) /\ q \in SeenIn(v, e) /\ EntryAt(w, q).name = EntryAt(v, q).name
  BY <1>2, HomeSame DEF SeenIn, NoneNew
<1>3. ASSUME NEW e \in DirsOf(w), p \in SeenIn(w, e) PROVE e = d
  BY <1>1, <1>3, AreasApart DEF SeenIn, Settled
<1>4. ASSUME NEW e \in DirsOf(w), NEW q \in SeenIn(w, e), p \in SeenIn(w, e), q # p
      PROVE  EntryAt(w, q).name # EntryAt(w, p).name
  BY <1>2, <1>3, <1>4 DEF OnlyOne
<1>5. ASSUME NEW e \in DirsOf(w), NEW q \in SeenIn(w, e), NEW r \in SeenIn(w, e),
             EntryAt(w, q).name = EntryAt(w, r).name
      PROVE  q = r
  <2>1. CASE q = p
    BY <1>4, <1>5, <2>1
  <2>2. CASE r = p
    BY <1>4, <1>5, <2>2
  <2>3. CASE q # p /\ r # p
    BY <1>2, <1>5, <2>3 DEF NamesApart
  <2>. QED  BY <2>1, <2>2, <2>3
<1>. QED  BY <1>5 DEF NamesApart

LEMMA KeepsWithin ==
    ASSUME NEW v, NEW w, NEW out, NEW new, Keeps(v, w, out, new)
    PROVE  Within(v, w)
  BY DEF Keeps, Steady, Within

(* Writing and deleting a file leaves every directory's names apart.       *)
LEMMA PutNamesApart ==
    ASSUME NEW v, NEW to, Settled(v, to), NEW w, NEW more, Settled(w, more), SameDirs(v, w), NamesApart(v),
           NEW d \in DirsOf(v), NEW p, NEW out, NEW short, FilePut(v, w, d, p, out, short)
    PROVE  NamesApart(w)
<1>1. Within(v, w) /\ p \in Shown(w) /\ p[1] \in Area(w, d) /\ EntryAt(w, p).name = short
  BY KeepsWithin DEF FilePut, Puts, FilesAt
<1>2. NoneNew(v, w, {p})
  <2>1. ASSUME NEW q \in Shown(w), q # p PROVE q \in Shown(v) \ out
    <3>1. CASE q \in ShownDirs(w)
      BY <3>1 DEF FilePut, Keeps, SameDirs, ShownDirs
    <3>2. CASE q \notin ShownDirs(w)
      BY <2>1, <3>2 DEF FilePut, Keeps, NoneBut, FilesAt
    <3>. QED  BY <3>1, <3>2
  <2>2. EntriesKept(v, w, out)
    BY DEF FilePut, Keeps
  <2>. QED  BY <2>1, <2>2 DEF NoneNew, EntriesKept
<1>3. OnlyOne(v, d, p, short)
  <2>1. CASE p \in FilesAt(v)
    <3>1. p \in SeenIn(v, d) /\ EntryAt(v, p).name = short
      BY <2>1 DEF FilePut, Puts, SeenIn, FilesAt
    <3>. QED  BY <3>1 DEF OnlyOne, NamesApart
  <2>2. CASE p \notin FilesAt(v)
    BY <2>2 DEF FilePut, Fresh, OnlyOne
  <2>. QED  BY <2>1, <2>2
<1>. QED  BY <1>1, <1>2, <1>3, NamesGrow

LEMMA DeleteNamesApart ==
    ASSUME NEW v, NEW to, Settled(v, to), NEW w, NEW more, Settled(w, more), SameDirs(v, w), NamesApart(v),
           NEW out, NEW new, new = {}, Keeps(v, w, out, new)
    PROVE  NamesApart(w)
<1>1. Within(v, w)
  BY KeepsWithin
<1>2. NoneNew(v, w, {})
  <2>1. ASSUME NEW q \in Shown(w) PROVE q \in Shown(v) \ out
    <3>1. CASE q \in ShownDirs(w)
      BY <3>1 DEF Keeps, SameDirs, ShownDirs
    <3>2. CASE q \notin ShownDirs(w)
      BY <3>2 DEF Keeps, NoneBut, FilesAt
    <3>. QED  BY <3>1, <3>2
  <2>2. EntriesKept(v, w, out)
    BY DEF Keeps
  <2>. QED  BY <2>1, <2>2 DEF NoneNew, EntriesKept
<1>. QED  BY <1>1, <1>2, NamesKept

----------------------------------------------------------------------------
(* A directory that is made takes nothing from any file, and its name is   *)
(* no other entry's.                                                       *)
DirEntered(v, w, p) == \A q \in Slots : q = p \/ EntryAt(w, q) = EntryAt(v, q)
LEMMA DirEntryLeaves ==
    ASSUME NEW v, NEW w, w.fat = v.fat, NEW p \in Slots, p \notin Shown(v), DirEntered(v, w, p),
           EntryAt(w, p).kind = "dir",
           \A x \in Clusters : w.content[x].piece = v.content[x].piece,
           DirsOf(v) \subseteq DirsOf(w)
    PROVE  Keeps(v, w, {}, {})
<1>1. \A d : Chain(w, d) = Chain(v, d) /\ ClustersOf(w, d) = ClustersOf(v, d)
  BY SameFat
<1>2. AreasKept(v, w)
  BY <1>1 DEF AreasKept, Area
<1>3. NotCleared(v, w)
  BY DEF NotCleared, DirEntered
<1>4. \A q \in FilesAt(v) : ChainSame(v, w, q) /\ PiecesSame(v, w, q)
  BY <1>1, ClustersAre DEF ChainSame, PiecesSame
<1>5. EntriesKept(v, w, {})
  BY DEF EntriesKept, DirEntered, Shown
<1>6. NoneBut(v, w, {}, {})
  BY DEF NoneBut, DirEntered, Shown, FilesAt, ShownDirs
<1>. QED  BY <1>2, <1>3, <1>4, <1>5, <1>6 DEF Keeps, Steady

LEMMA DotPieces ==
    ASSUME NEW v, Volume(v), NEW c \in Clusters, NEW dots
    PROVE  LET w == [v EXCEPT !.content[c].entries = dots]
           IN  w.fat = v.fat /\ \A x \in Clusters : w.content[x].piece = v.content[x].piece
<1> DEFINE w == [v EXCEPT !.content[c].entries = dots]
<1>1. w.fat = v.fat /\ w.content = [v.content EXCEPT ![c].entries = dots]
  BY DEF Volume, HasFields
<1>2. \A x \in Clusters : x \in DOMAIN v.content /\ "piece" \in DOMAIN v.content[x]
  BY DEF Volume, FineContent, Clusters
<1> HIDE DEF w
<1>3. ASSUME NEW x \in Clusters PROVE w.content[x].piece = v.content[x].piece
  <2>1. CASE x = c
    <3>1. w.content[x] = [v.content[x] EXCEPT !.entries = dots]
      BY <1>1, <1>2, <2>1
    <3>. QED  BY <1>2, <3>1
  <2>2. CASE x # c
    BY <1>1, <1>2, <2>2
  <2>. QED  BY <2>1, <2>2
<1>. QED  BY <1>1, <1>3 DEF w

LEMMA DotsLeave ==
    ASSUME NEW v, NEW w, w.fat = v.fat, Alike(v, w), NEW c, NEW parent, Dotted(v, w, c, parent),
           AllNever(v, {c}), \A x \in Clusters : w.content[x].piece = v.content[x].piece
    PROVE  Keeps(v, w, {}, {})
<1>1. \A d : Chain(w, d) = Chain(v, d) /\ ClustersOf(w, d) = ClustersOf(v, d)
  BY SameFat
<1>2. AreasKept(v, w)
  BY <1>1 DEF AreasKept, Area
<1>3. NotCleared(v, w)
  BY DEF NotCleared, Dotted, AllNever
<1>4. \A q \in FilesAt(v) : ChainSame(v, w, q) /\ PiecesSame(v, w, q)
  BY <1>1, ClustersAre DEF ChainSame, PiecesSame
<1>5. Steady(v, w, {})
  BY <1>2, <1>3, <1>4 DEF Steady
<1>. QED  BY <1>5, AlikeKeeps

DirPut(v, w) == Keeps(v, w, {}, {}) /\ (NamesApart(v) => NamesApart(w))
LEMMA NewDirIsPut ==
    ASSUME NEW v, Volume(v), NEW to, Settled(v, to), NEW d \in DirsOf(v), Len(to[d].path) < Depth,
           NEW name, name.stem \in Names \ {".", ".."},
           NEW z, NEW c \in FreeClusters(v), Volume(z), z.fat = [v.fat EXCEPT ![c] = Eoc],
           z.content = [v.content EXCEPT ![c] = Zeroed],
           NEW short \in OnDrive, NamedFor(short, name), Fresh(v, d, short), FreeSlot(z, d).ok
    PROVE  LET x == WriteEntry(FreeSlot(z, d).vol, FreeSlot(z, d).got, Entry("dir", short, c, 0))
               w == [x EXCEPT !.content[c].entries = Dots(c, d)]
           IN  DirPut(v, w)
<1> DEFINE f == FreeSlot(z, d)
           u == f.vol
           e == Entry("dir", short, c, 0)
           x == WriteEntry(f.vol, f.got, e)
           w == [x EXCEPT !.content[c].entries = Dots(c, d)]
           more == [y \in DirsOf(v) \union {c} |->
                       IF y = c THEN [path |-> Append(to[d].path, short), up |-> d] ELSE to[y]]
           none == {}
<1> HIDE DEF none
<1>1. c \in Clusters /\ v.fat \in Fats /\ Whole(v, none, 0, to)
  BY DEF FreeClusters, Volume, Settled, none
<1>2. Blanked(v, z, c)
  <2>1. Zeroed.entries = [i \in 1..DirSlots |-> Never]
    BY DEF Zeroed, Holding
  <2>. QED  BY <1>1, <2>1, BlankedIs
<1>3. Whole(z, none, c, to) /\ Alike(v, z) /\ Chain(z, c) = <<c>>
  BY <1>1, <1>2, WholeTakes
<1>31. Keeps(v, z, none, none)
  BY <1>1, <1>2, <1>3, PiecesButIs, TakesKeeps
<1>4. DirsOf(z) = DirsOf(v)
  BY <1>3, AlikeGives
<1>5. Opened(z, f, d, none, c, to) /\ Keeps(z, u, none, none)
  <2>1. Whole(z, none, c, to) /\ d \in DirsOf(z)
    BY <1>3, <1>4
  <2>. QED  BY <2>1, FreeSlotOpens, FreeSlotKeeps
<1>6. Volume(u)
  BY FreeSlotGives
<1>7. ClustersOf(z, c) = {c}
  <2>1. Len(<<c>>) = 1 /\ <<c>>[1] = c /\ 1..1 = {1}
    OBVIOUS
  <2>. QED  BY <1>3, <2>1, ClustersAre
<1> HIDE DEF f
<1>8. /\ Whole(u, none, c, to) /\ Alike(z, u) /\ OpenAt(u, d, f.got)
      /\ \A p \in Slots : p[1] = c => EntryAt(u, p) = EntryAt(z, p)
  BY <1>5, <1>7 DEF Opened
<1>9. DirsOf(u) = DirsOf(v) /\ Alike(v, u)
  BY <1>3, <1>4, <1>8, AlikeGives, AlikeTwice
<1>10. Chain(u, c) = <<c>>
  BY <1>3, <1>5 DEF Opened
<1>11. ClustersOf(u, c) = {c}
  BY <1>5, <1>7 DEF Opened, ClustersOf
<1>12. AllNever(u, ClustersOf(u, c))
  BY <1>2, <1>8, <1>11 DEF AllNever, Blanked
<1>13. /\ e.kind = "dir" /\ e.name = short /\ e.first = c /\ e.size = 0
       /\ short[1] \notin {".", ".."}
  BY DEF Entry, NamedFor
<1> HIDE DEF e
<1>14. IsDirEntry(e, c) /\ FineEntry(e)
  BY <1>1, <1>13 DEF IsDirEntry, Shows, FineEntry
<1>15. f.got \in Slots /\ f.got[1] \in Area(u, d) /\ d \in DirsOf(u) /\ f.got \notin Shown(u)
  BY <1>8, OpenIs
<1>16. EntryWritten(u, x, f.got, e) /\ x.fat = u.fat /\ Volume(x)
  BY <1>6, <1>14, <1>15, WrittenIs, WriteEntryKeeps
<1>17. f.got[1] # c
  BY <1>8, <1>11, <1>15, OrphanApart
<1>18. Extended(u, to, more, c, d, e.name)
  <2>1. c \notin DirsOf(v)
    <3>1. c \in Area(v, c)
      BY <1>1, ClustersAre, NumberTypes DEF Area, Root
    <3>. QED  BY <1>1, <3>1, FreeUnseen
  <2>2. more[c] = [path |-> Append(to[d].path, short), up |-> d]
    OBVIOUS
  <2>3. \A y \in DirsOf(v) : more[y] = to[y]
    BY <2>1
  <2> HIDE DEF more
  <2>. QED  BY <1>9, <1>13, <2>2, <2>3 DEF Extended
<1>181. \A y \in Clusters : x.content[y].piece = u.content[y].piece
  BY <1>6, <1>15, EntryPieces
<1> HIDE DEF more, u, x
<1>19. Settled(x, more) /\ DirsOf(x) = DirsOf(u) \union {c} /\ c \notin DirsOf(u)
  BY <1>1, <1>8, <1>12, <1>14, <1>16, <1>18, DirWritten DEF none
<1>191. Keeps(u, x, none, none)
  <2>1. EntryAt(x, f.got).kind = "dir" /\ DirEntered(u, x, f.got)
    BY <1>13, <1>15, <1>16 DEF EntryWritten, DirEntered
  <2>. QED  BY <1>15, <1>16, <1>181, <1>19, <2>1, DirEntryLeaves DEF none
<1>20. Settled(w, more) /\ Alike(x, w) /\ Keeps(x, w, none, none)
  <2>1. Chain(x, c) = <<c>>
    BY <1>10, <1>16, SameFat
  <2>2. AllNever(x, {c})
    BY <1>11, <1>12, <1>16, <1>17 DEF AllNever, EntryWritten
  <2>3. Dotted(x, w, c, d)
    BY <1>1, <1>16, DottedIs
  <2>4. w.fat = x.fat /\ \A y \in Clusters : w.content[y].piece = x.content[y].piece
    BY <1>1, <1>16, DotPieces
  <2>5. c \in DirsOf(x) /\ c # Root
    BY <1>1, <1>19, NumberTypes DEF Root
  <2> HIDE DEF w
  <2>6. Settled(w, more) /\ Alike(x, w)
    BY <1>19, <2>1, <2>2, <2>3, <2>4, <2>5, DirDotted
  <2>. QED  BY <2>2, <2>3, <2>4, <2>6, DotsLeave DEF none
<1> HIDE DEF w
<1>21. Keeps(v, w, none, none)
  <2>1. none \union none = none
    OBVIOUS
  <2>2. Keeps(v, u, none, none)
    BY <1>31, <1>5, <2>1, KeepsTwice
  <2>3. Keeps(v, x, none, none)
    BY <1>191, <2>1, <2>2, KeepsTwice
  <2>. QED  BY <1>20, <2>1, <2>3, KeepsTwice
<1>22. ASSUME NamesApart(v) PROVE NamesApart(w)
  <2>1. EntryAt(w, f.got) = e /\ f.got \in Shown(x)
    BY <1>14, <1>15, <1>16, <1>20 DEF EntryWritten, Alike, Shown, IsDirEntry
  <2>2. NoneNew(v, w, {f.got})
    BY <1>9, <1>16, <1>20 DEF NoneNew, Alike, EntryWritten, Shown
  <2>3. f.got[1] \in Area(w, d)
    <3>1. Keeps(u, w, none, none)
      <4>1. none \union none = none
        OBVIOUS
      <4>. QED  BY <1>191, <1>20, <4>1, KeepsTwice
    <3>. QED  BY <1>15, <3>1 DEF Keeps, Steady, AreasKept
  <2>4. OnlyOne(v, d, f.got, EntryAt(w, f.got).name)
    BY <1>13, <2>1 DEF OnlyOne, Fresh
  <2>5. Within(v, w)
    BY <1>21, KeepsWithin
  <2>. QED  BY <1>20, <1>22, <2>2, <2>3, <2>4, <2>5, NamesGrow
<1>23. DirPut(v, w)
  BY <1>21, <1>22 DEF DirPut, none
<1>. QED  BY <1>23 DEF w, x, e, f, u

LEMMA TakenIsIntact ==
    ASSUME NEW v, Volume(v), NEW to, Settled(v, to), NEW c \in FreeClusters(v), NEW z,
           z.fat = [v.fat EXCEPT ![c] = Eoc], z.content = [v.content EXCEPT ![c] = Zeroed]
    PROVE  Intact(v, z)
<1> DEFINE none == {}
<1> HIDE DEF none
<1>1. c \in Clusters /\ v.fat \in Fats /\ Whole(v, none, 0, to)
  BY DEF FreeClusters, Volume, Settled, none
<1>2. Blanked(v, z, c)
  <2>1. Zeroed.entries = [i \in 1..DirSlots |-> Never]
    BY DEF Zeroed, Holding
  <2>. QED  BY <1>1, <2>1, BlankedIs
<1>3. Alike(v, z)
  BY <1>1, <1>2, WholeTakes
<1>4. Keeps(v, z, none, none)
  BY <1>1, <1>2, <1>3, PiecesButIs, TakesKeeps
<1>5. none = {}
  BY DEF none
<1>. QED  BY <1>3, <1>4, <1>5, KeptIsIntact

MkdirLeaves(v, r) == IF r.ok THEN DirPut(v, r.vol) ELSE Intact(v, r.vol)
LEMMA MkdirOutcome ==
    ASSUME NEW v, Volume(v), NEW to, Settled(v, to), NEW d \in DirsOf(v), Len(to[d].path) < Depth,
           NEW name, name.stem \in Names \ {".", ".."}
    PROVE  MkdirLeaves(v, Mkdir(v, d, name))
<1> DEFINE r == Mkdir(v, d, name)
           there == Existing(v, d, name, "dir")
           a == AllocCluster(v)
           c == a.got
           short == ShortName(name, Taken(v, d))
           z == [a.vol EXCEPT !.content[a.got] = Zeroed]
           f == FreeSlot(z, d)
           w == [WriteEntry(f.vol, f.got, Entry("dir", short, a.got, 0))
                    EXCEPT !.content[a.got].entries = Dots(a.got, d)]
<1>1. CASE there # << >>
  <2>1. r = Returned(v, EntryAt(v, Head(there)).first)
    BY <1>1 DEF Mkdir
  <2>2. r.vol = v /\ r.ok
    BY <2>1 DEF Returned
  <2> HIDE DEF r
  <2>3. DirPut(v, v)
    BY KeepsItself DEF DirPut
  <2>4. MkdirLeaves(v, r)
    BY <2>2, <2>3 DEF MkdirLeaves
  <2>. QED  BY <2>4 DEF r
<1>2. CASE there = << >> /\ ~a.ok
  <2>1. r = a
    BY <1>2 DEF Mkdir, Then
  <2>2. a = Thrown(v)
    BY <1>2, AllocClusterGives
  <2>3. r.vol = v /\ ~r.ok
    BY <2>1, <2>2 DEF Thrown
  <2> HIDE DEF r
  <2>4. MkdirLeaves(v, r)
    BY <2>3, AlikeItself DEF MkdirLeaves
  <2>. QED  BY <2>4 DEF r
<1>3. CASE there = << >> /\ a.ok
  <2>1. r = IF f.ok THEN Returned(w, c) ELSE f
    BY <1>3, MkdirIs
  <2>5. c \in FreeClusters(v) /\ Volume(a.vol) /\ a.vol = [v EXCEPT !.hint = c + 1, !.fat[c] = Eoc]
    <3>1. ~Thrown(v).ok
      BY DEF Thrown
    <3>2. a # Thrown(v)
      BY <1>3, <3>1
    <3>. QED  BY <3>2, AllocClusterGives
  <2>6. a.vol.fat = [v.fat EXCEPT ![c] = Eoc] /\ a.vol.content = v.content
    BY <2>5 DEF Volume, HasFields
  <2>7. c \in Clusters
    BY <2>5 DEF FreeClusters
  <2>2. f.ok => r.ok /\ r.vol = w
    <3>1. f.ok => r = Returned(w, c)
      BY <2>1
    <3> HIDE DEF w, c, f, r
    <3>. QED  BY <3>1 DEF Returned
  <2>3. ~f.ok => r = f
    BY <2>1
  <2> HIDE DEF a
  <2>8. /\ HasFields(z) /\ z.fat = a.vol.fat /\ z.hint = a.vol.hint
        /\ z.content = [a.vol.content EXCEPT ![c] = Zeroed]
    BY <2>5 DEF Volume, HasFields
  <2> HIDE DEF z, r
  <2>9. Volume(z)
    <3>1. FineContent(a.vol.content)
      BY <2>5 DEF Volume
    <3>2. FineContent(z.content)
      <4> DEFINE old == a.vol.content
                 new == z.content
      <4>1. FineContent(old) /\ new = [old EXCEPT ![c] = Zeroed] /\ c \in Clusters
        BY <2>7, <2>8, <3>1
      <4> HIDE DEF old, new, c
      <4>2. FineContent(new)
        BY <4>1, ZeroedKeeps
      <4>. QED  BY <4>2 DEF new
    <3>. QED  BY <2>5, <2>8, <3>2 DEF Volume
  <2>10. short \in OnDrive /\ NamedFor(short, name) /\ Fresh(v, d, short)
    BY ShortNameGives, NotTaken DEF NamedFor
  <2>11. z.fat = [v.fat EXCEPT ![c] = Eoc] /\ z.content = [v.content EXCEPT ![c] = Zeroed]
    BY <2>6, <2>8
  <2> HIDE DEF short, c
  <2>12. CASE f.ok
    <3>1. DirPut(v, w)
      BY <2>5, <2>9, <2>10, <2>11, <2>12, NewDirIsPut DEF c
    <3>. QED  BY <2>2, <2>12, <3>1 DEF MkdirLeaves, r
  <2>13. CASE ~f.ok
    <3>1. f.vol = z
      BY <2>9, <2>13, FreeSlotGives
    <3>2. Intact(v, z)
      BY <2>5, <2>11, TakenIsIntact
    <3> HIDE DEF f
    <3>. QED  BY <2>3, <2>13, <3>1, <3>2 DEF MkdirLeaves, r
  <2>. QED  BY <2>12, <2>13
<1>. QED  BY <1>1, <1>2, <1>3

(* A volume with more directories, and nothing else new.                   *)
Grew(v, to, w, more) ==
    /\ Settled(w, more) /\ NamesApart(w) /\ Keeps(v, w, {}, {}) /\ \A x \in DirsOf(v) : more[x] = to[x]
LEMMA GrewTwice ==
    ASSUME NEW u, NEW tu, NEW v, NEW tv, NEW w, NEW tw, Grew(u, tu, v, tv), Grew(v, tv, w, tw)
    PROVE  Grew(u, tu, w, tw)
<1>1. {} \union {} = {}
  OBVIOUS
<1>2. Keeps(u, w, {} \union {}, {} \union {})
  BY KeepsTwice DEF Grew
<1>3. DirsOf(u) \subseteq DirsOf(v)
  BY DEF Grew, Keeps
<1>. QED  BY <1>1, <1>2, <1>3 DEF Grew

LEMMA GrewItself ==
    ASSUME NEW v, NEW to, Settled(v, to), NamesApart(v)
    PROVE  Grew(v, to, v, to)
  BY KeepsItself DEF Grew

LEMMA MkdirGrows ==
    ASSUME NEW v, Volume(v), NEW to, Settled(v, to), NamesApart(v), NEW d \in DirsOf(v), Len(to[d].path) < Depth,
           NEW name, name.stem \in Names \ {".", ".."}, NEW more,
           Mkdir(v, d, name).ok, Made(v, Mkdir(v, d, name).vol, Mkdir(v, d, name).got, to, more, d, name)
    PROVE  Grew(v, to, Mkdir(v, d, name).vol, more)
<1>1. DirPut(v, Mkdir(v, d, name).vol)
  BY MkdirOutcome DEF MkdirLeaves
<1>. QED  BY <1>1 DEF DirPut, Grew, Made

(* The walk of an archive's path, and what it has made of v.               *)
Reaches(v, to, home, known, r, key) ==
    \E more : /\ Grew(v, to, r.vol, more) /\ Known(r.vol, more, home, r.got.known)
              /\ At(home, r.got.known, key, r.got.dir) /\ known \subseteq r.got.known
Strays(v, to, r) == \E x, more : Grew(v, to, x, more) /\ Intact(x, r.vol)
Goes(v, to, home, known, r, key) ==
    IF r.ok THEN Reaches(v, to, home, known, r, key) ELSE Strays(v, to, r)

LEMMA EnteringGoes ==
    ASSUME NEW u, NEW tu, NEW home, NEW known, NEW r, Volume(r.vol), r.ok => Directory(r.got),
           NEW key \in Seq(DirNames), Len(key) > 0, 2 + Len(key) <= Depth,
           Last(key).stem \in Names \ {".", ".."}, Goes(u, tu, home, known, r, Front(key))
    PROVE  Goes(u, tu, home, known, Entering(r, key), key)
<1> DEFINE was == Remembered(r.got.known, key)
           k == CHOOSE x \in was : TRUE
           m == Mkdir(r.vol, r.got.dir, Last(key))
           q == Entering(r, key)
<1>1. CASE ~r.ok
  <2>1. q = r
    BY <1>1 DEF Entering
  <2>. QED  BY <1>1, <2>1 DEF Goes
<1>2. CASE r.ok
  <2>1. PICK to : /\ Grew(u, tu, r.vol, to) /\ Known(r.vol, to, home, r.got.known)
                  /\ At(home, r.got.known, Front(key), r.got.dir) /\ known \subseteq r.got.known
    BY <1>2 DEF Goes, Reaches
  <2>20. Settled(r.vol, to) /\ NamesApart(r.vol)
    BY <2>1 DEF Grew
  <2>2. {"dir", "known"} \subseteq DOMAIN r.got
    BY <1>2 DEF Directory
  <2>3. CASE was # {}
    <3>1. q = Returned(r.vol, [r.got EXCEPT !.dir = k.dir])
      BY <1>2, <2>3 DEF Entering
    <3>2. q.ok /\ q.vol = r.vol /\ q.got = [r.got EXCEPT !.dir = k.dir]
      BY <3>1 DEF Returned
    <3>3. k \in r.got.known /\ k.path = key
      BY <2>3 DEF Remembered
    <3> HIDE DEF k, q
    <3>4. q.got.known = r.got.known /\ q.got.dir = k.dir
      BY <2>2, <3>2
    <3>5. At(home, q.got.known, key, q.got.dir)
      BY <3>3, <3>4 DEF At
    <3>6. Goes(u, tu, home, known, q, key)
      BY <2>1, <3>2, <3>4, <3>5 DEF Goes, Reaches
    <3>. QED  BY <3>6 DEF q
  <2>30. r.got.dir \in DirsOf(r.vol) /\ Len(to[r.got.dir].path) < Depth
    <3> DEFINE d == r.got.dir
    <3>1. d \in DirsOf(r.vol) /\ Len(to[d].path) = 2 + Len(Front(key))
      BY <2>1, AtIs
    <3>2. Len(key) \in Nat /\ Len(Front(key)) = Len(key) - 1
      <4> DEFINE n == Len(key)
      <4>1. n \in Nat /\ \A i \in 1..n : key[i] \in DirNames
        BY ElementOfSeq, LenProperties
      <4>2. Len(SubSeq(key, 1, n - 1)) = IF 1 <= n - 1 THEN (n - 1) - 1 + 1 ELSE 0
        BY <4>1, SubSeqProperties
      <4>3. Front(key) = SubSeq(key, 1, n - 1) /\ n > 0
        BY DEF Front
      <4> HIDE DEF n
      <4>4. Len(Front(key)) = n - 1
        BY <4>1, <4>2, <4>3
      <4>. QED  BY <4>1, <4>4 DEF n
    <3>3. Depth \in Nat
      BY DepthIsNat
    <3> HIDE DEF d
    <3>4. d \in DirsOf(r.vol) /\ Len(to[d].path) < Depth
      BY <3>1, <3>2, <3>3
    <3>. QED  BY <3>4 DEF d
  <2>4. CASE was = {} /\ ~m.ok
    <3>1. q = m
      BY <1>2, <2>4 DEF Entering, Then
    <3>2. Intact(r.vol, m.vol)
      BY <2>20, <2>30, <2>4, MkdirOutcome DEF MkdirLeaves
    <3> HIDE DEF m, q
    <3>3. Strays(u, tu, q)
      BY <2>1, <3>1, <3>2 DEF Strays
    <3>4. Goes(u, tu, home, known, q, key)
      BY <2>4, <3>1, <3>3 DEF Goes
    <3>. QED  BY <3>4 DEF q
  <2>5. CASE was = {} /\ m.ok
    <3> DEFINE all == r.got.known \union {[path |-> key, dir |-> m.got]}
               got == [dir |-> m.got, known |-> all]
               d == r.got.dir
               name == Last(key)
    <3>1. q = Returned(m.vol, got)
      BY <1>2, <2>5 DEF Entering, Then
    <3>2. q.ok /\ q.vol = m.vol /\ q.got = got
      BY <3>1 DEF Returned
    <3>3. q.got.dir = m.got /\ q.got.known = all
      BY <3>2
    <3>4. d \in DirsOf(r.vol) /\ Len(to[d].path) < Depth
      BY <2>30
    <3> HIDE DEF name
    <3>5. PICK more : Made(r.vol, m.vol, m.got, to, more, d, name) /\ Grew(r.vol, to, m.vol, more)
      <4>1. name.stem \in Names \ {".", ".."}
        BY DEF name
      <4>2. m = Mkdir(r.vol, d, name)
        BY DEF name
      <4> DEFINE v == r.vol
      <4> HIDE DEF d, m, v
      <4>3. /\ Volume(v) /\ Settled(v, to) /\ NamesApart(v) /\ d \in DirsOf(v) /\ m = Mkdir(v, d, name)
            /\ Len(to[d].path) < Depth
        BY <2>20, <3>4, <4>2 DEF v
      <4>4. PICK more : Made(v, m.vol, m.got, to, more, d, name)
        BY <2>5, <4>1, <4>3, MkdirMakes
      <4>5. Grew(v, to, m.vol, more)
        BY <2>5, <4>1, <4>3, <4>4, MkdirGrows
      <4>. QED  BY <4>4, <4>5 DEF v
    <3>6. \A x \in r.got.known : x.path # key
      BY <2>5 DEF Remembered
    <3> DEFINE v == r.vol
               w == m.vol
               c == m.got
               old == r.got.known
    <3>7. Known(w, more, home, all) /\ At(home, all, key, c)
      <4>1. /\ Known(v, to, home, old) /\ Settled(v, to) /\ (\A x \in old : x.path # key)
            /\ At(home, old, Front(key), d) /\ Made(v, w, c, to, more, d, Last(key))
        BY <2>1, <2>20, <3>5, <3>6 DEF name
      <4>2. all = old \union {[path |-> key, dir |-> c]}
        OBVIOUS
      <4> HIDE DEF v, w, c, old, d, all, m
      <4>. QED  BY <4>1, <4>2, KnownGrows
    <3>8. Grew(u, tu, w, more) /\ known \subseteq all
      BY <2>1, <3>5, GrewTwice
    <3> HIDE DEF all, q, m
    <3>9. Goes(u, tu, home, known, q, key)
      BY <3>2, <3>3, <3>7, <3>8 DEF Goes, Reaches
    <3>. QED  BY <3>9 DEF q
  <2>. QED  BY <2>3, <2>4, <2>5
<1>. QED  BY <1>1, <1>2

LEMMA InDirGoes ==
    ASSUME NEW v, Volume(v), Directory(job), NEW to, Settled(v, to), NamesApart(v),
           Known(v, to, job.dir, job.known), NEW path \in DirPaths
    PROVE  Goes(v, to, job.dir, job.known, InDir(v, path), path)
<1> DEFINE n == Len(path)
           home == job.dir
           known == job.known
           after == CHOOSE f : PathFrom(v, path, f, n)
           key(i) == SubSeq(path, 1, i)
           T == {i \in 0..n : Reached(v, after[i], i) /\ Goes(v, to, home, known, after[i], key(i))}
           Parts == {path[i] : i \in DOMAIN path}
<1>1. path \in Seq(Parts)
  BY PathAssumption
<1> HIDE DEF Parts
<1>2. n \in Nat /\ DOMAIN path = 1..n /\ 2 + n <= Depth /\ Depth \in Nat
  BY <1>1, DepthIsNat
<1>3. \A i \in 1..n : path[i].stem \in Names \ {".", ".."}
  <2>1. \A i \in 1..n : path[i] \in AllNames
    BY <1>2 DEF AllNames, DirNames
  <2>. QED  BY <2>1, NamesGiven
<1>4. key(0) = << >> /\ key(n) = path
  BY <1>1, <1>2, SubSeqEmpty, SubSeqFull
<1>5. PathFrom(v, path, after, n)
  BY <1>2, PathExists
<1>6. InDir(v, path) = after[n]
  BY DEF InDir, PathFrom, Entering, AtHome
<1> HIDE DEF after
<1>7. 0 \in T
  <2>1. after[0] = AtHome(v)
    BY <1>2, <1>5 DEF PathFrom
  <2>2. AtHome(v).ok /\ AtHome(v).vol = v /\ AtHome(v).got = [dir |-> job.dir, known |-> job.known]
    BY DEF AtHome, Returned
  <2>3. Space(v) \in Nat
    BY FreeFinite
  <2>4. Reached(v, after[0], 0)
    BY <2>1, <2>2, <2>3 DEF Reached, Directory
  <2> DEFINE r == after[0]
  <2>5. r.ok /\ r.vol = v /\ r.got.dir = job.dir /\ r.got.known = job.known
    BY <2>1, <2>2
  <2> HIDE DEF r
  <2>6. At(home, r.got.known, key(0), r.got.dir)
    BY <1>4, <2>5 DEF At
  <2> HIDE DEF key
  <2>7. Goes(v, to, home, known, r, key(0))
    BY <2>5, <2>6, GrewItself DEF Goes, Reaches
  <2>. QED  BY <1>2, <2>4, <2>7 DEF r
<1>8. ASSUME NEW i \in 0..(n - 1), i \in T PROVE i + 1 \in T
  <2> DEFINE j == i + 1
             k == key(j)
             r == after[i]
             q == after[j]
  <2>1. after[i + 1] = Entering(after[i], SubSeq(path, 1, i + 1))
    <3>1. i + 1 \in 0..n /\ i + 1 # 0 /\ (i + 1) - 1 = i
      BY <1>2
    <3> HIDE DEF n
    <3>. QED  BY <1>5, <3>1 DEF PathFrom
  <2>2. j \in 1..n /\ i \in Nat /\ j - 1 = i /\ j > 0 /\ 2 + j <= Depth
    BY <1>2
  <2>3. k \in Seq(DirNames) /\ Len(k) = j /\ Last(k) = path[j] /\ Front(k) = key(i)
    BY <2>2, KeysAre
  <2>4. Last(k).stem \in Names \ {".", ".."}
    BY <1>3, <2>2, <2>3
  <2>5. Reached(v, r, i) /\ Goes(v, to, home, known, r, key(i))
    BY <1>8
  <2>6. q = Entering(r, k)
    BY <2>1
  <2>7. Volume(r.vol) /\ (r.ok => Directory(r.got))
    BY <2>5 DEF Reached
  <2> HIDE DEF j, k, r, q, home, known
  <2>8. Goes(v, to, home, known, r, Front(k))
    BY <2>3, <2>5
  <2>9. Reached(v, q, i + 1)
    BY <2>2, <2>4, <2>5, <2>6, EnteringReaches
  <2>10. Len(k) > 0 /\ 2 + Len(k) <= Depth
    BY <2>2, <2>3
  <2>11. Goes(v, to, home, known, q, k)
    BY <2>3, <2>4, <2>6, <2>7, <2>8, <2>10, EnteringGoes
  <2>12. j \in 0..n /\ j = i + 1
    BY <2>2 DEF j
  <2>. QED  BY <2>9, <2>11, <2>12 DEF k, q
<1>9. \A i \in 0..n : i \in T
  <2> HIDE DEF T, n
  <2>. QED  BY <1>2, <1>7, <1>8, UpTo
<1>10. n \in T
  <2>1. n \in 0..n
    BY <1>2
  <2> HIDE DEF T, n
  <2>. QED  BY <1>9, <2>1
<1>11. Goes(v, to, home, known, after[n], key(n))
  BY <1>10
<1> HIDE DEF n, key
<1>. QED  BY <1>4, <1>6, <1>11

----------------------------------------------------------------------------
(* The files that are found, in terms of what is shown.                    *)
FileOf(v, to, d, p) ==
    [path |-> Append(to[d].path, EntryAt(v, p).name), size |-> EntryAt(v, p).size,
     data |-> ReadFile(v, EntryAt(v, p))]
IsFileOf(v, to, s, f) ==
    \E d \in DirsOf(v), p \in s : p \in FilesAt(v) /\ p[1] \in Area(v, d) /\ f = FileOf(v, to, d, p)

LEMMA FilesAre ==
    ASSUME NEW v, Volume(v), NEW to, Settled(v, to)
    PROVE  \A f : f \in Files(v) <=> IsFileOf(v, to, FilesAt(v), f)
<1>1. \A f : f \in Files(v) <=>
         \E m \in Tree(v) : m.entry.kind = "file" /\ f = [path |-> m.path, size |-> m.entry.size,
                                                          data |-> ReadFile(v, m.entry)]
  BY DEF Files
<1>2. \A m : m \in Tree(v) <=>
         \E d \in DirsOf(v), p \in Shown(v) : p[1] \in Area(v, d) /\ m = NodeOf(v, to, d, p)
  BY TreeIs
<1>3. \A d, p : LET m == NodeOf(v, to, d, p)
                IN  m.path = Append(to[d].path, EntryAt(v, p).name) /\ m.entry = EntryAt(v, p)
  BY DEF NodeOf
<1>4. \A p \in Shown(v) : p \in FilesAt(v) <=> EntryAt(v, p).kind = "file"
  BY DEF FilesAt, ShownDirs, Shown, Shows
<1>5. ASSUME NEW f, f \in Files(v) PROVE IsFileOf(v, to, FilesAt(v), f)
  <2>1. PICK m \in Tree(v) : m.entry.kind = "file" /\ f = [path |-> m.path, size |-> m.entry.size,
                                                          data |-> ReadFile(v, m.entry)]
    BY <1>1, <1>5
  <2>2. PICK d \in DirsOf(v), p \in Shown(v) : p[1] \in Area(v, d) /\ m = NodeOf(v, to, d, p)
    BY <1>2
  <2>3. m.path = Append(to[d].path, EntryAt(v, p).name) /\ m.entry = EntryAt(v, p)
    BY <1>3, <2>2
  <2>4. f = FileOf(v, to, d, p) /\ p \in FilesAt(v)
    BY <1>4, <2>1, <2>3 DEF FileOf
  <2>. QED  BY <2>2, <2>4 DEF IsFileOf
<1>6. ASSUME NEW f, IsFileOf(v, to, FilesAt(v), f) PROVE f \in Files(v)
  <2>1. PICK d \in DirsOf(v), p \in FilesAt(v) : p[1] \in Area(v, d) /\ f = FileOf(v, to, d, p)
    BY <1>6 DEF IsFileOf
  <2> DEFINE m == NodeOf(v, to, d, p)
  <2>2. m \in Tree(v)
    BY <1>2, <2>1 DEF FilesAt
  <2>3. m.path = Append(to[d].path, EntryAt(v, p).name) /\ m.entry = EntryAt(v, p)
    BY <1>3
  <2>4. p \in Shown(v)
    BY DEF FilesAt
  <2>5. m.entry.kind = "file"
    BY <1>4, <2>3, <2>4
  <2> HIDE DEF m
  <2>6. f = [path |-> m.path, size |-> m.entry.size, data |-> ReadFile(v, m.entry)]
    BY <2>1, <2>3 DEF FileOf
  <2>. QED  BY <1>1, <2>2, <2>5, <2>6
<1>. QED  BY <1>5, <1>6

LEMMA SizesAreNat ==
    ASSUME NEW size \in {0} \union AllSizes
    PROVE  size \in Nat /\ Pieces(size) \in Nat
<1>1. size \in Nat
  <2>1. CASE size \in UNION {{files[i].size : i \in DOMAIN files} : files \in Volumes}
    <3>1. PICK files \in Volumes : size \in {files[i].size : i \in DOMAIN files}
      BY <2>1
    <3>. QED  BY <3>1, FileAssumption
  <2>2. CASE size \in {0} \union Sizes
    BY <2>2, FileAssumption
  <2>. QED  BY <2>1, <2>2 DEF AllSizes
<1>. QED  BY <1>1 DEF Pieces

LEMMA LeastOfTwo ==
    ASSUME NEW a \in Nat, NEW b \in Nat
    PROVE  Min({a, b}) \in Nat /\ Min({a, b}) <= a
  BY DEF Min

LEMMA ReadSame ==
    ASSUME NEW v, NEW w, NEW p, EntryAt(v, p).size \in {0} \union AllSizes,
           ChainSame(v, w, p), PiecesSame(v, w, p)
    PROVE  ReadFile(w, EntryAt(v, p)) = ReadFile(v, EntryAt(v, p))
<1> DEFINE e == EntryAt(v, p)
           s == Chain(v, e.first)
           n == Min({Len(s), Pieces(e.size)})
<1>1. Len(s) \in Nat
  BY ChainGives
<1>2. n \in Nat /\ n <= Len(s)
  BY <1>1, SizesAreNat, LeastOfTwo
<1>3. \A i \in 1..Len(s) : s[i] \in ClustersOf(v, e.first)
  BY ClustersAre
<1>4. Chain(w, e.first) = s
  BY DEF ChainSame
<1>5. \A i \in 1..n : w.content[s[i]].piece = v.content[s[i]].piece
  BY <1>1, <1>2, <1>3 DEF PiecesSame
<1>6. ReadFile(v, e) = [i \in 1..n |-> v.content[s[i]].piece]
  BY DEF ReadFile
<1>7. ReadFile(w, e) = [i \in 1..n |-> w.content[s[i]].piece]
  BY <1>4 DEF ReadFile
<1> HIDE DEF e, s, n
<1>8. ReadFile(w, e) = ReadFile(v, e)
  BY <1>5, <1>6, <1>7
<1>. QED  BY <1>8 DEF e

(* A path leads to one directory, and to one entry.                        *)
LEMMA AppendSame ==
    ASSUME NEW S, NEW s \in Seq(S), NEW t \in Seq(S), NEW x \in S, NEW y \in S, Append(s, x) = Append(t, y)
    PROVE  s = t /\ x = y
<1>1. /\ Len(s) \in Nat /\ Len(t) \in Nat
      /\ Len(Append(s, x)) = Len(s) + 1 /\ Len(Append(t, y)) = Len(t) + 1
      /\ Append(s, x)[Len(s) + 1] = x /\ Append(t, y)[Len(t) + 1] = y
      /\ \A i \in 1..Len(s) : Append(s, x)[i] = s[i]
      /\ \A i \in 1..Len(t) : Append(t, y)[i] = t[i]
  BY AppendProperties, LenProperties
<1>2. Len(s) = Len(t) /\ x = y
  BY <1>1
<1>3. \A i \in 1..Len(s) : s[i] = t[i]
  BY <1>1, <1>2
<1>. QED  BY <1>2, <1>3, SeqEqual

LEMMA PathsFine ==
    ASSUME NEW v, Volume(v), NEW to, Settled(v, to)
    PROVE  /\ \A d \in DirsOf(v) : to[d].path \in Seq(OnDrive) /\ Len(to[d].path) \in 0..Depth
           /\ \A p \in Shown(v) : EntryAt(v, p).name \in OnDrive
           /\ to[Root].path = << >> /\ Root \in DirsOf(v)
<1>1. \A d \in DirsOf(v) : to[d].path \in Seq(OnDrive) /\ Len(to[d].path) <= Depth
  BY DEF Settled, Whole, Arranged, Nested
<1>2. \A p \in Shown(v) : EntryAt(v, p).name \in OnDrive
  BY SlotIsFine DEF Shown, FineEntry
<1>3. Depth \in Nat
  BY DepthIsNat
<1>4. \A d \in DirsOf(v) : Len(to[d].path) \in Nat
  BY <1>1, LenProperties
<1>5. to[Root].path = << >> /\ Root \in DirsOf(v)
  BY DEF Settled, Whole, Arranged, Nested, DirsOf
<1>. QED  BY <1>1, <1>2, <1>3, <1>4, <1>5

OnePathEach(v, to, n) ==
    \A d, e \in DirsOf(v) : Len(to[d].path) = n /\ to[d].path = to[e].path => d = e
LEMMA PathsApart ==
    ASSUME NEW v, Volume(v), NEW to, Settled(v, to), NamesApart(v),
           NEW d \in DirsOf(v), NEW e \in DirsOf(v), to[d].path = to[e].path
    PROVE  d = e
<1> DEFINE T == {n \in 0..Depth : OnePathEach(v, to, n)}
<1>1. Depth \in Nat
  BY DepthIsNat
<1>2. 0 \in T
  <2>1. ASSUME NEW a \in DirsOf(v), Len(to[a].path) = 0 PROVE a = Root
    <3>1. CASE a # Root
      BY <2>1, <3>1, DirIsShown
    <3>. QED  BY <3>1
  <2>. QED  BY <1>1, <2>1 DEF OnePathEach
<1>3. ASSUME NEW n \in 0..(Depth - 1), n \in T PROVE n + 1 \in T
  <2>1. ASSUME NEW a \in DirsOf(v), NEW b \in DirsOf(v), Len(to[a].path) = n + 1, to[a].path = to[b].path
        PROVE  a = b
    <3>1. a # Root /\ b # Root
      <4>1. Len(<< >>) = 0 /\ n + 1 # 0
        OBVIOUS
      <4>. QED  BY <2>1, <4>1, PathsFine
    <3>2. PICK x \in DirsOf(v), p \in ShownDirs(v) :
             /\ p \in Shown(v) /\ p[1] \in Area(v, x) /\ EntryAt(v, p).first = a
             /\ to[a].path = NodeOf(v, to, x, p).path
             /\ Len(to[a].path) = Len(to[x].path) + 1 /\ Len(to[x].path) \in Nat
      BY <3>1, DirIsShown
    <3>3. PICK y \in DirsOf(v), q \in ShownDirs(v) :
             /\ q \in Shown(v) /\ q[1] \in Area(v, y) /\ EntryAt(v, q).first = b
             /\ to[b].path = NodeOf(v, to, y, q).path
             /\ Len(to[b].path) = Len(to[y].path) + 1 /\ Len(to[y].path) \in Nat
      BY <3>1, DirIsShown
    <3>4. Append(to[x].path, EntryAt(v, p).name) = Append(to[y].path, EntryAt(v, q).name)
      BY <2>1, <3>2, <3>3 DEF NodeOf
    <3>5. to[x].path = to[y].path /\ EntryAt(v, p).name = EntryAt(v, q).name
      <4> DEFINE s == to[x].path
                 t == to[y].path
                 i == EntryAt(v, p).name
                 j == EntryAt(v, q).name
      <4>1. s \in Seq(OnDrive) /\ t \in Seq(OnDrive) /\ i \in OnDrive /\ j \in OnDrive /\ Append(s, i) = Append(t, j)
        BY <3>2, <3>3, <3>4, PathsFine
      <4> HIDE DEF s, t, i, j
      <4>2. s = t /\ i = j
        BY <4>1, AppendSame
      <4>. QED  BY <4>2 DEF s, t, i, j
    <3>6. Len(to[x].path) = n
      BY <2>1, <3>2
    <3>7. x = y
      BY <1>3, <3>5, <3>6 DEF OnePathEach
    <3>8. p = q
      BY <3>2, <3>3, <3>5, <3>7 DEF NamesApart, SeenIn
    <3>. QED  BY <3>2, <3>3, <3>8
  <2>2. n + 1 \in 0..Depth
    BY <1>1
  <2>. QED  BY <2>1, <2>2 DEF OnePathEach
<1>4. \A n \in 0..Depth : n \in T
  <2> HIDE DEF T
  <2>. QED  BY <1>1, <1>2, <1>3, UpTo
<1>5. Len(to[d].path) \in 0..Depth
  BY PathsFine
<1>. QED  BY <1>4, <1>5 DEF OnePathEach

LEMMA EntriesApart ==
    ASSUME NEW v, Volume(v), NEW to, Settled(v, to), NamesApart(v),
           NEW d \in DirsOf(v), NEW p \in SeenIn(v, d), NEW e \in DirsOf(v), NEW q \in SeenIn(v, e),
           Append(to[d].path, EntryAt(v, p).name) = Append(to[e].path, EntryAt(v, q).name)
    PROVE  d = e /\ p = q
<1>1. p \in Shown(v) /\ q \in Shown(v)
  BY DEF SeenIn
<1>2. to[d].path = to[e].path /\ EntryAt(v, p).name = EntryAt(v, q).name
  <2> DEFINE a == to[d].path
             b == to[e].path
             x == EntryAt(v, p).name
             y == EntryAt(v, q).name
  <2>1. a \in Seq(OnDrive) /\ b \in Seq(OnDrive) /\ x \in OnDrive /\ y \in OnDrive
    BY <1>1, PathsFine
  <2>2. Append(a, x) = Append(b, y)
    OBVIOUS
  <2> HIDE DEF a, b, x, y
  <2>3. a = b /\ x = y
    BY <2>1, <2>2, AppendSame
  <2>. QED  BY <2>3 DEF a, b, x, y
<1>3. d = e
  BY <1>2, PathsApart
<1>. QED  BY <1>2, <1>3 DEF NamesApart

----------------------------------------------------------------------------
(* What becomes of the files that are found.                               *)
SamePaths(v, to, more) == \A x \in DirsOf(v) : more[x] = to[x]
LEMMA FileKept ==
    ASSUME NEW v, Volume(v), NEW to, NEW w, NEW more, NEW out, NEW new, Keeps(v, w, out, new),
           SamePaths(v, to, more), NEW p \in FilesAt(v) \ out, NEW d \in DirsOf(v), p[1] \in Area(v, d)
    PROVE  /\ FileOf(w, more, d, p) = FileOf(v, to, d, p) /\ EntryAt(w, p) = EntryAt(v, p)
           /\ p \in FilesAt(w) /\ d \in DirsOf(w) /\ p[1] \in Area(w, d)
<1>1. EntryAt(w, p) = EntryAt(v, p) /\ p \in FilesAt(w)
  BY DEF Keeps, EntriesKept, FilesAt, ShownDirs
<1>2. d \in DirsOf(w) /\ p[1] \in Area(w, d)
  BY DEF Keeps, Steady, AreasKept
<1>3. EntryAt(v, p).size \in {0} \union AllSizes
  BY SlotIsFine DEF FilesAt, Shown, FineEntry
<1>4. ReadFile(w, EntryAt(v, p)) = ReadFile(v, EntryAt(v, p))
  BY <1>3, ReadSame DEF Keeps, Steady
<1>5. FileOf(w, more, d, p) = FileOf(v, to, d, p)
  BY <1>1, <1>4 DEF FileOf, SamePaths
<1>. QED  BY <1>1, <1>2, <1>5

LEMMA FilesAfter ==
    ASSUME NEW v, Volume(v), NEW to, Settled(v, to), NEW w, Volume(w), NEW more, Settled(w, more),
           NEW out, NEW new, Keeps(v, w, out, new), SamePaths(v, to, more)
    PROVE  \A f : f \in Files(w) <=>
              IsFileOf(v, to, FilesAt(v) \ out, f) \/ IsFileOf(w, more, new, f)
<1>0. \A f : f \in Files(w) <=> IsFileOf(w, more, FilesAt(w), f)
  BY FilesAre
<1>1. ASSUME NEW f, f \in Files(w)
      PROVE  IsFileOf(v, to, FilesAt(v) \ out, f) \/ IsFileOf(w, more, new, f)
  <2>1. PICK d \in DirsOf(w), p \in FilesAt(w) : p[1] \in Area(w, d) /\ f = FileOf(w, more, d, p)
    BY <1>0, <1>1 DEF IsFileOf
  <2>2. CASE p \in new
    BY <2>1, <2>2 DEF IsFileOf
  <2>3. CASE p \notin new
    <3>1. p \in FilesAt(v) \ out
      BY <2>3 DEF Keeps, NoneBut
    <3>2. d \in DirsOf(v) /\ p[1] \in Area(v, d)
      BY <2>1, <3>1, HomeSame, KeepsWithin DEF FilesAt
    <3>3. f = FileOf(v, to, d, p)
      BY <2>1, <3>1, <3>2, FileKept
    <3>. QED  BY <3>1, <3>2, <3>3 DEF IsFileOf
  <2>. QED  BY <2>2, <2>3
<1>2. ASSUME NEW f, IsFileOf(v, to, FilesAt(v) \ out, f) PROVE f \in Files(w)
  <2>1. PICK d \in DirsOf(v), p \in FilesAt(v) \ out : p[1] \in Area(v, d) /\ f = FileOf(v, to, d, p)
    BY <1>2 DEF IsFileOf
  <2>2. FileOf(w, more, d, p) = f /\ p \in FilesAt(w) /\ d \in DirsOf(w) /\ p[1] \in Area(w, d)
    BY <2>1, FileKept
  <2>. QED  BY <1>0, <2>2 DEF IsFileOf
<1>3. ASSUME NEW f, IsFileOf(w, more, new, f) PROVE f \in Files(w)
  BY <1>0, <1>3 DEF IsFileOf
<1>. QED  BY <1>1, <1>2, <1>3

(* No file is another when only directories are made.                      *)
LEMMA NoneIsFile ==
    ASSUME NEW v, NEW to, NEW none, none = {}, NEW f
    PROVE  ~IsFileOf(v, to, none, f) /\ FilesAt(v) \ none = FilesAt(v)
  BY DEF IsFileOf

LEMMA GrewSameFiles ==
    ASSUME NEW v, Volume(v), NEW to, Settled(v, to), NEW w, Volume(w), NEW more, Grew(v, to, w, more)
    PROVE  Files(w) = Files(v)
<1> DEFINE none == {}
<1>1. Keeps(v, w, none, none) /\ none = {} /\ Settled(w, more) /\ SamePaths(v, to, more)
  BY DEF Grew, SamePaths
<1> HIDE DEF none
<1>2. \A f : f \in Files(w) <=> IsFileOf(v, to, FilesAt(v) \ none, f) \/ IsFileOf(w, more, none, f)
  BY <1>1, FilesAfter
<1>3. \A f : f \in Files(v) <=> IsFileOf(v, to, FilesAt(v), f)
  BY FilesAre
<1>4. \A f : f \in Files(w) <=> f \in Files(v)
  BY <1>1, <1>2, <1>3, NoneIsFile
<1>. QED  BY <1>4

(* The files that are left when the one at p is taken out.                 *)
LEMMA TakenOut ==
    ASSUME NEW v, Volume(v), NEW to, Settled(v, to), NamesApart(v),
           NEW p \in FilesAt(v), NEW d \in DirsOf(v), p[1] \in Area(v, d), NEW out, out = {p}
    PROVE  \A f : IsFileOf(v, to, FilesAt(v) \ out, f) <=>
              f \in Files(v) /\ f.path # FileOf(v, to, d, p).path
<1>1. \A f : f \in Files(v) <=> IsFileOf(v, to, FilesAt(v), f)
  BY FilesAre
<1>2. \A q, e : FileOf(v, to, e, q).path = Append(to[e].path, EntryAt(v, q).name)
  BY DEF FileOf
<1>3. ASSUME NEW q \in FilesAt(v), NEW e \in DirsOf(v), q[1] \in Area(v, e),
             FileOf(v, to, e, q).path = FileOf(v, to, d, p).path
      PROVE  q = p
  <2>1. Append(to[e].path, EntryAt(v, q).name) = Append(to[d].path, EntryAt(v, p).name)
    BY <1>2, <1>3
  <2>2. q \in SeenIn(v, e) /\ p \in SeenIn(v, d)
    BY <1>3 DEF SeenIn, FilesAt
  <2>. QED  BY <2>1, <2>2, EntriesApart
<1>4. ASSUME NEW f, IsFileOf(v, to, FilesAt(v) \ out, f)
      PROVE  f \in Files(v) /\ f.path # FileOf(v, to, d, p).path
  <2>1. PICK e \in DirsOf(v), q \in FilesAt(v) \ out : q[1] \in Area(v, e) /\ f = FileOf(v, to, e, q)
    BY <1>4 DEF IsFileOf
  <2>2. f \in Files(v)
    BY <1>1, <2>1 DEF IsFileOf
  <2>3. q # p
    OBVIOUS
  <2>. QED  BY <1>3, <2>1, <2>2, <2>3
<1>5. ASSUME NEW f, f \in Files(v), f.path # FileOf(v, to, d, p).path
      PROVE  IsFileOf(v, to, FilesAt(v) \ out, f)
  <2>1. PICK e \in DirsOf(v), q \in FilesAt(v) : q[1] \in Area(v, e) /\ f = FileOf(v, to, e, q)
    BY <1>1, <1>5 DEF IsFileOf
  <2>2. CASE q = p
    <3>1. Append(to[e].path, EntryAt(v, q).name) = Append(to[d].path, EntryAt(v, p).name)
      <4>1. e = d
        BY <2>1, <2>2, AreasApart DEF Settled
      <4>. QED  BY <2>2, <4>1
    <3>. QED  BY <1>2, <1>5, <2>1, <3>1
  <2>3. CASE q # p
    BY <2>1, <2>3 DEF IsFileOf
  <2>. QED  BY <2>2, <2>3
<1>. QED  BY <1>4, <1>5

LEMMA PutFiles ==
    ASSUME NEW v, Volume(v), NEW to, Settled(v, to), NamesApart(v), NEW w, Volume(w), Settled(w, to),
           SameDirs(v, w), NEW d \in DirsOf(v), NEW p, NEW out, NEW short, FilePut(v, w, d, p, out, short)
    PROVE  LET f == FileOf(w, to, d, p)
           IN  /\ f.path = Append(to[d].path, short)
               /\ \A g : g \in Files(w) <=> (g \in Files(v) /\ g.path # f.path) \/ g = f
<1> DEFINE f == FileOf(w, to, d, p)
           new == {p}
<1>1. Keeps(v, w, out, new) /\ SamePaths(v, to, to) /\ p \in FilesAt(w) /\ p[1] \in Area(w, d)
      /\ EntryAt(w, p).name = short /\ d \in DirsOf(w)
  BY DEF FilePut, Puts, SamePaths, SameDirs
<1>2. NamesApart(w)
  BY PutNamesApart
<1>3. \A g : IsFileOf(w, to, new, g) <=> g = f
  <2>1. \A e \in DirsOf(w) : p[1] \in Area(w, e) => e = d
    BY <1>1, AreasApart DEF Settled
  <2>. QED  BY <1>1, <2>1 DEF IsFileOf
<1>4. f.path = Append(to[d].path, short)
  BY <1>1 DEF FileOf
<1> HIDE DEF f, new
<1>5. \A g : g \in Files(w) <=> IsFileOf(v, to, FilesAt(v) \ out, g) \/ IsFileOf(w, to, new, g)
  BY <1>1, FilesAfter
<1>6. \A g : IsFileOf(v, to, FilesAt(v) \ out, g) <=> g \in Files(v) /\ g.path # f.path
  <2>1. CASE p \in FilesAt(v)
    <3>1. out = {p} /\ p[1] \in Area(v, d) /\ EntryAt(v, p).name = short
      BY <2>1 DEF FilePut, Puts
    <3>2. FileOf(v, to, d, p).path = f.path
      BY <1>4, <3>1 DEF FileOf
    <3>3. \A g : IsFileOf(v, to, FilesAt(v) \ out, g) <=>
              g \in Files(v) /\ g.path # FileOf(v, to, d, p).path
      BY <2>1, <3>1, TakenOut
    <3>. QED  BY <3>2, <3>3
  <2>2. CASE p \notin FilesAt(v)
    <3>1. out = {}
      BY <2>2 DEF FilePut
    <3>2. \A g : g \in Files(v) <=> IsFileOf(v, to, FilesAt(v) \ out, g)
      BY <3>1, FilesAre, NoneIsFile
    <3>3. ASSUME NEW g, g \in Files(v) PROVE g.path # f.path
      <4>1. PICK e \in DirsOf(v), q \in FilesAt(v) \ out : q[1] \in Area(v, e) /\ g = FileOf(v, to, e, q)
        BY <3>2, <3>3 DEF IsFileOf
      <4>2. FileOf(w, to, e, q) = g /\ q \in FilesAt(w) /\ e \in DirsOf(w) /\ q[1] \in Area(w, e)
        BY <1>1, <4>1, FileKept
      <4>3. q \in SeenIn(w, e) /\ p \in SeenIn(w, d)
        BY <1>1, <4>2 DEF SeenIn, FilesAt
      <4>4. g.path = Append(to[e].path, EntryAt(w, q).name) /\ f.path = Append(to[d].path, EntryAt(w, p).name)
        BY <1>1, <1>4, <4>2 DEF FileOf
      <4>5. q # p
        BY <2>2, <4>1
      <4>. QED  BY <1>1, <1>2, <4>2, <4>3, <4>4, <4>5, EntriesApart
    <3>. QED  BY <3>2, <3>3
  <2>. QED  BY <2>1, <2>2
<1>7. \A g : g \in Files(w) <=> (g \in Files(v) /\ g.path # f.path) \/ g = f
  BY <1>3, <1>5, <1>6
<1>. QED  BY <1>4, <1>7 DEF f

LEMMA DeleteFiles ==
    ASSUME NEW v, Volume(v), NEW to, Settled(v, to), NamesApart(v), NEW w, Volume(w), Settled(w, to),
           NEW p \in FilesAt(v), NEW d \in DirsOf(v), p[1] \in Area(v, d),
           NEW out, out = {p}, NEW new, new = {}, Keeps(v, w, out, new)
    PROVE  LET f == FileOf(v, to, d, p)
           IN  f \in Files(v) /\ \A g : g \in Files(w) <=> g \in Files(v) /\ g.path # f.path
<1>1. \A g : g \in Files(w) <=> IsFileOf(v, to, FilesAt(v) \ out, g) \/ IsFileOf(w, to, new, g)
  BY FilesAfter DEF SamePaths
<1>2. \A g : ~IsFileOf(w, to, new, g)
  BY NoneIsFile
<1>3. \A g : IsFileOf(v, to, FilesAt(v) \ out, g) <=>
          g \in Files(v) /\ g.path # FileOf(v, to, d, p).path
  BY TakenOut
<1>4. FileOf(v, to, d, p) \in Files(v)
  BY FilesAre DEF IsFileOf
<1>. QED  BY <1>1, <1>2, <1>3, <1>4

(* The paths of what a job has put.                                        *)
PlacedThere(v, placed) ==
    \A k \in placed : k.dir \in DirsOf(v) /\ \E p \in Slots : Puts(v, k.dir, p, k.short)
PathOf(to, k) == Append(to[k.dir].path, k.short)
LEMMA TouchedAre ==
    ASSUME NEW v, Volume(v), NEW to, Settled(v, to), NamesApart(v), NEW placed, PlacedThere(v, placed)
    PROVE  \A x : x \in Found(v, placed).touched <=> \E k \in placed : x = PathOf(to, k)
<1> DEFINE reached == {m \in Tree(v) : \E k \in placed : k.dir = m.in /\ k.short = m.entry.name}
<1>1. Found(v, placed).touched = IF placed = {} THEN {} ELSE {m.path : m \in reached}
  BY DEF Found
<1>2. \A m : m \in Tree(v) <=>
         \E d \in DirsOf(v), p \in Shown(v) : p[1] \in Area(v, d) /\ m = NodeOf(v, to, d, p)
  BY TreeIs
<1>3. \A d, p : LET m == NodeOf(v, to, d, p)
                IN  /\ m.path = Append(to[d].path, EntryAt(v, p).name)
                    /\ m.in = d /\ m.entry = EntryAt(v, p)
  BY DEF NodeOf
<1>4. ASSUME NEW k \in placed
      PROVE  \E m \in reached : m.path = PathOf(to, k)
  <2>1. PICK p \in Slots : p \in Shown(v) /\ p[1] \in Area(v, k.dir) /\ EntryAt(v, p).name = k.short
    BY DEF PlacedThere, Puts, FilesAt
  <2>2. k.dir \in DirsOf(v)
    BY DEF PlacedThere
  <2> DEFINE d == k.dir
             m == NodeOf(v, to, d, p)
  <2>3. m \in Tree(v)
    BY <1>2, <2>1, <2>2
  <2>4. m.path = Append(to[d].path, EntryAt(v, p).name) /\ m.in = d /\ m.entry = EntryAt(v, p)
    BY <1>3
  <2> HIDE DEF m
  <2>5. m.in = k.dir /\ m.entry.name = k.short /\ m.path = PathOf(to, k)
    BY <2>1, <2>4 DEF PathOf
  <2>. QED  BY <2>3, <2>5
<1>5. ASSUME NEW m \in reached
      PROVE  \E k \in placed : m.path = PathOf(to, k)
  <2>1. PICK d \in DirsOf(v), p \in Shown(v) : p[1] \in Area(v, d) /\ m = NodeOf(v, to, d, p)
    BY <1>2
  <2>2. m.path = Append(to[d].path, EntryAt(v, p).name) /\ m.in = d /\ m.entry = EntryAt(v, p)
    BY <1>3, <2>1
  <2>3. PICK k \in placed : k.dir = m.in /\ k.short = m.entry.name
    OBVIOUS
  <2>. QED  BY <2>2, <2>3 DEF PathOf
<1> HIDE DEF reached
<1>. QED  BY <1>1, <1>4, <1>5

----------------------------------------------------------------------------
(* What is found when an import throws and its FAT is dropped.  u is the   *)
(* volume when the import began, y what is left, and the files at out have *)
(* been replaced.                                                          *)
Remains(u, y, out) ==
    /\ y.fat = u.fat /\ out \intersect ShownDirs(u) = {} /\ NotCleared(u, y)
    /\ \A p \in Shown(u) \ out : p \in Shown(y) /\ EntryAt(y, p) = EntryAt(u, p)
    /\ \A p \in FilesAt(u) \ out : PiecesSame(u, y, p)
    /\ \A d \in DirsOf(u) : \A p, q \in Shown(y) :
          p[1] \in Area(u, d) /\ q[1] \in Area(u, d) /\ EntryAt(y, p).name = EntryAt(y, q).name => p = q

LEMMA StillListed ==
    ASSUME NEW u, NEW tu, Settled(u, tu), NEW y, NEW out, Remains(u, y, out),
           NEW d \in DirsOf(u), NEW p \in SeenIn(u, d) \ out
    PROVE  p \in List(y, d)
<1>1. Places(y, d) = Places(u, d)
  BY SameFat DEF Places, Remains
<1>2. p \in List(u, d) /\ p \in Shown(u) /\ Shows(EntryAt(u, p))
  BY SeenIsListed DEF Settled, SeenIn, Shown
<1>3. PICK j \in DOMAIN Places(u, d) :
         /\ Places(u, d)[j] = p /\ \A k \in 1..j : EntryAt(u, Places(u, d)[k]).kind # "never"
  BY <1>2 DEF List, InUse
<1>4. d \in {Root} \union Clusters /\ Ends(u, d)
  BY DirFacts DEF Settled
<1>5. \A k \in 1..j : Places(u, d)[k] \in Slots /\ Places(u, d)[k][1] \in Area(u, d)
  BY <1>4, PlacesOf
<1>6. \A k \in 1..j : EntryAt(y, Places(u, d)[k]).kind # "never"
  BY <1>3, <1>5 DEF Remains, NotCleared
<1>7. EntryAt(y, p).kind # "deleted"
  BY <1>2 DEF Remains, Shows
<1>. QED  BY <1>1, <1>3, <1>6, <1>7 DEF List, InUse

LEMMA StillIn ==
    ASSUME NEW u, NEW tu, Settled(u, tu), NEW y, NEW out, Remains(u, y, out),
           NEW d \in DirsOf(u), NEW p \in SeenIn(u, d) \ out, NEW path, path = tu[d].path
    PROVE  NodeOf(u, tu, d, p) \in NodesIn(y, d, path)
<1>1. p \in List(y, d)
  BY StillListed
<1>2. EntryAt(y, p) = EntryAt(u, p) /\ EntryAt(u, p).name[1] \notin {".", ".."}
  BY DEF Remains, SeenIn, Shown, Shows
<1>. QED  BY <1>1, <1>2 DEF NodesIn, NodeOf

\* A file or directory that was there is where it was.
LEMMA StillThere ==
    ASSUME NEW u, NEW tu, Settled(u, tu), NEW y, NEW out, Remains(u, y, out), NEW level, Levels(y, level, Depth)
    PROVE  \A d \in DirsOf(u) : \A p \in SeenIn(u, d) \ out :
              Len(tu[d].path) \in 0..Depth => NodeOf(u, tu, d, p) \in level[Len(tu[d].path)]
<1> DEFINE At1(n) == \A d \in DirsOf(u) : \A p \in SeenIn(u, d) \ out :
                        Len(tu[d].path) = n => NodeOf(u, tu, d, p) \in level[n]
           T == {n \in 0..Depth : At1(n)}
<1>0. Depth \in Nat
  BY DepthIsNat
<1>1. 0 \in T
  <2>1. level[0] = NodesIn(y, Root, << >>)
    BY <1>0 DEF Levels
  <2>2. ASSUME NEW d \in DirsOf(u), NEW p \in SeenIn(u, d) \ out, Len(tu[d].path) = 0
        PROVE  NodeOf(u, tu, d, p) \in level[0]
    <3>1. d = Root
      <4>1. CASE d # Root
        BY <2>2, <4>1, DirIsShown
      <4>. QED  BY <4>1
    <3>2. tu[d].path = << >>
      BY <3>1 DEF Settled, Whole, Arranged, Nested
    <3>. QED  BY <2>1, <3>1, <3>2, StillIn
  <2>. QED  BY <1>0, <2>2
<1>2. ASSUME NEW n \in 0..(Depth - 1), n \in T PROVE n + 1 \in T
  <2>1. n + 1 \in 0..Depth /\ level[n + 1] = Below(y, level[n])
    BY <1>0 DEF Levels
  <2>2. ASSUME NEW d \in DirsOf(u), NEW p \in SeenIn(u, d) \ out, Len(tu[d].path) = n + 1
        PROVE  NodeOf(u, tu, d, p) \in level[n + 1]
    <3>1. d # Root
      <4>1. Len(<< >>) = 0 /\ tu[Root].path = << >>
        BY DEF Settled, Whole, Arranged, Nested
      <4>. QED  BY <2>2, <4>1
    <3>2. PICK e \in DirsOf(u), q \in ShownDirs(u) :
             /\ q \in Shown(u) /\ q[1] \in Area(u, e) /\ EntryAt(u, q).first = d /\ EntryAt(u, q).kind = "dir"
             /\ tu[d].path = NodeOf(u, tu, e, q).path
             /\ Len(tu[d].path) = Len(tu[e].path) + 1 /\ Len(tu[e].path) \in Nat
      BY <3>1, DirIsShown
    <3> DEFINE m == NodeOf(u, tu, e, q)
    <3>3. q \in SeenIn(u, e) \ out
      BY <3>2 DEF SeenIn, Remains
    <3>4. m \in level[n]
      BY <1>2, <2>2, <3>2, <3>3
    <3>5. m.entry = EntryAt(u, q) /\ m.path = tu[d].path
      BY <3>2 DEF NodeOf
    <3> HIDE DEF m
    <3>6. NodeOf(u, tu, d, p) \in NodesIn(y, d, m.path)
      BY <3>5, StillIn
    <3>. QED  BY <2>1, <3>2, <3>4, <3>5, <3>6 DEF Below
  <2>. QED  BY <2>1, <2>2
<1>3. \A n \in 0..Depth : n \in T
  <2> HIDE DEF T
  <2>. QED  BY <1>0, <1>1, <1>2, UpTo
<1>. QED  BY <1>3

LEMMA NodeGives ==
    ASSUME NEW y, Volume(y), NEW d, NEW path \in Seq(OnDrive), NEW m \in NodesIn(y, d, path)
    PROVE  /\ m.path \in Seq(OnDrive) /\ Len(m.path) = Len(path) + 1 /\ Len(path) \in Nat
           /\ \E q \in List(y, d) : /\ EntryAt(y, q).name[1] \notin {".", ".."} /\ m.in = d
                                    /\ m.entry = EntryAt(y, q) /\ EntryAt(y, q).name \in OnDrive
                                    /\ m = [path |-> Append(path, EntryAt(y, q).name), in |-> d, entry |-> EntryAt(y, q)]
                                    /\ m.path = Append(path, EntryAt(y, q).name)
<1>1. PICK q \in List(y, d) :
         /\ EntryAt(y, q).name[1] \notin {".", ".."}
         /\ m = [path |-> Append(path, EntryAt(y, q).name), in |-> d, entry |-> EntryAt(y, q)]
  BY DEF NodesIn
<1>2. PICK c \in 0..(N + 1) : \E s \in SlotsOf(c) : q = <<c, s>>
  BY Listed
<1>3. EntryAt(y, q).name \in OnDrive
  BY <1>2, EntryIsFine DEF FineEntry
<1> DEFINE name == EntryAt(y, q).name
<1>4. m.path = Append(path, name) /\ m.in = d /\ m.entry = EntryAt(y, q)
  BY <1>1
<1>5. /\ Append(path, name) \in Seq(OnDrive) /\ Len(Append(path, name)) = Len(path) + 1
      /\ Len(path) \in Nat
  BY <1>3, AppendProperties, LenProperties
<1>. QED  BY <1>1, <1>3, <1>4, <1>5

\* Nothing else is found under the name of an entry that was there.
LEMMA OnlyThat ==
    ASSUME NEW u, Volume(u), NEW tu, Settled(u, tu), NEW y, Volume(y), NEW out, Remains(u, y, out),
           NEW d \in DirsOf(u), NEW p \in SeenIn(u, d) \ out, NEW path, path = tu[d].path,
           NEW m \in NodesIn(y, d, path), m.path = NodeOf(u, tu, d, p).path
    PROVE  m = NodeOf(u, tu, d, p)
<1>1. path \in Seq(OnDrive) /\ p \in Shown(u) /\ EntryAt(u, p).name \in OnDrive
  BY PathsFine DEF SeenIn
<1>2. PICK q \in List(y, d) :
         /\ EntryAt(y, q).name[1] \notin {".", ".."} /\ EntryAt(y, q).name \in OnDrive
         /\ m.path = Append(path, EntryAt(y, q).name)
         /\ m = [path |-> Append(path, EntryAt(y, q).name), in |-> d, entry |-> EntryAt(y, q)]
  BY <1>1, NodeGives
<1>3. NodeOf(u, tu, d, p).path = Append(path, EntryAt(u, p).name)
  BY DEF NodeOf
<1>4. EntryAt(y, q).name = EntryAt(u, p).name
  <2> DEFINE i == EntryAt(u, p).name
             j == EntryAt(y, q).name
  <2>1. path \in Seq(OnDrive) /\ i \in OnDrive /\ j \in OnDrive /\ Append(path, j) = Append(path, i)
    BY <1>1, <1>2, <1>3
  <2> HIDE DEF i, j
  <2>2. j = i
    BY <2>1, AppendSame
  <2>. QED  BY <2>2 DEF i, j
<1>5. d \in {Root} \union Clusters /\ Ends(y, d) /\ Area(y, d) = Area(u, d)
  <2>1. d \in {Root} \union Clusters /\ Ends(u, d)
    BY DirFacts DEF Settled
  <2>2. y.fat = u.fat
    BY DEF Remains
  <2>. QED  BY <2>1, <2>2, SameFat DEF Area
<1>6. q \in Slots /\ q[1] \in Area(u, d) /\ q \in Shown(y)
  BY <1>2, <1>5, ListedIsSeen DEF Shown, Shows
<1>7. p \in Shown(y) /\ p[1] \in Area(u, d) /\ EntryAt(y, p) = EntryAt(u, p)
  BY DEF SeenIn, Remains
<1>8. p = q
  BY <1>4, <1>6, <1>7 DEF Remains
<1>. QED  BY <1>2, <1>7, <1>8 DEF NodeOf

LEMMA FoundThere ==
    ASSUME NEW u, Volume(u), NEW tu, Settled(u, tu), NEW y, Volume(y), NEW out, Remains(u, y, out),
           NEW level, Levels(y, level, Depth)
    PROVE  \A n \in 0..Depth : \A m \in level[n] : \A d \in DirsOf(u) : \A p \in SeenIn(u, d) \ out :
              m.path = NodeOf(u, tu, d, p).path => m = NodeOf(u, tu, d, p)
<1> DEFINE Long(n) == \A m \in level[n] : m.path \in Seq(OnDrive) /\ Len(m.path) = n + 1
           Is(n) == \A m \in level[n] : \A d \in DirsOf(u) : \A p \in SeenIn(u, d) \ out :
                       m.path = NodeOf(u, tu, d, p).path => m = NodeOf(u, tu, d, p)
           T == {n \in 0..Depth : Long(n) /\ Is(n)}
<1>0. Depth \in Nat
  BY DepthIsNat
<1>1. 0 \in T
  <2>1. level[0] = NodesIn(y, Root, << >>)
    BY <1>0 DEF Levels
  <2>2. << >> \in Seq(OnDrive) /\ Len(<< >>) = 0 /\ tu[Root].path = << >> /\ Root \in DirsOf(u)
    BY PathsFine
  <2>3. ASSUME NEW m \in level[0] PROVE m.path \in Seq(OnDrive) /\ Len(m.path) = 0 + 1
    <3> DEFINE path == << >>
               d == Root
    <3>1. path \in Seq(OnDrive) /\ m \in NodesIn(y, d, path)
      BY <2>1, <2>2
    <3>2. Len(path) = 0
      BY <2>2
    <3> HIDE DEF path, d
    <3>3. m.path \in Seq(OnDrive) /\ Len(m.path) = Len(path) + 1
      BY <3>1, NodeGives
    <3>. QED  BY <3>2, <3>3
  <2>4. ASSUME NEW m \in level[0], NEW d \in DirsOf(u), NEW p \in SeenIn(u, d) \ out,
               m.path = NodeOf(u, tu, d, p).path
        PROVE  m = NodeOf(u, tu, d, p)
    <3>1. NodeOf(u, tu, d, p).path = Append(tu[d].path, EntryAt(u, p).name)
      BY DEF NodeOf
    <3>2. tu[d].path \in Seq(OnDrive) /\ EntryAt(u, p).name \in OnDrive
      BY PathsFine DEF SeenIn
    <3>3. Len(tu[d].path) = 0
      <4>1. Len(Append(tu[d].path, EntryAt(u, p).name)) = Len(tu[d].path) + 1 /\ Len(tu[d].path) \in Nat
        BY <3>2, AppendProperties, LenProperties
      <4>. QED  BY <2>3, <2>4, <3>1, <4>1
    <3>4. d = Root
      <4>1. CASE d # Root
        BY <3>3, <4>1, DirIsShown
      <4>. QED  BY <4>1
    <3> DEFINE path == tu[d].path
    <3>5. m \in NodesIn(y, d, path)
      BY <2>1, <2>2, <3>4
    <3> HIDE DEF path
    <3>. QED  BY <2>4, <3>5, OnlyThat DEF path
  <2>. QED  BY <1>0, <2>3, <2>4
<1>2. ASSUME NEW n \in 0..(Depth - 1), n \in T PROVE n + 1 \in T
  <2>1. n + 1 \in 0..Depth /\ level[n + 1] = Below(y, level[n])
    BY <1>0 DEF Levels
  <2>2. ASSUME NEW m \in level[n + 1]
        PROVE  \E a \in level[n] : a.entry.kind = "dir" /\ m \in NodesIn(y, a.entry.first, a.path)
    BY <2>1 DEF Below
  <2>3. Long(n) /\ Is(n)
    BY <1>2
  <2>4. ASSUME NEW m \in level[n + 1]
        PROVE  m.path \in Seq(OnDrive) /\ Len(m.path) = (n + 1) + 1
    <3>1. PICK a \in level[n] : m \in NodesIn(y, a.entry.first, a.path)
      BY <2>2
    <3> DEFINE path == a.path
               e == a.entry.first
    <3>2. path \in Seq(OnDrive) /\ Len(path) = n + 1 /\ m \in NodesIn(y, e, path)
      BY <2>3, <3>1
    <3> HIDE DEF path, e
    <3>. QED  BY <3>2, NodeGives
  <2>5. ASSUME NEW m \in level[n + 1], NEW d \in DirsOf(u), NEW p \in SeenIn(u, d) \ out,
               m.path = NodeOf(u, tu, d, p).path
        PROVE  m = NodeOf(u, tu, d, p)
    <3>1. PICK a \in level[n] : a.entry.kind = "dir" /\ m \in NodesIn(y, a.entry.first, a.path)
      BY <2>2
    <3> DEFINE path == a.path
               c == a.entry.first
    <3>2. path \in Seq(OnDrive) /\ Len(path) = n + 1 /\ m \in NodesIn(y, c, path)
      BY <2>3, <3>1
    <3> HIDE DEF path, c
    <3>3. PICK q \in List(y, c) : EntryAt(y, q).name \in OnDrive /\ m.path = Append(path, EntryAt(y, q).name)
      BY <3>2, NodeGives
    <3>4. tu[d].path \in Seq(OnDrive) /\ EntryAt(u, p).name \in OnDrive
      BY PathsFine DEF SeenIn
    <3>5. NodeOf(u, tu, d, p).path = Append(tu[d].path, EntryAt(u, p).name)
      BY DEF NodeOf
    <3>6. path = tu[d].path
      <4> DEFINE t == tu[d].path
                 i == EntryAt(u, p).name
                 j == EntryAt(y, q).name
      <4>1. t \in Seq(OnDrive) /\ i \in OnDrive /\ j \in OnDrive /\ Append(path, j) = Append(t, i)
        BY <2>5, <3>3, <3>4, <3>5
      <4> HIDE DEF t, i, j
      <4>2. path = t
        BY <3>2, <4>1, AppendSame
      <4>. QED  BY <4>2 DEF t
    <3>7. d # Root
      <4>1. Len(<< >>) = 0 /\ tu[Root].path = << >>
        BY PathsFine
      <4>. QED  BY <3>2, <3>6, <4>1
    <3>8. PICK e \in DirsOf(u), x \in ShownDirs(u) :
             /\ x \in Shown(u) /\ x[1] \in Area(u, e) /\ EntryAt(u, x).first = d
             /\ tu[d].path = NodeOf(u, tu, e, x).path
      BY <3>7, DirIsShown
    <3>9. x \in SeenIn(u, e) \ out
      BY <3>8 DEF SeenIn, Remains
    <3>10. a = NodeOf(u, tu, e, x)
      BY <2>3, <3>6, <3>8, <3>9 DEF path
    <3>11. c = d
      BY <3>8, <3>10 DEF NodeOf, c
    <3>. QED  BY <2>5, <3>2, <3>6, <3>11, OnlyThat
  <2>. QED  BY <2>1, <2>4, <2>5
<1>3. \A n \in 0..Depth : n \in T
  <2> HIDE DEF T
  <2>. QED  BY <1>0, <1>1, <1>2, UpTo
<1>. QED  BY <1>3

LEMMA RemainsIs ==
    ASSUME NEW u, NEW tu, Settled(u, tu), NEW x, NEW out, NEW new, Keeps(u, x, out, new), NamesApart(x),
           NEW z, Intact(x, z), NEW y, y.fat = u.fat, y.content = z.content
    PROVE  Remains(u, y, out)
<1>1. \A p : EntryAt(y, p) = EntryAt(z, p)
  BY DEF EntryAt
<1>2. Shown(y) = Shown(x) /\ \A p \in Shown(x) : EntryAt(y, p) = EntryAt(x, p)
  BY <1>1 DEF Intact, Alike, Shown
<1>3. /\ out \intersect ShownDirs(u) = {} /\ DirsOf(u) \subseteq DirsOf(x)
      /\ \A p \in Shown(u) \ out : p \in Shown(x) /\ EntryAt(x, p) = EntryAt(u, p)
      /\ \A d \in DirsOf(u) : Area(u, d) \subseteq Area(x, d)
      /\ NotCleared(u, x)
      /\ \A p \in FilesAt(u) \ out : ChainSame(u, x, p) /\ PiecesSame(u, x, p)
  BY DEF Keeps, EntriesKept, Steady, AreasKept
<1>4. \A p \in Shown(u) \ out : p \in Shown(y) /\ EntryAt(y, p) = EntryAt(u, p)
  BY <1>2, <1>3
<1>5. NotCleared(u, y)
  <2>1. NotCleared(x, z)
    BY DEF Intact
  <2>. QED  BY <1>1, <1>3, <2>1 DEF NotCleared
<1>6. ASSUME NEW p \in FilesAt(u) \ out PROVE PiecesSame(u, y, p)
  <2>1. p \in FilesAt(x) /\ EntryAt(x, p) = EntryAt(u, p)
    BY <1>3 DEF FilesAt, ShownDirs
  <2>2. ChainSame(u, x, p) /\ PiecesSame(u, x, p) /\ PiecesSame(x, z, p)
    BY <1>3, <2>1 DEF Intact
  <2>3. ClustersOf(x, EntryAt(x, p).first) = ClustersOf(u, EntryAt(u, p).first)
    BY <2>1, <2>2 DEF ChainSame, ClustersOf
  <2>. QED  BY <2>2, <2>3 DEF PiecesSame
<1>7. ASSUME NEW d \in DirsOf(u), NEW p \in Shown(y), NEW q \in Shown(y), p[1] \in Area(u, d), q[1] \in Area(u, d),
             EntryAt(y, p).name = EntryAt(y, q).name
      PROVE  p = q
  <2>1. d \in DirsOf(x) /\ p \in SeenIn(x, d) /\ q \in SeenIn(x, d)
    BY <1>2, <1>3, <1>7 DEF SeenIn
  <2>. QED  BY <1>2, <1>7, <2>1 DEF NamesApart, SeenIn
<1>. QED  BY <1>3, <1>4, <1>5, <1>6, <1>7 DEF Remains

\* The files that the import has not put are all that can be found at their paths.
LEMMA FileRemains ==
    ASSUME NEW u, Volume(u), NEW tu, Settled(u, tu), NEW v, Volume(v), NEW to, Settled(v, to),
           NEW out, NEW new, Keeps(u, v, out, new), SamePaths(u, tu, to),
           NEW y, Volume(y), Remains(u, y, out),
           NEW d \in DirsOf(v), NEW p \in FilesAt(v) \ new, p[1] \in Area(v, d), NEW g, g = FileOf(v, to, d, p)
    PROVE  g \in Files(y) /\ \A f \in Files(y) : f.path = g.path => f = g
<1> DEFINE level == CHOOSE s : Levels(y, s, Depth)
           m == NodeOf(u, tu, d, p)
           n == Len(tu[d].path)
<1>1. p \in FilesAt(u) \ out /\ p \in Shown(u)
  BY DEF Keeps, NoneBut, FilesAt
<1>2. d \in DirsOf(u) /\ p[1] \in Area(u, d)
  BY <1>1, HomeSame, KeepsWithin
<1>3. g = FileOf(u, tu, d, p)
  BY <1>1, <1>2, FileKept
<1>4. p \in SeenIn(u, d) \ out /\ n \in 0..Depth
  BY <1>1, <1>2, PathsFine DEF SeenIn
<1>5. Levels(y, level, Depth)
  BY LevelsExist, DepthIsNat
<1>6. Tree(y) = UNION {level[i] : i \in 0..Depth}
  BY DEF Tree, Levels, NodesIn, Below
<1> HIDE DEF level
<1>7. m \in Tree(y)
  BY <1>2, <1>4, <1>5, <1>6, StillThere
<1>8. ASSUME NEW o \in Tree(y), o.path = m.path PROVE o = m
  <2>1. PICK i \in 0..Depth : o \in level[i]
    BY <1>6
  <2>. QED  BY <1>2, <1>4, <1>5, <1>8, <2>1, FoundThere
<1>9. m.path = Append(tu[d].path, EntryAt(u, p).name) /\ m.entry = EntryAt(u, p)
  BY DEF NodeOf
<1>10. m.entry.kind = "file"
  BY <1>1, <1>9 DEF FilesAt, ShownDirs, Shown, Shows
<1>11. ReadFile(y, EntryAt(u, p)) = ReadFile(u, EntryAt(u, p))
  <2>1. ChainSame(u, y, p) /\ PiecesSame(u, y, p)
    BY <1>1, SameFat DEF ChainSame, Remains
  <2>2. EntryAt(u, p).size \in {0} \union AllSizes
    BY <1>1, SlotIsFine DEF Shown, FineEntry
  <2>. QED  BY <2>1, <2>2, ReadSame
<1> HIDE DEF m, n
<1>12. g = [path |-> m.path, size |-> m.entry.size, data |-> ReadFile(y, m.entry)]
  BY <1>3, <1>9, <1>11 DEF FileOf
<1>13. g \in Files(y)
  BY <1>7, <1>10, <1>12 DEF Files
<1>14. ASSUME NEW f \in Files(y), f.path = g.path PROVE f = g
  <2>1. PICK o \in Tree(y) : f = [path |-> o.path, size |-> o.entry.size, data |-> ReadFile(y, o.entry)]
    BY DEF Files
  <2>2. o.path = m.path
    BY <1>12, <1>14, <2>1
  <2>. QED  BY <1>8, <1>12, <2>1, <2>2
<1>. QED  BY <1>13, <1>14

----------------------------------------------------------------------------
(* What was put stays where it was put.                                    *)
LEMMA PutsKept ==
    ASSUME NEW v, NEW w, NEW out, NEW new, Keeps(v, w, out, new), NEW d \in DirsOf(v),
           NEW p, NEW short, Puts(v, d, p, short), p \notin out
    PROVE  Puts(w, d, p, short) /\ d \in DirsOf(w)
  BY DEF Puts, Keeps, EntriesKept, Steady, AreasKept, FilesAt, ShownDirs

LEMMA PutsAgain ==
    ASSUME NEW v, NEW to, Settled(v, to), NEW w, NEW d \in DirsOf(v), NEW p, NEW out, NEW short,
           FilePut(v, w, d, p, out, short), NEW e \in DirsOf(v), NEW q, NEW s, Puts(v, e, q, s)
    PROVE  Puts(w, e, q, s) /\ e \in DirsOf(w)
<1> DEFINE new == {p}
<1>1. Keeps(v, w, out, new)
  BY DEF FilePut
<1> HIDE DEF new
<1>2. CASE q \notin out
  BY <1>1, <1>2, PutsKept
<1>3. CASE q \in out
  <2>1. p \in FilesAt(v) /\ out = {p} /\ Puts(v, d, p, short) /\ Puts(w, d, p, short)
    BY <1>3 DEF FilePut
  <2>2. q = p
    BY <1>3, <2>1
  <2>3. e = d /\ s = short
    <3>1. p[1] \in Area(v, d) /\ p[1] \in Area(v, e) /\ EntryAt(v, p).name = short /\ EntryAt(v, p).name = s
      BY <2>1, <2>2 DEF Puts
    <3>. QED  BY <3>1, AreasApart DEF Settled
  <2>. QED  BY <1>1, <2>1, <2>2, <2>3 DEF Keeps
<1>. QED  BY <1>2, <1>3

(* A volume with the same FAT and content.                                 *)
LEMMA SameGrew ==
    ASSUME NEW v, NEW w, NEW to, Settled(v, to), NamesApart(v), w.fat = v.fat, w.content = v.content
    PROVE  Grew(v, to, w, to)
<1>1. \A q : EntryAt(w, q) = EntryAt(v, q)
  BY DEF EntryAt
<1>2. \A d : Chain(w, d) = Chain(v, d) /\ Area(w, d) = Area(v, d)
  BY SameFat DEF Area
<1>3. Alike(v, w)
  BY <1>1 DEF Alike, Shown
<1>4. Settled(w, to) /\ DirsOf(w) = DirsOf(v)
  BY SameVolume
<1>5. NamesApart(w)
  BY <1>1, <1>2, <1>3, <1>4 DEF NamesApart, SeenIn, Alike
<1>6. Steady(v, w, {})
  BY <1>1, <1>2 DEF Steady, ChainSame, PiecesSame, AreasKept, NotCleared
<1>7. Keeps(v, w, {}, {})
  BY <1>3, <1>6, AlikeKeeps
<1>. QED  BY <1>4, <1>5, <1>7 DEF Grew

(* A file is deleted.                                                      *)
LEMMA NotNew ==
    ASSUME NEW v, NEW w, NEW out, NEW new, Keeps(v, w, out, new), \A p \in new : p \notin FilesAt(w),
           NEW none, none = {}
    PROVE  Keeps(v, w, out, none)
  BY DEF Keeps, NoneBut

LEMMA DeleteLeaves ==
    ASSUME NEW v, Volume(v), NEW to, Settled(v, to), NEW p \in Slots, EntryAt(v, p).kind = "file",
           NEW out, out = {p}, NEW none, none = {}
    PROVE  LET w == WriteEntry(FreeChain(v, EntryAt(v, p).first), p, Deleted)
           IN  Keeps(v, w, out, none) /\ p \in FilesAt(v)
<1> DEFINE u == FreeChain(v, EntryAt(v, p).first)
           w == WriteEntry(u, p, Deleted)
<1>1. p \in FilesAt(v)
  BY DEF Settled, Whole, Arranged, FilesNamed, ShownDirs, FilesAt
<1>2. Whole(u, {p}, 0, to) /\ Alike(v, u) /\ Keeps(v, u, out, out)
  BY <1>1, WholeFrees, FreesKeep DEF FilesAt
<1>3. Volume(u)
  BY FreeChainKeeps
<1> HIDE DEF u
<1>4. /\ EntryWritten(u, w, p, Deleted) /\ w.fat = u.fat
      /\ \A x \in Clusters : w.content[x].piece = u.content[x].piece
  BY <1>3, WrittenIs, EntryPieces
<1>5. Deleted.kind = "deleted" /\ ~Shows(Deleted)
  BY DEF Deleted, Entry, Shows
<1>6. p \in FilesAt(u)
  BY <1>1, <1>2, AlikeGives DEF FilesAt, Alike
<1> HIDE DEF w
<1>7. DirsOf(u) \subseteq DirsOf(w)
  BY <1>4, <1>6 DEF DirsOf, ShownDirs, Shown, EntryWritten, FilesAt
<1>8. Keeps(u, w, out, none)
  BY <1>4, <1>5, <1>6, <1>7, EntryLeaves DEF FilesAt
<1>9. Keeps(v, w, out, out)
  <2>1. out \union out = out /\ out \union none = out
    OBVIOUS
  <2>. QED  BY <1>2, <1>8, <2>1, KeepsTwice
<1>10. p \notin FilesAt(w)
  BY <1>4, <1>5 DEF EntryWritten, FilesAt, Shown
<1>11. \A q \in out : q \notin FilesAt(w)
  BY <1>10
<1>12. Keeps(v, w, out, none)
  BY <1>9, <1>11, NotNew
<1>. QED  BY <1>1, <1>12 DEF w, u

(* A new volume.                                                           *)
LEMMA FormattedNamesApart == NamesApart(Formatted)
<1> DEFINE v == Formatted
<1>1. \A p \in Slots : EntryAt(v, p).kind = "never"
  <2>1. Never.kind = "never"
    BY DEF Never, Entry
  <2>. QED  BY <2>1, FormattedIsEmpty
<1> HIDE DEF v
<1>2. Shown(v) = {}
  BY <1>1 DEF Shown, Shows
<1>3. NamesApart(v)
  BY <1>2 DEF NamesApart, SeenIn
<1>. QED  BY <1>3 DEF v

LEMMA WriteNamesApart ==
    ASSUME NEW v, Volume(v), NEW to, Settled(v, to), NamesApart(v), NEW d \in DirsOf(v),
           NEW name, name.stem \in Names \ {".", ".."}, NEW size \in Nat, NEW version,
           WriteFile(v, d, name, size, version).ok
    PROVE  NamesApart(WriteFile(v, d, name, size, version).vol)
<1> DEFINE r == WriteFile(v, d, name, size, version)
           w == r.vol
<1>1. Settled(w, to) /\ SameDirs(v, w)
  BY WriteFileSettles
<1>2. PICK short : PutOrThrown(v, r, d, short)
  BY WriteFileOutcome
<1>3. r.ok
  OBVIOUS
<1> HIDE DEF r
<1>4. PICK p, out : FilePut(v, w, d, p, out, short)
  BY <1>2, <1>3 DEF PutOrThrown
<1> HIDE DEF w
<1>5. NamesApart(w)
  BY <1>1, <1>4, PutNamesApart
<1>. QED  BY <1>5 DEF w, r

LEMMA FilledNamesApart ==
    ASSUME NEW files \in Volumes, Filled(files).ok
    PROVE  NamesApart(Filled(files).vol)
<1> DEFINE n == Len(files)
           with == CHOOSE f : FilledBy(files, f, n)
           Fine(r) == Volume(r.vol) /\ (r.ok => Settled(r.vol, AtRoot) /\ NamesApart(r.vol))
           T == {i \in 0..n : Fine(with[i])}
           Parts == {files[i] : i \in DOMAIN files}
<1>1. files \in Seq(Parts)
  BY FileAssumption
<1> HIDE DEF Parts
<1>2. n \in Nat /\ DOMAIN files = 1..n
  BY <1>1
<1>3. \A i \in 1..n : /\ files[i].size \in Nat \intersect AllSizes
                      /\ files[i].name.stem \in Names \ {".", ".."}
  <2>1. \A i \in 1..n : files[i].size \in Nat
    BY <1>2, FileAssumption
  <2>2. \A i \in 1..n : files[i].size \in AllSizes /\ files[i].name \in AllNames
    BY <1>2 DEF AllSizes, AllNames
  <2>. QED  BY <2>1, <2>2, NamesGiven
<1>4. FilledBy(files, with, n)
  BY <1>2, FillingExists
<1>5. Filled(files) = with[n]
  BY DEF Filled, FilledBy, Putting
<1> HIDE DEF with
<1>6. 0 \in T
  <2>1. with[0].vol = Formatted
    BY <1>2, <1>4 DEF FilledBy, Returned
  <2>. QED  BY <1>2, <2>1, FormattedIsVolume, FormattedIsSettled, FormattedNamesApart
<1>7. ASSUME NEW i \in 0..(n - 1), i \in T PROVE i + 1 \in T
  <2> DEFINE file == files[i + 1]
             v == with[i].vol
  <2>1. with[i + 1] = Putting(with[i], file)
    <3>1. i + 1 \in 0..n /\ i + 1 # 0 /\ (i + 1) - 1 = i
      BY <1>2
    <3> HIDE DEF n
    <3>. QED  BY <1>4, <3>1 DEF FilledBy
  <2>2. i + 1 \in 0..n /\ file.size \in Nat \intersect AllSizes /\ file.name.stem \in Names \ {".", ".."}
    BY <1>2, <1>3
  <2> DEFINE name == file.name
             size == file.size
  <2>3. Volume(v) /\ (with[i].ok => Settled(v, AtRoot) /\ NamesApart(v)) /\ Root \in DirsOf(v)
    BY <1>7 DEF DirsOf
  <2> HIDE DEF file, v
  <2>4. CASE with[i].ok
    <3>1. with[i + 1] = WriteFile(v, Root, name, size, 0)
      BY <2>1, <2>4 DEF Putting, v
    <3>2. name.stem \in Names \ {".", ".."} /\ size \in Nat \intersect AllSizes
      BY <2>2
    <3> HIDE DEF name, size
    <3>3. Volume(with[i + 1].vol)
      BY <2>3, <3>1, <3>2, WriteFileGives
    <3>4. with[i + 1].ok => Settled(with[i + 1].vol, AtRoot)
      BY <2>3, <2>4, <3>1, <3>2, WriteFileSettles
    <3>5. with[i + 1].ok => NamesApart(with[i + 1].vol)
      BY <2>3, <2>4, <3>1, <3>2, WriteNamesApart
    <3>. QED  BY <2>2, <3>3, <3>4, <3>5
  <2>5. CASE ~with[i].ok
    BY <1>7, <2>1, <2>2, <2>5 DEF Putting
  <2>. QED  BY <2>4, <2>5
<1>8. \A i \in 0..n : i \in T
  <2> HIDE DEF T, n
  <2>. QED  BY <1>2, <1>6, <1>7, UpTo
<1>. QED  BY <1>2, <1>5, <1>8

----------------------------------------------------------------------------
(* The invariant of the refinement: what is found is what is on the        *)
(* volume, and an import at work has changed only what it has put of the   *)
(* volume u on which it began, whose FAT is the one on the drive.          *)
Since(u, tu, v, to, out, new, placed) ==
    /\ Volume(u) /\ Settled(u, tu) /\ SamePaths(u, tu, to) /\ Keeps(u, v, out, new)
    /\ \A p \in new : \E k \in placed : Puts(v, k.dir, p, k.short)
Copies(v, fat, j) ==
    \E to, u, tu, out, new :
       /\ Settled(v, to) /\ NamesApart(v) /\ Known(v, to, j.dir, j.known) /\ PlacedThere(v, j.placed)
       /\ Since(u, tu, v, to, out, new, j.placed) /\ u.fat = fat
Rests(v) == \E to : Settled(v, to) /\ NamesApart(v)
TreeInv ==
    /\ found = Found(vol, job.placed)
    /\ job.step = "idle" => job.placed = {} /\ Rests(vol)
    /\ job.step = "copying" => Copies(vol, savedFat, job)

LEMMA FoundIs ==
    ASSUME NEW v, NEW placed
    PROVE  Found(v, placed).files = Files(v) /\ (placed = {} => Found(v, placed).touched = {})
  BY DEF Found

LEMMA OneFileEach ==
    ASSUME NEW v, Volume(v), NEW to, Settled(v, to), NamesApart(v), NEW f \in Files(v), NEW g \in Files(v), f.path = g.path
    PROVE  f = g
<1>1. PICK d \in DirsOf(v), p \in FilesAt(v) : p[1] \in Area(v, d) /\ f = FileOf(v, to, d, p)
  BY FilesAre DEF IsFileOf
<1>2. PICK e \in DirsOf(v), q \in FilesAt(v) : q[1] \in Area(v, e) /\ g = FileOf(v, to, e, q)
  BY FilesAre DEF IsFileOf
<1>3. Append(to[d].path, EntryAt(v, p).name) = Append(to[e].path, EntryAt(v, q).name)
  BY <1>1, <1>2 DEF FileOf
<1>4. p \in SeenIn(v, d) /\ q \in SeenIn(v, e)
  BY <1>1, <1>2 DEF SeenIn, FilesAt
<1>5. d = e /\ p = q
  BY <1>3, <1>4, EntriesApart
<1>. QED  BY <1>1, <1>2, <1>5

LEMMA InitTree == FatInit => TreeInv /\ ImplementsFileTree!Init
<1> SUFFICES ASSUME FatInit PROVE TreeInv /\ ImplementsFileTree!Init
  OBVIOUS
<1>1. PICK files \in Volumes :
         /\ Filled(files).ok
         /\ \/ vol = Filled(files).vol
            \/ LET games == Mkdir(Filled(files).vol, Root, Games) IN games.ok /\ vol = games.vol
  BY DEF FatInit
<1> DEFINE v == Filled(files).vol
           r == Mkdir(v, Root, Games)
           to == AtRoot
<1>2. Volume(v) /\ Settled(v, to) /\ NamesApart(v)
  BY <1>1, FilledIsVolume, FilledIsSettled, FilledNamesApart
<1>3. Rests(vol)
  <2>1. CASE vol = v
    BY <1>2, <2>1 DEF Rests
  <2>2. CASE r.ok /\ vol = r.vol
    <3>1. Root \in DirsOf(v)
      BY DEF DirsOf
    <3>2. Len(to[Root].path) < Depth
      <4>1. to[Root].path = << >>
        BY DEF AtRoot
      <4>2. Len(to[Root].path) = 0
        BY <4>1
      <4> HIDE DEF to
      <4>. QED  BY <4>2, DepthIsNat
    <3> HIDE DEF v, to
    <3>3. PICK more : Made(v, r.vol, r.got, to, more, Root, Games)
      BY <1>2, <2>2, <3>1, <3>2, NamesFine, MkdirMakes
    <3>4. Grew(v, to, r.vol, more)
      BY <1>2, <2>2, <3>1, <3>2, <3>3, NamesFine, MkdirGrows
    <3> HIDE DEF r
    <3>. QED  BY <2>2, <3>4 DEF Grew, Rests
  <2>. QED  BY <1>1, <2>1, <2>2
<1>4. job.step = "idle" /\ job.placed = {} /\ found = Found(vol, {}) /\ count.files = 0
  BY NoJobFields, NoJobPlaced DEF FatInit
<1>5. TreeInv
  BY <1>3, <1>4 DEF TreeInv
<1>6. Volume(vol)
  BY InitSpace DEF SpaceInv
<1>7. \A f, g \in Files(vol) : f.path = g.path => f = g
  BY <1>3, <1>6, OneFileEach DEF Rests
<1>8. found.files = Files(vol) /\ found.touched = {}
  BY <1>4, FoundIs
<1>9. ImplementsFileTree!Init
  BY <1>4, <1>7, <1>8 DEF ImplementsFileTree!Init
<1>. QED  BY <1>5, <1>9

----------------------------------------------------------------------------
(* An import that throws.                                                  *)
Untouched(v, placed) == {f \in Files(v) : f.path \notin Found(v, placed).touched}
LosesNone(v, placed, y) ==
    /\ Untouched(v, placed) \subseteq Files(y)
    /\ \A f \in Files(y), g \in Untouched(v, placed) : f.path = g.path => f = g

LEMMA NotPut ==
    ASSUME NEW v, Volume(v), NEW to, Settled(v, to), NamesApart(v), NEW placed, PlacedThere(v, placed),
           NEW u, NEW tu, NEW out, NEW new, Since(u, tu, v, to, out, new, placed),
           NEW d \in DirsOf(v), NEW p \in FilesAt(v), p[1] \in Area(v, d),
           FileOf(v, to, d, p).path \notin Found(v, placed).touched
    PROVE  p \notin new
<1> SUFFICES ASSUME p \in new PROVE FALSE
  OBVIOUS
<1>1. PICK k \in placed : Puts(v, k.dir, p, k.short)
  BY DEF Since
<1> DEFINE e == k.dir
           short == k.short
<1>2. e \in DirsOf(v) /\ p[1] \in Area(v, e) /\ EntryAt(v, p).name = short
  BY <1>1 DEF Puts, PlacedThere
<1>3. PathOf(to, k) = Append(to[e].path, short)
  BY DEF PathOf
<1> HIDE DEF e, short
<1>4. d = e
  BY <1>2, AreasApart DEF Settled
<1>5. FileOf(v, to, d, p).path = PathOf(to, k)
  BY <1>2, <1>3, <1>4 DEF FileOf
<1>. QED  BY <1>5, TouchedAre

LEMMA ThrowLosesNone ==
    ASSUME NEW v, Volume(v), NEW to, Settled(v, to), NamesApart(v), NEW placed, PlacedThere(v, placed),
           NEW u, NEW tu, NEW out, NEW new, Since(u, tu, v, to, out, new, placed),
           NEW r, Strays(v, to, r), NEW y, Volume(y), y.fat = u.fat, y.content = r.vol.content
    PROVE  LosesNone(v, placed, y)
<1>1. /\ Volume(u) /\ Settled(u, tu) /\ SamePaths(u, tu, to) /\ Keeps(u, v, out, new)
  BY DEF Since
<1>2. PICK x, more : Grew(v, to, x, more) /\ Intact(x, r.vol)
  BY DEF Strays
<1>3. Keeps(u, x, out, new)
  <2> DEFINE none == {}
  <2>1. Keeps(v, x, none, none) /\ out \union none = out /\ new \union none = new
    BY <1>2 DEF Grew
  <2> HIDE DEF none
  <2>2. Keeps(u, x, out \union none, new \union none)
    BY <1>1, <2>1, KeepsTwice
  <2>. QED  BY <2>1, <2>2
<1> DEFINE z == r.vol
<1>4. Intact(x, z) /\ y.content = z.content /\ NamesApart(x)
  BY <1>2 DEF Grew
<1> HIDE DEF z
<1>5. Remains(u, y, out)
  BY <1>1, <1>3, <1>4, RemainsIs
<1>6. ASSUME NEW g \in Untouched(v, placed)
      PROVE  g \in Files(y) /\ \A f \in Files(y) : f.path = g.path => f = g
  <2>1. g \in Files(v) /\ g.path \notin Found(v, placed).touched
    BY DEF Untouched
  <2>2. PICK d \in DirsOf(v), p \in FilesAt(v) : p[1] \in Area(v, d) /\ g = FileOf(v, to, d, p)
    BY <2>1, FilesAre DEF IsFileOf
  <2>3. p \notin new
    BY <2>1, <2>2, NotPut
  <2>. QED  BY <1>1, <1>5, <2>2, <2>3, FileRemains
<1>. QED  BY <1>6 DEF LosesNone

(* The steps of the abstract drive.                                        *)
LEMMA TreeStutters ==
    ASSUME found'.files = found.files, found'.touched = found.touched, count'.files = count.files,
           (job'.step = "failed") = (job.step = "failed")
    PROVE  [ImplementsFileTree!Next]_(ImplementsFileTree!vars)
  BY DEF ImplementsFileTree!vars

LEMMA TreeFails ==
    ASSUME found = Found(vol, job.placed), found' = Found(vol', {}), job'.step = "failed",
           LosesNone(vol, job.placed, vol'),
           count'.files = count.files \/ count'.files = count.files + 1
    PROVE  ImplementsFileTree!Next
<1> DEFINE old == ImplementsFileTree!Without(found.files, found.touched)
<1>1. old = Untouched(vol, job.placed)
  BY DEF Found, Untouched, ImplementsFileTree!Without
<1>2. found'.files = Files(vol') /\ found'.touched = {}
  BY DEF Found
<1>3. old \subseteq found'.files /\ \A f \in found'.files, g \in old : f.path = g.path => f = g
  BY <1>1, <1>2 DEF LosesNone
<1>4. ImplementsFileTree!Fail
  BY <1>2, <1>3 DEF ImplementsFileTree!Fail
<1>. QED  BY <1>4 DEF ImplementsFileTree!Next

----------------------------------------------------------------------------
(* The two directories an import begins with.                              *)
BeginsWith(r, v, to) ==
    IF r.ok THEN \E all : Grew(v, to, r.vol, all) /\ r.got \in DirsOf(r.vol) /\ Len(all[r.got].path) = 2
            ELSE Strays(v, to, r) /\ Volume(r.vol)

LEMMA TwoDirsBegin ==
    ASSUME NEW v, Volume(v), NEW to, Settled(v, to), NamesApart(v), NEW program \in Programs
    PROVE  BeginsWith(Then(Mkdir(v, Root, Games), LAMBDA w, games : Mkdir(w, games, program)), v, to)
<1> DEFINE a == Mkdir(v, Root, Games)
           r == Then(a, LAMBDA w, games : Mkdir(w, games, program))
           b == Mkdir(a.vol, a.got, program)
<1>1. to[Root].path = << >>
  BY DEF Settled, Whole, Arranged, Nested
<1>2. Root \in DirsOf(v) /\ Len(to[Root].path) < Depth /\ Games.stem \in Names \ {".", ".."}
  <2> DEFINE len == Len(to[Root].path)
  <2>1. len = 0
    BY <1>1
  <2> HIDE DEF len
  <2>2. len < Depth
    BY <2>1, DepthIsNat
  <2>. QED  BY <2>2, NamesFine DEF DirsOf, len
<1>3. MkdirLeaves(v, a)
  BY <1>2, MkdirOutcome
<1>4. Volume(a.vol)
  BY NamesFine, MkdirGives
<1>5. Grew(v, to, v, to)
  BY GrewItself
<1>6. CASE ~a.ok
  <2>1. r = a
    BY <1>6 DEF Then
  <2>2. Intact(v, a.vol)
    BY <1>3, <1>6 DEF MkdirLeaves
  <2> HIDE DEF a, r
  <2>3. BeginsWith(a, v, to)
    BY <1>4, <1>5, <1>6, <2>2 DEF BeginsWith, Strays
  <2>4. BeginsWith(r, v, to)
    BY <2>1, <2>3
  <2>. QED  BY <2>4 DEF r, a
<1>7. CASE a.ok
  <2>1. r = b
    BY <1>7 DEF Then
  <2>2. PICK more : Made(v, a.vol, a.got, to, more, Root, Games)
    BY <1>2, <1>7, MkdirMakes
  <2>3. Grew(v, to, a.vol, more)
    BY <1>2, <1>7, <2>2, MkdirGrows
  <2> DEFINE w == a.vol
             d == a.got
  <2>4. Volume(w) /\ Settled(w, more) /\ NamesApart(w) /\ Grew(v, to, w, more) /\ d \in DirsOf(w)
    BY <1>4, <2>2, <2>3 DEF Grew, Made
  <2>5. Len(more[d].path) = 1
    <3>1. PICK short \in OnDrive : more[d].path = Append(to[Root].path, short)
      BY <2>2 DEF Made, Enters
    <3>2. more[d].path = Append(<< >>, short)
      BY <1>1, <3>1
    <3>. QED  BY <3>2
  <2> HIDE DEF w, d
  <2>6. Len(more[d].path) < Depth /\ program.stem \in Names \ {".", ".."} /\ d \in {Root} \union Clusters
    <3>1. d \in {Root} \union Clusters
      BY <2>4, DirFacts DEF Settled
    <3>. QED  BY <2>5, <3>1, DepthIsNat, NamesFine
  <2> DEFINE c == Mkdir(w, d, program)
  <2>7. r = c
    BY <2>1 DEF w, d
  <2>8. MkdirLeaves(w, c) /\ Volume(c.vol)
    BY <2>4, <2>6, MkdirOutcome, MkdirGives
  <2>9. CASE c.ok
    <3>1. PICK all : Made(w, c.vol, c.got, more, all, d, program)
      BY <2>4, <2>6, <2>9, MkdirMakes
    <3>2. Grew(w, more, c.vol, all)
      BY <2>4, <2>6, <2>9, <3>1, MkdirGrows
    <3> HIDE DEF c
    <3>3. Grew(v, to, c.vol, all)
      BY <2>4, <3>2, GrewTwice
    <3>4. Len(all[c.got].path) = 2
      <4>1. PICK short \in OnDrive : all[c.got].path = Append(more[d].path, short)
        BY <3>1 DEF Made, Enters
      <4>2. more[d].path \in Seq(OnDrive)
        BY <2>4 DEF Settled, Whole, Arranged, Nested
      <4>. QED  BY <2>5, <4>1, <4>2
    <3>5. c.got \in DirsOf(c.vol)
      BY <3>1 DEF Made
    <3>6. BeginsWith(c, v, to)
      BY <2>9, <3>3, <3>4, <3>5 DEF BeginsWith
    <3> HIDE DEF r
    <3>. QED  BY <2>7, <3>6 DEF r
  <2>10. CASE ~c.ok
    <3> HIDE DEF c
    <3>1. Intact(w, c.vol)
      BY <2>8, <2>10 DEF MkdirLeaves
    <3>2. BeginsWith(c, v, to)
      BY <2>4, <2>8, <2>10, <3>1 DEF BeginsWith, Strays
    <3> HIDE DEF r
    <3>. QED  BY <2>7, <3>2 DEF r
  <2>. QED  BY <2>9, <2>10
<1>. QED  BY <1>6, <1>7

----------------------------------------------------------------------------
(* The steps of an import, as steps of the abstract drive.                 *)
TreeStep == [ImplementsFileTree!Next]_(ImplementsFileTree!vars)

\* A job that fails leaves nothing that the invariant says anything of.
LEMMA FailedTree ==
    ASSUME job'.step = "failed", found' = Found(vol', job'.placed)
    PROVE  TreeInv'
  BY DEF TreeInv

LEMMA CountsStep ==
    ASSUME StateTypes
    PROVE  /\ count' = [count EXCEPT !.files = @ + 1] => count'.files = count.files + 1
           /\ count' = [count EXCEPT !.imports = @ + 1] => count'.files = count.files
           /\ count' = [count EXCEPT !.deletes = @ + 1] => count'.files = count.files
  BY DEF StateTypes

LEMMA NothingPut ==
    ASSUME NEW v, NEW to, Settled(v, to), Volume(v), NEW none, none = {}
    PROVE  PlacedThere(v, none) /\ Since(v, to, v, to, none, none, none)
<1>1. Keeps(v, v, none, none)
  BY KeepsItself
<1>. QED  BY <1>1 DEF PlacedThere, Since, SamePaths

LEMMA StartImportTree ==
    ASSUME SpaceInv, SpaceInv', StateTypes, TreeInv, ~GoesOn, NEW program \in Programs, StartImport(program)
    PROVE  TreeInv' /\ TreeStep
<1> DEFINE r == Then(Mkdir(Mounted, Root, Games), LAMBDA w, games : Mkdir(w, games, program))
           u == Mounted
           none == {}
<1>1. /\ job.step = "idle" /\ count' = [count EXCEPT !.imports = @ + 1] /\ found' = Found(vol', {})
      /\ savedFat' = savedFat
      /\ IF r.ok THEN /\ vol' = r.vol
                      /\ job' = [NoJob EXCEPT !.step = "copying", !.dir = r.got]
                 ELSE /\ vol' = Dropped(r.vol)
                      /\ job' = [NoJob EXCEPT !.step = "failed", !.needed = 3]
  BY DEF StartImport
<1>2. Volume(vol) /\ vol.fat = savedFat /\ savedFat \in Fats /\ Volume(vol')
  BY <1>1 DEF SpaceInv
<1>3. found = Found(vol, job.placed) /\ job.placed = none /\ Rests(vol)
  BY <1>1 DEF TreeInv
<1>4. PICK to : Settled(vol, to) /\ NamesApart(vol)
  BY <1>3 DEF Rests
<1>5. HasFields(u) /\ u.fat = vol.fat /\ u.hint = 2 /\ u.content = vol.content
  BY <1>2 DEF Mounted, Volume, HasFields
<1>6. /\ r.ok => job'.step = "copying" /\ job'.dir = r.got /\ job'.known = {}
      /\ ~r.ok => job'.step = "failed"
      /\ job'.placed = none
  BY <1>1, NoJobFields, NoJobPlaced
<1>7. BeginsWith(r, u, to) /\ Grew(vol, to, u, to)
  <2> HIDE DEF u
  <2>1. Grew(vol, to, u, to) /\ Volume(u)
    BY <1>2, <1>4, <1>5, SameGrew, NumberTypes DEF Volume
  <2>2. Settled(u, to) /\ NamesApart(u)
    BY <2>1 DEF Grew
  <2>3. BeginsWith(Then(Mkdir(u, Root, Games), LAMBDA w, games : Mkdir(w, games, program)), u, to)
    BY <2>1, <2>2, TwoDirsBegin
  <2>. QED  BY <2>1, <2>3 DEF u
<1> HIDE DEF r, u, none
<1>8. PlacedThere(vol, none) /\ Since(vol, to, vol, to, none, none, none)
  BY <1>2, <1>4, NothingPut DEF none
<1>9. found'.files = Files(vol') /\ found.files = Files(vol) /\ found'.touched = {} /\ found.touched = {}
  BY <1>1, <1>3, FoundIs DEF none
<1>10. count'.files = count.files
  BY <1>1, CountsStep
<1>11. CASE r.ok
  <2>1. PICK all : Grew(u, to, r.vol, all) /\ r.got \in DirsOf(r.vol) /\ Len(all[r.got].path) = 2
    BY <1>7, <1>11 DEF BeginsWith
  <2> DEFINE w == vol'
             home == r.got
  <2>2. Grew(vol, to, w, all) /\ home \in DirsOf(w) /\ Len(all[home].path) = 2 /\ Volume(w)
    BY <1>1, <1>2, <1>7, <1>11, <2>1, GrewTwice
  <2> HIDE DEF w, home
  <2>3. Files(w) = Files(vol)
    BY <1>2, <1>4, <2>2, GrewSameFiles
  <2>4. Settled(w, all) /\ NamesApart(w) /\ Keeps(vol, w, none, none) /\ SamePaths(vol, to, all)
    BY <2>2 DEF Grew, SamePaths, none
  <2>5. Known(w, all, home, {})
    BY <2>2 DEF Known, OneEach
  <2>6. PlacedThere(w, none) /\ Since(vol, to, w, all, none, none, none)
    BY <1>2, <1>4, <2>4 DEF PlacedThere, Since, none
  <2>7. job'.step = "copying" /\ job'.dir = home /\ job'.known = {} /\ job'.placed = none
    BY <1>6, <1>11 DEF home
  <2>8. Copies(w, savedFat, job')
    BY <1>2, <2>4, <2>5, <2>6, <2>7 DEF Copies
  <2>9. TreeInv'
    BY <1>1, <2>7, <2>8 DEF TreeInv, w, none
  <2>10. (job'.step = "failed") = (job.step = "failed")
    BY <1>1, <2>7
  <2>11. TreeStep
    BY <1>9, <1>10, <2>3, <2>10, TreeStutters DEF TreeStep, w
  <2>. QED  BY <2>9, <2>11
<1>12. CASE ~r.ok
  <2> DEFINE w == vol'
  <2>1. Strays(u, to, r) /\ Volume(r.vol)
    BY <1>7, <1>12 DEF BeginsWith
  <2>2. Strays(vol, to, r)
    BY <1>7, <2>1, GrewTwice DEF Strays
  <2>3. Volume(w) /\ w.fat = vol.fat /\ w.content = r.vol.content
    BY <1>1, <1>2, <1>12, <2>1 DEF Dropped, Volume, HasFields
  <2> HIDE DEF w
  <2>4. LosesNone(vol, none, w)
    BY <1>2, <1>4, <1>8, <2>2, <2>3, ThrowLosesNone
  <2>5. job'.step = "failed" /\ found' = Found(vol', job'.placed)
    BY <1>1, <1>6, <1>12 DEF none
  <2>6. LosesNone(vol, job.placed, vol') /\ found' = Found(vol', {})
    BY <1>1, <1>3, <2>4 DEF w
  <2>7. TreeStep
    BY <1>3, <1>10, <2>5, <2>6, TreeFails DEF TreeStep
  <2>. QED  BY <2>5, <2>7, FailedTree
<1>. QED  BY <1>11, <1>12

----------------------------------------------------------------------------
(* A file that is put where the path of the archive has led.               *)
LEMMA PutSince ==
    ASSUME NEW v, NEW to, Settled(v, to), NEW placed, PlacedThere(v, placed),
           NEW u, NEW tu, NEW a, NEW b, Since(u, tu, v, to, a, b, placed),
           NEW w, NEW d \in DirsOf(v), NEW p \in Slots, NEW out, NEW short, FilePut(v, w, d, p, out, short),
           NEW k, k.dir = d, k.short = short, NEW all, all = placed \union {k}
    PROVE  PlacedThere(w, all) /\ Since(u, tu, w, to, a \union out, b \union {p}, all)
<1>1. \A l \in placed : l.dir \in DirsOf(v) /\ \E q \in Slots : Puts(v, l.dir, q, l.short)
  BY DEF PlacedThere
<1>2. \A l \in placed : l.dir \in DirsOf(w) /\ \E q \in Slots : Puts(w, l.dir, q, l.short)
  <2>1. SUFFICES ASSUME NEW l \in placed
        PROVE  l.dir \in DirsOf(w) /\ \E q \in Slots : Puts(w, l.dir, q, l.short)
    OBVIOUS
  <2>2. PICK q \in Slots : Puts(v, l.dir, q, l.short)
    BY <1>1
  <2>. QED  BY <1>1, <2>2, PutsAgain
<1> DEFINE new == {p}
<1>3. Keeps(v, w, out, new) /\ Puts(w, d, p, short)
  BY DEF FilePut
<1>4. d \in DirsOf(w)
  BY <1>3 DEF Keeps
<1>5. PlacedThere(w, all)
  BY <1>2, <1>3, <1>4 DEF PlacedThere
<1>6. \A q \in b : \E l \in all : Puts(w, l.dir, q, l.short)
  <2>1. SUFFICES ASSUME NEW q \in b PROVE \E l \in placed : Puts(w, l.dir, q, l.short)
    OBVIOUS
  <2>2. PICK l \in placed : Puts(v, l.dir, q, l.short)
    BY DEF Since
  <2>. QED  BY <1>1, <2>2, PutsAgain
<1>7. \A q \in new : \E l \in all : Puts(w, l.dir, q, l.short)
  BY <1>3
<1>8. Keeps(u, v, a, b)
  BY DEF Since
<1> HIDE DEF new
<1>9. Keeps(u, w, a \union out, b \union new)
  BY <1>3, <1>8, KeepsTwice
<1>10. Since(u, tu, w, to, a \union out, b \union new, all)
  <2>1. \A q \in b \union new : \E l \in all : Puts(w, l.dir, q, l.short)
    BY <1>6, <1>7
  <2>. QED  BY <1>9, <2>1 DEF Since
<1>. QED  BY <1>5, <1>10 DEF new

\* A volume on which the job has made directories.
LEMMA GrewSince ==
    ASSUME NEW v, NEW to, Settled(v, to), NEW placed, PlacedThere(v, placed),
           NEW u, NEW tu, NEW a, NEW b, Since(u, tu, v, to, a, b, placed),
           NEW w, NEW more, Grew(v, to, w, more)
    PROVE  PlacedThere(w, placed) /\ Since(u, tu, w, more, a, b, placed)
<1> DEFINE none == {}
<1>1. Keeps(v, w, none, none) /\ a \union none = a /\ b \union none = b /\ \A q : q \notin none
  BY DEF Grew
<1> HIDE DEF none
<1>2. ASSUME NEW e \in DirsOf(v), NEW q, NEW s, Puts(v, e, q, s)
      PROVE  Puts(w, e, q, s) /\ e \in DirsOf(w)
  BY <1>1, <1>2, PutsKept
<1>3. \A l \in placed : l.dir \in DirsOf(v) /\ \E q \in Slots : Puts(v, l.dir, q, l.short)
  BY DEF PlacedThere
<1>4. PlacedThere(w, placed)
  BY <1>2, <1>3 DEF PlacedThere
<1>5. Keeps(u, v, a, b) /\ SamePaths(u, tu, to) /\ \A q \in b : \E l \in placed : Puts(v, l.dir, q, l.short)
  BY DEF Since
<1>6. Keeps(u, w, a, b)
  <2>1. Keeps(u, w, a \union none, b \union none)
    BY <1>1, <1>5, KeepsTwice
  <2>. QED  BY <1>1, <2>1
<1>7. SamePaths(u, tu, more)
  BY <1>5 DEF SamePaths, Grew, Keeps
<1>8. \A q \in b : \E l \in placed : Puts(w, l.dir, q, l.short)
  BY <1>2, <1>3, <1>5
<1>. QED  BY <1>4, <1>6, <1>7, <1>8 DEF Since

LEMMA TreePuts ==
    ASSUME NEW f \in found'.files,
           \A g : g \in found'.files <=> (g \in found.files /\ g.path # f.path) \/ g = f,
           found'.touched = found.touched \union {f.path},
           count'.files = count.files + 1, (job'.step = "failed") = (job.step = "failed")
    PROVE  ImplementsFileTree!Next
<1>1. found'.files = ImplementsFileTree!Without(found.files, {f.path}) \union {f}
  BY DEF ImplementsFileTree!Without
<1>. QED  BY <1>1 DEF ImplementsFileTree!Put, ImplementsFileTree!Next

LEMMA TouchedGrows ==
    ASSUME NEW v, Volume(v), NEW to, Settled(v, to), NamesApart(v), NEW placed, PlacedThere(v, placed),
           NEW w, Volume(w), NEW more, Settled(w, more), NamesApart(w), SamePaths(v, to, more),
           NEW k, NEW all, all = placed \union {k}, PlacedThere(w, all)
    PROVE  Found(w, all).touched = Found(v, placed).touched \union {PathOf(more, k)}
<1>1. \A x : x \in Found(v, placed).touched <=> \E l \in placed : x = PathOf(to, l)
  BY TouchedAre
<1>2. \A x : x \in Found(w, all).touched <=> \E l \in all : x = PathOf(more, l)
  BY TouchedAre
<1>3. \A l \in placed : PathOf(more, l) = PathOf(to, l)
  BY DEF PathOf, PlacedThere, SamePaths
<1>. QED  BY <1>1, <1>2, <1>3

LEMMA ImportFileTree ==
    ASSUME SpaceInv, SpaceInv', StateTypes, TreeInv,
           NEW path \in DirPaths, NEW name \in FileNames, NEW size \in Sizes, ImportFile(path, name, size)
    PROVE  TreeInv' /\ TreeStep
<1> DEFINE version == count.files + 1
           at == InDir(vol, path)
           r == Then(at, LAMBDA v, got : WriteFile(v, got.dir, name, size, version))
           b == WriteFile(at.vol, at.got.dir, name, size, version)
           placed == job.placed
           home == job.dir
<1>1. /\ job.step = "copying" /\ count' = [count EXCEPT !.files = @ + 1]
      /\ found' = Found(vol', job'.placed) /\ savedFat' = savedFat
      /\ IF r.ok THEN /\ vol' = r.vol
                      /\ job' = [job EXCEPT !.known = at.got.known,
                                    !.placed = @ \union {[path |-> path, dir |-> at.got.dir, short |-> r.got]}]
                 ELSE /\ vol' = Dropped(r.vol)
                      /\ job' = [NoJob EXCEPT !.step = "failed", !.needed = Pieces(size) + (2 * Len(path)) + 1]
  BY DEF ImportFile
<1> HIDE DEF version
<1>2. /\ Volume(vol) /\ Volume(vol') /\ savedFat \in Fats /\ Directory(job)
      /\ {"step", "dir", "known", "placed", "needed"} \subseteq DOMAIN job
  BY <1>1 DEF SpaceInv
<1>3. found = Found(vol, placed) /\ Copies(vol, savedFat, job)
  BY <1>1 DEF TreeInv
<1>4. PICK to, u, tu, a, c :
         /\ Settled(vol, to) /\ NamesApart(vol) /\ Known(vol, to, home, job.known) /\ PlacedThere(vol, placed)
         /\ Since(u, tu, vol, to, a, c, placed) /\ u.fat = savedFat
  BY <1>3 DEF Copies
<1>5. Goes(vol, to, home, job.known, at, path)
  BY <1>2, <1>4, InDirGoes
<1>6. Volume(at.vol)
  BY <1>2, InDirReaches DEF Reached
<1>7. count'.files = count.files + 1
  BY <1>1, CountsStep
<1>8. size \in Nat \intersect AllSizes /\ name.stem \in Names \ {".", ".."}
  <2>1. name \in AllNames /\ size \in AllSizes
    BY DEF AllNames, AllSizes
  <2>. QED  BY <2>1, FileAssumption, NamesGiven
<1>9. IF at.ok THEN r = b ELSE r = at
  BY DEF Then
<1> HIDE DEF home, placed, at
<1>10. ASSUME ~r.ok, Volume(r.vol), Strays(vol, to, r) PROVE TreeInv' /\ TreeStep
  <2> DEFINE w == vol'
  <2> HIDE DEF r
  <2>1. w.fat = u.fat /\ w.content = r.vol.content /\ Volume(w)
    BY <1>1, <1>2, <1>4, <1>10 DEF Dropped, Volume, HasFields
  <2> HIDE DEF w
  <2>2. LosesNone(vol, placed, w)
    BY <1>2, <1>4, <1>10, <2>1, ThrowLosesNone
  <2>3. job'.step = "failed" /\ job'.placed = {}
    BY <1>1, <1>10, NoJobFields, NoJobPlaced
  <2>4. found' = Found(vol', {}) /\ LosesNone(vol, job.placed, vol') /\ found = Found(vol, job.placed)
    BY <1>1, <1>3, <2>2, <2>3 DEF w, placed
  <2>5. TreeStep
    BY <1>7, <2>3, <2>4, TreeFails DEF TreeStep
  <2>. QED  BY <1>1, <2>3, <2>5, FailedTree
<1>11. CASE ~at.ok
  <2>1. r = at
    BY <1>9, <1>11
  <2>2. Strays(vol, to, at)
    BY <1>5, <1>11 DEF Goes
  <2> HIDE DEF r
  <2>. QED  BY <1>6, <1>10, <1>11, <2>1, <2>2
<1>12. CASE at.ok
  <2> DEFINE v == at.vol
             d == at.got.dir
             known == at.got.known
  <2>1. PICK more : /\ Grew(vol, to, v, more) /\ Known(v, more, home, known)
                    /\ At(home, known, path, d)
    BY <1>5, <1>12 DEF Goes, Reaches
  <2>2. r = b /\ b = WriteFile(v, d, name, size, version)
    BY <1>9, <1>12
  <2>3. Volume(v) /\ Settled(v, more) /\ NamesApart(v) /\ d \in DirsOf(v)
    BY <1>6, <2>1, AtIs DEF Grew
  <2> HIDE DEF b, r, v, d, known
  <2>4. Volume(b.vol)
    BY <1>8, <2>2, <2>3, WriteFileGives
  <2>5. PICK short : PutOrThrown(v, b, d, short)
    BY <1>8, <2>2, <2>3, WriteFileOutcome
  <2>6. CASE ~r.ok
    <3>1. Intact(v, b.vol)
      BY <2>2, <2>5, <2>6 DEF PutOrThrown
    <3>2. Strays(vol, to, r)
      BY <2>1, <2>2, <3>1 DEF Strays
    <3>. QED  BY <1>10, <2>2, <2>4, <2>6, <3>2
  <2>7. CASE r.ok
    <3>1. PICK p, out : FilePut(v, b.vol, d, p, out, short)
      BY <2>2, <2>5, <2>7 DEF PutOrThrown
    <3> DEFINE w == b.vol
               k == [path |-> path, dir |-> d, short |-> b.got]
    <3>2. /\ vol' = w /\ job' = [job EXCEPT !.known = known, !.placed = @ \union {k}]
      BY <1>1, <2>2, <2>7 DEF d, known
    <3>3. k.dir = d /\ k.short = short
      BY <2>2, <2>5, <2>7 DEF PutOrThrown
    <3> HIDE DEF k
    <3>4. Settled(w, more) /\ SameDirs(v, w) /\ Volume(w) /\ FilePut(v, w, d, p, out, short)
      <4>1. Settled(w, more) /\ SameDirs(v, w)
        BY <1>8, <2>2, <2>3, <2>7, WriteFileSettles
      <4>. QED  BY <2>4, <3>1, <4>1
    <3> HIDE DEF w
    <3> DEFINE all == placed \union {k}
    <3>5. job'.step = "copying" /\ job'.dir = home /\ job'.known = known /\ job'.placed = all
      BY <1>1, <1>2, <3>2 DEF home, placed
    <3>6. NamesApart(w) /\ p \in Slots
      BY <2>3, <3>4, PutNamesApart DEF FilePut, Puts, FilesAt, Shown
    <3>7. PlacedThere(v, placed) /\ Since(u, tu, v, more, a, c, placed)
      BY <1>4, <2>1, GrewSince
    <3>8. all = placed \union {k}
      OBVIOUS
    <3> HIDE DEF all
    <3>9. PlacedThere(w, all) /\ Since(u, tu, w, more, a \union out, c \union {p}, all)
      BY <2>3, <3>3, <3>4, <3>6, <3>7, <3>8, PutSince
    <3>10. Known(w, more, home, known)
      <4>1. Grown(v, more, w, more)
        BY <3>4 DEF Grown, SameDirs
      <4>2. /\ home \in DirsOf(w) /\ Len(more[home].path) = 2
            /\ \A l \in known : IsKnown(w, more, home, known, l)
        BY <2>1, <4>1, KnownKept
      <4>3. StemsApart => OneEach(known)
        BY <2>1 DEF Known
      <4>. QED  BY <4>2, <4>3 DEF Known
    <3>11. Copies(w, savedFat, job')
      <4> DEFINE s == a \union out
                 t == c \union {p}
      <4>1. Since(u, tu, w, more, s, t, all)
        BY <3>9
      <4> HIDE DEF s, t
      <4>. QED  BY <1>4, <3>4, <3>5, <3>6, <3>9, <3>10, <4>1 DEF Copies
    <3>12. TreeInv'
      BY <1>1, <3>2, <3>5, <3>11 DEF TreeInv
    <3> DEFINE f == FileOf(w, more, d, p)
    <3>13. /\ f.path = Append(more[d].path, short)
           /\ \A g : g \in Files(w) <=> (g \in Files(v) /\ g.path # f.path) \/ g = f
      BY <2>3, <3>4, PutFiles
    <3>14. Files(v) = Files(vol)
      BY <1>2, <1>4, <2>1, <2>3, GrewSameFiles
    <3>15. PathOf(more, k) = f.path
      BY <3>3, <3>13 DEF PathOf
    <3> HIDE DEF f
    <3>16. Found(w, all).touched = Found(vol, placed).touched \union {f.path}
      <4>1. SamePaths(vol, to, more)
        BY <2>1 DEF Grew, SamePaths
      <4>2. Found(w, all).touched = Found(vol, placed).touched \union {PathOf(more, k)}
        BY <1>2, <1>4, <3>4, <3>6, <3>8, <3>9, <4>1, TouchedGrows
      <4>. QED  BY <3>15, <4>2
    <3>17. found' = Found(w, all) /\ found'.files = Files(w) /\ found.files = Files(vol)
      BY <1>1, <1>3, <3>2, <3>5, FoundIs
    <3>18. /\ f \in found'.files
           /\ \A g : g \in found'.files <=> (g \in found.files /\ g.path # f.path) \/ g = f
           /\ found'.touched = found.touched \union {f.path}
      BY <1>3, <3>13, <3>14, <3>16, <3>17
    <3>19. (job'.step = "failed") = (job.step = "failed")
      BY <1>1, <3>5
    <3>20. TreeStep
      BY <1>7, <3>18, <3>19, TreePuts DEF TreeStep
    <3>. QED  BY <3>12, <3>20
  <2>. QED  BY <2>6, <2>7
<1>. QED  BY <1>11, <1>12

----------------------------------------------------------------------------
LEMMA FinishTree ==
    ASSUME SpaceInv, SpaceInv', TreeInv, Finish
    PROVE  TreeInv' /\ TreeStep
<1> DEFINE w == vol'
           none == {}
<1>1. /\ job.step = "copying" /\ vol' = [vol EXCEPT !.fat = Flushed] /\ job' = NoJob /\ count' = count
      /\ found' = Found([vol EXCEPT !.fat = Flushed], {})
  BY DEF Finish
<1>2. Volume(vol) /\ Volume(w)
  BY DEF SpaceInv
<1>3. w.fat = vol.fat /\ w.content = vol.content
  BY <1>1, <1>2 DEF Volume, HasFields, Flushed
<1>4. found = Found(vol, job.placed) /\ Copies(vol, savedFat, job)
  BY <1>1 DEF TreeInv
<1>5. PICK to : Settled(vol, to) /\ NamesApart(vol)
  BY <1>4 DEF Copies
<1>6. job'.step = "idle" /\ job'.placed = none /\ found' = Found(w, none)
  BY <1>1, NoJobFields, NoJobPlaced
<1> HIDE DEF w, none
<1>7. Grew(vol, to, w, to)
  BY <1>3, <1>5, SameGrew
<1>8. Rests(w)
  BY <1>7 DEF Grew, Rests
<1>9. Files(w) = Files(vol)
  BY <1>2, <1>5, <1>7, GrewSameFiles
<1>10. TreeInv'
  BY <1>6, <1>8 DEF TreeInv, w, none
<1>11. found'.files = found.files /\ found'.touched = {}
  BY <1>4, <1>6, <1>9, FoundIs DEF none
<1>12. (job'.step = "failed") = (job.step = "failed") /\ count'.files = count.files
  BY <1>1, <1>6
<1>13. TreeStep
  BY <1>11, <1>12 DEF TreeStep, ImplementsFileTree!Next, ImplementsFileTree!Finish
<1>. QED  BY <1>10, <1>13

LEMMA TreeDeletes ==
    ASSUME NEW f \in found.files, \A g : g \in found'.files <=> g \in found.files /\ g.path # f.path,
           found.touched = {}, found'.touched = {},
           count'.files = count.files, (job'.step = "failed") = (job.step = "failed")
    PROVE  ImplementsFileTree!Next
<1>1. found'.files = ImplementsFileTree!Without(found.files, {f.path})
  BY DEF ImplementsFileTree!Without
<1>. QED  BY <1>1 DEF ImplementsFileTree!Delete, ImplementsFileTree!Next

LEMMA DosDeleteTree ==
    ASSUME SpaceInv, SpaceInv', StateTypes, TreeInv, NEW place \in Slots, DosDelete(place)
    PROVE  TreeInv' /\ TreeStep
<1> DEFINE w == WriteEntry(FreeChain(vol, EntryAt(vol, place).first), place, Deleted)
           none == {}
           out == {place}
<1>1. /\ job.step = "idle" /\ EntryAt(vol, place).kind = "file" /\ job' = job /\ vol' = w
      /\ count' = [count EXCEPT !.deletes = @ + 1] /\ found' = Found(w, none)
  BY DEF DosDelete
<1>2. Volume(vol) /\ Volume(vol')
  BY DEF SpaceInv
<1>3. found = Found(vol, job.placed) /\ job.placed = none /\ Rests(vol)
  BY <1>1 DEF TreeInv
<1>4. PICK to : Settled(vol, to) /\ NamesApart(vol)
  BY <1>3 DEF Rests
<1>5. Settled(w, to) /\ SameDirs(vol, w)
  BY <1>1, <1>2, <1>4, DeleteSettles
<1>6. out = {place} /\ none = {}
  OBVIOUS
<1> HIDE DEF none, out
<1>7. Keeps(vol, w, out, none) /\ place \in FilesAt(vol)
  BY <1>1, <1>2, <1>4, <1>6, DeleteLeaves
<1> HIDE DEF w
<1>8. Volume(w) /\ NamesApart(w)
  BY <1>1, <1>2, <1>4, <1>5, <1>6, <1>7, DeleteNamesApart
<1>9. PICK d \in DirsOf(vol) : place[1] \in Area(vol, d)
  BY <1>4, <1>7 DEF Settled, Whole, Arranged, Homes, FilesAt
<1> DEFINE f == FileOf(vol, to, d, place)
<1>10. f \in Files(vol) /\ \A g : g \in Files(w) <=> g \in Files(vol) /\ g.path # f.path
  BY <1>2, <1>4, <1>5, <1>6, <1>7, <1>8, <1>9, DeleteFiles
<1> HIDE DEF f
<1>11. TreeInv'
  <2>1. Rests(w)
    BY <1>5, <1>8 DEF Rests
  <2>2. found' = Found(vol', job'.placed)
    BY <1>1, <1>3
  <2>3. job'.step = "idle" /\ job'.placed = {} /\ Rests(vol')
    BY <1>1, <1>3, <1>6, <2>1
  <2>. QED  BY <2>2, <2>3 DEF TreeInv
<1>12. /\ found.files = Files(vol) /\ found'.files = Files(w)
       /\ found.touched = {} /\ found'.touched = {}
  BY <1>1, <1>3, <1>6, FoundIs
<1>13. count'.files = count.files /\ (job'.step = "failed") = (job.step = "failed")
  BY <1>1, CountsStep
<1>14. ImplementsFileTree!Next
  <2>1. f \in found.files /\ \A g : g \in found'.files <=> g \in found.files /\ g.path # f.path
    BY <1>10, <1>12
  <2>. QED  BY <1>12, <1>13, <2>1, TreeDeletes
<1>. QED  BY <1>11, <1>14 DEF TreeStep

LEMMA NextTree ==
    ASSUME ~GoesOn, SpaceInv, SpaceInv', StateTypes, TreeInv, [FatNext]_fatVars
    PROVE  TreeInv' /\ TreeStep
<1>1. ASSUME NEW program \in Programs, StartImport(program) PROVE TreeInv' /\ TreeStep
  BY <1>1, StartImportTree
<1>2. ASSUME NEW path \in DirPaths, NEW name \in FileNames, NEW size \in Sizes,
             ImportFile(path, name, size)
      PROVE  TreeInv' /\ TreeStep
  BY <1>2, ImportFileTree
<1>3. CASE Finish
  BY <1>3, FinishTree
<1>4. ASSUME NEW place \in Slots, DosDelete(place) PROVE TreeInv' /\ TreeStep
  BY <1>4, DosDeleteTree
<1>5. CASE UNCHANGED fatVars
  <2>1. vol' = vol /\ savedFat' = savedFat /\ job' = job /\ found' = found /\ count' = count
    BY <1>5 DEF fatVars
  <2>2. TreeInv'
    BY <2>1 DEF TreeInv
  <2>3. TreeStep
    BY <2>1, TreeStutters DEF TreeStep
  <2>. QED  BY <2>2, <2>3
<1>. QED  BY <1>1, <1>2, <1>3, <1>4, <1>5 DEF FatNext

\* Unless the user goes on after an import that failed, whatever an import does in
\* clusters and entries is what FileTree allows: one file at a time is created or
\* replaced, no other file changes, and an import that throws half way has neither
\* lost nor changed a file it had not put, on a volume of any size.
THEOREM ImportsImplementTree == ~GoesOn => (FatSpec => ImplementsTree)
<1> SUFFICES ASSUME ~GoesOn PROVE FatSpec => ImplementsTree
  OBVIOUS
<1> DEFINE Inv == SpaceInv /\ StateTypes /\ ImportInv /\ TreeInv
<1>1. FatInit => Inv /\ ImplementsFileTree!Init
  BY InitSpace, InitTypes, InitImport, InitTree
<1>2. Inv /\ [FatNext]_fatVars => Inv' /\ [ImplementsFileTree!Next]_(ImplementsFileTree!vars)
  <2>1. SUFFICES ASSUME SpaceInv, StateTypes, ImportInv, TreeInv, [FatNext]_fatVars
                 PROVE  /\ SpaceInv' /\ StateTypes' /\ ImportInv' /\ TreeInv'
                        /\ [ImplementsFileTree!Next]_(ImplementsFileTree!vars)
    OBVIOUS
  <2>2. SpaceInv'
    BY <2>1, NextSpace
  <2>3. StateTypes'
    BY <2>1, <2>2, NextTypes
  <2>4. ImportInv'
    BY <2>1, NextImport
  <2>5. TreeInv' /\ TreeStep
    BY <2>1, <2>2, NextTree
  <2>. QED  BY <2>2, <2>3, <2>4, <2>5 DEF TreeStep
<1>3. FatSpec => ImplementsFileTree!Init /\ [][ImplementsFileTree!Next]_(ImplementsFileTree!vars)
  BY <1>1, <1>2, PTL DEF FatSpec
<1>. QED  BY <1>3 DEF ImplementsTree, ImplementsFileTree!Spec
=============================================================================
