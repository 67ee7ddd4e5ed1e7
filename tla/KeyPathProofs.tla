--------------------------- MODULE KeyPathProofs ---------------------------
(***************************************************************************)
(* Proofs about a key's path: for every size of the controller's queue and *)
(* of the ring, any number of keys and timer interrupts, and any program.  *)
(***************************************************************************)
EXTENDS KeyPath, PicProofs, WellFoundedInduction

----------------------------------------------------------------------------
(* The inductive invariant.                                                *)

\* As POST leaves the controllers: lines 0 and 1 of the master are wired, and it
\* serves the handler that has not sent its EOI.
Wired ==
    LET master == pics["master"]
    IN  /\ pics["slave"].irr = {}
        /\ master.irr \subseteq {0, 1} /\ master.imr = {3, 4, 5, 7} /\ ~master.auto_eoi
        /\ master.isr = IF handler.stage \in {"hle", "eoi"} THEN {handler.line} ELSE {}

\* A handler runs with interrupts disabled, and returns to where they were enabled.
Handling ==
    IF handler.stage = "none" THEN handler = NoHandler
    ELSE handler.line \in {0, 1} /\ handler.if /\ ~iflag

\* An unread byte is requested, or INT 9 is about to read it; and nothing else is.
Reading == handler.line = 1 /\ handler.stage = "hle"
Meant == obf <=> (1 \in pics["master"].irr \/ Reading)

\* The CPU halts in INT 16h, for an empty ring.
Halting == halted => head = tail /\ iflag /\ handler = NoHandler

\* The BIOS sends no commands.
Plain == irq_enable /\ pending_cmd = "none" /\ kbd_cmd = "none" /\ ~reset_pending

Control == TypeOK /\ Wired /\ Handling /\ Meant /\ Halting /\ Plain

----------------------------------------------------------------------------
(* The interrupt controllers, with two lines in use.                       *)

LEMMA NoSlave ==
    ASSUME TypeOK, Wired
    PROVE  update_cascade(pics) = pics
<1>1. /\ pics \in [Chips -> PicState] /\ pics["slave"] \in PicState /\ pics["master"] \in PicState
      /\ "master" \in Chips
  BY DEF TypeOK, Chips
<1>2. Deliverable(pics["slave"]) = {}
  BY DEF Wired, Deliverable
<1>3. pic_highest(pics["slave"]) = NoLine
  BY <1>1, <1>2, HighestLine
<1>4. pics["master"].irr \ {CascadeLine} = pics["master"].irr
  BY DEF Wired, CascadeLine
<1>5. [pics["master"] EXCEPT !.irr = @ \ {CascadeLine}] = pics["master"]
  BY <1>1, <1>4 DEF PicState
<1>6. [pics EXCEPT !["master"].irr = @ \ {CascadeLine}] = pics
  <2>1. [pics EXCEPT !["master"] = pics["master"]] = pics
    BY <1>1
  <2>. QED  BY <1>5, <2>1
<1>. QED  BY <1>3, <1>6 DEF update_cascade

LEMMA LookedSame ==
    ASSUME TypeOK, Wired
    PROVE  Looked = pics
  BY NoSlave DEF Looked

\* A line without a handler in service is delivered if it is requested.
LEMMA Pends ==
    ASSUME TypeOK, Wired
    PROVE  /\ pic_has_pending(pics) <=> Deliverable(pics["master"]) # {}
           /\ Deliverable(pics["master"]) \subseteq pics["master"].irr
           /\ handler = NoHandler => Deliverable(pics["master"]) = pics["master"].irr
<1>1. pics["master"] \in PicState
  BY DEF TypeOK, Chips
<1>2. pic_has_pending(pics) <=> Deliverable(pics["master"]) # {}
  BY <1>1, NoSlave, HighestLine DEF pic_has_pending
<1>3. Deliverable(pics["master"]) \subseteq pics["master"].irr
  BY DEF Deliverable
<1>4. ASSUME handler = NoHandler PROVE Deliverable(pics["master"]) = pics["master"].irr
  <2>1. pics["master"].isr = {}
    BY <1>4 DEF Wired, NoHandler
  <2>2. \A i \in pics["master"].irr : i \notin pics["master"].imr
    BY DEF Wired
  <2>. QED  BY <2>1, <2>2 DEF Deliverable
<1>. QED  BY <1>2, <1>3, <1>4

\* What an acceptance does: the line's request becomes its service.
LEMMA Accepted ==
    ASSUME TypeOK, Wired, handler = NoHandler, pic_has_pending(pics)
    PROVE  /\ AckLine(pics) \in pics["master"].irr
           /\ AckState(pics) \in [Chips -> PicState]
           /\ AckState(pics)["slave"] = pics["slave"]
           /\ AckState(pics)["master"] =
                  [pics["master"] EXCEPT !.irr = @ \ {AckLine(pics)}, !.isr = @ \union {AckLine(pics)}]
<1> DEFINE m == pic_highest(pics["master"])
<1>1. pics["master"] \in PicState /\ "master" \in Chips /\ "slave" \in Chips /\ pics \in [Chips -> PicState]
  BY DEF TypeOK, Chips
<1>2. m # NoLine /\ m \in pics["master"].irr
  BY <1>1, Pends, HighestLine
<1>3. m # CascadeLine
  BY <1>2 DEF Wired, CascadeLine
<1>4. AckLine(pics) = m
  BY <1>2, <1>3, NoSlave DEF AckLine
<1>5. AckState(pics) = [pics EXCEPT !["master"] = Accept(@, m)]
  BY <1>2, <1>3, NoSlave DEF AckState
<1>6. Accept(pics["master"], m) = [pics["master"] EXCEPT !.irr = @ \ {m}, !.isr = @ \union {m}]
  BY DEF Accept, Wired
<1>. QED  BY <1>1, <1>2, <1>4, <1>5, <1>6, AckType

----------------------------------------------------------------------------
(* The controller's bytes.                                                 *)

Bytes == Codes \union {NoKey}

LEMMA ByteTypes ==
    ASSUME TypeOK
    PROVE  /\ Kbd!Byte = Bytes
           /\ queue \in Seq(Bytes) /\ Len(queue) <= QSize /\ out \in Bytes /\ obf \in BOOLEAN
           /\ event \in BOOLEAN /\ irq_enable \in BOOLEAN /\ reset_pending \in BOOLEAN
           /\ pending_cmd \in Kbd!ControllerCmds \union {Kbd!None}
           /\ kbd_cmd \in Kbd!KeyboardCmds \union {Kbd!None}
<1>1. Kbd!Byte = Bytes
  BY DEF Kbd!Byte, Bytes
<1>. QED  BY <1>1 DEF TypeOK, Kbd!KbdTypeOK

\* What is unread begins with the output buffer.
LEMMA UnreadIs ==
    ASSUME queue \in Seq(Bytes), out \in Bytes
    PROVE  /\ obf => Kbd!Unread = <<out>> \o queue
           /\ ~obf => Kbd!Unread = queue
           /\ Kbd!Unread \in Seq(Bytes)
<1>1. ~obf => Kbd!Unread = << >> \o queue
  BY DEF Kbd!Unread
<1>2. obf => Kbd!Unread = <<out>> \o queue
  BY DEF Kbd!Unread
<1>3. << >> \o queue = queue /\ <<out>> \in Seq(Bytes)
  BY ConcatEmptySeq
<1>. QED  BY <1>1, <1>2, <1>3, ConcatProperties

\* The codes of one event.
LEMMA EventCodes ==
    ASSUME TypeOK, events < MaxEvents
    PROVE  /\ \A k \in Keys, up \in BOOLEAN : Code(k, up) \in Codes
           /\ {Letter, LeftCtrl, RightCtrl, Break} \subseteq Seq(Bytes)
<1>1. events + 1 \in 1..MaxEvents /\ held.left \in BOOLEAN /\ held.right \in BOOLEAN
  BY BoundsAssumption DEF TypeOK, Numbers
<1>2. \A k \in Keys, up \in BOOLEAN : Code(k, up) \in Codes
  BY <1>1 DEF Code, Codes
<1>3. \A k \in Keys, up \in BOOLEAN : Code(k, up) \in Bytes
  BY <1>2 DEF Bytes
<1>4. /\ Code("letter", FALSE) \in Bytes /\ Code("ctrl", held.left) \in Bytes
      /\ Code("e0", FALSE) \in Bytes /\ Code("ctrl", held.right) \in Bytes
      /\ Code("scroll", FALSE) \in Bytes
  BY <1>1, <1>3 DEF Keys
<1>5. \A a, b \in Bytes : <<a>> \in Seq(Bytes) /\ <<a, b>> \in Seq(Bytes)
  OBVIOUS
<1>6. Letter \in Seq(Bytes) /\ LeftCtrl \in Seq(Bytes)
  BY <1>4, <1>5, Zenon DEF Letter, LeftCtrl
<1>7. RightCtrl \in Seq(Bytes) /\ Break \in Seq(Bytes)
  BY <1>4, <1>5, Zenon DEF RightCtrl, Break
<1>. QED  BY <1>2, <1>6, <1>7

\* What the queue takes of an event are its first codes, or all.
LEMMA FittingIs ==
    ASSUME TypeOK, NEW bs \in Seq(Bytes)
    PROVE  /\ Kbd!Fitting(bs) \in Seq(Bytes)
           /\ Len(Kbd!Fitting(bs)) <= Len(bs)
           /\ Len(queue) + Len(Kbd!Fitting(bs)) <= QSize
           /\ \A i \in 1..Len(Kbd!Fitting(bs)) : Kbd!Fitting(bs)[i] = bs[i]
<1>1. /\ queue \in Seq(Bytes) /\ Len(queue) \in Nat /\ Len(queue) <= QSize
      /\ QSize \in Nat /\ Len(bs) \in Nat
  BY ByteTypes, SizesAssumption
<1>2. CASE Len(bs) <= QSize - Len(queue)
  BY <1>1, <1>2 DEF Kbd!Fitting
<1>3. CASE ~(Len(bs) <= QSize - Len(queue))
  <2>1. QSize - Len(queue) \in Nat /\ QSize - Len(queue) < Len(bs)
    BY <1>1, <1>3
  <2>2. Kbd!Fitting(bs) = SubSeq(bs, 1, QSize - Len(queue))
    BY <1>3 DEF Kbd!Fitting
  <2>. QED  BY <1>1, <2>1, <2>2, SubSeqProperties
<1>. QED  BY <1>2, <1>3

----------------------------------------------------------------------------
(* The ring buffer.                                                        *)

Places == 0..(Slots - 1)

\* The words of a ring with its head at h and its tail at t.
WordsOf(s, h, t) ==
    LET n == (t - h + Slots) % Slots
    IN  [i \in 1..n |-> s[(h + i - 1) % Slots]]

\* The place of the i-th of them.
Place(h, i) == IF h + i - 1 < Slots THEN h + i - 1 ELSE h + i - 1 - Slots

LEMMA RemainderOnce ==
    ASSUME NEW x \in 0..(2 * Slots - 1)
    PROVE  x % Slots = IF x < Slots THEN x ELSE x - Slots
<1> DEFINE q == x \div Slots
<1>1. Slots \in Nat \ {0} /\ x \in Int
  BY SizesAssumption
<1>2. q \in Int /\ x % Slots \in 0..(Slots - 1) /\ x = Slots * q + (x % Slots)
  BY <1>1
<1> HIDE DEF q
<1>3. ~(q >= 2)
  <2>1. ASSUME q >= 2 PROVE Slots * q >= 2 * Slots
    BY <1>1, <1>2, <2>1
  <2>. QED  BY <1>1, <1>2, <2>1
<1>4. ~(q <= -1)
  <2>1. ASSUME q <= -1 PROVE Slots * q <= -Slots
    BY <1>1, <1>2, <2>1
  <2>. QED  BY <1>1, <1>2, <2>1
<1>5. q = 0 \/ q = 1
  BY <1>2, <1>3, <1>4
<1>. QED  BY <1>1, <1>2, <1>5

\* The places of its words, counted from the head.
LEMMA WordsAre ==
    ASSUME NEW s \in [Places -> Numbers], NEW h \in Places, NEW t \in Places
    PROVE  /\ WordsOf(s, h, t) \in Seq(Numbers)
           /\ Len(WordsOf(s, h, t)) = IF t < h THEN t - h + Slots ELSE t - h
           /\ \A i \in 1..Len(WordsOf(s, h, t)) :
                  WordsOf(s, h, t)[i] = s[Place(h, i)]
<1> DEFINE n == (t - h + Slots) % Slots
           x == t - h + Slots
<1>1. /\ Slots \in Nat /\ Slots >= 2
      /\ h \in Int /\ 0 <= h /\ h <= Slots - 1 /\ t \in Int /\ 0 <= t /\ t <= Slots - 1
  BY SizesAssumption DEF Places
<1>2. x \in 0..(2 * Slots - 1)
  BY <1>1
<1>3. n = IF x < Slots THEN x ELSE x - Slots
  BY <1>2, RemainderOnce
<1> HIDE DEF n
<1>4. n \in 0..(Slots - 1) /\ n = IF t < h THEN t - h + Slots ELSE t - h
  BY <1>1, <1>3
<1>5. \A i \in 1..n : (h + i - 1) % Slots = Place(h, i) /\ Place(h, i) \in Places
  <2>1. TAKE i \in 1..n
  <2> DEFINE y == h + i - 1
  <2>2. y \in 0..(2 * Slots - 1)
    BY <1>1, <1>4
  <2>3. y % Slots = IF y < Slots THEN y ELSE y - Slots
    BY <2>2, RemainderOnce
  <2>4. (IF y < Slots THEN y ELSE y - Slots) \in Places
    BY <1>1, <1>4, <2>2 DEF Places
  <2>5. Place(h, i) = IF y < Slots THEN y ELSE y - Slots
    BY <1>1, <1>4 DEF Place
  <2> HIDE DEF y
  <2>6. y % Slots = Place(h, i) /\ Place(h, i) \in Places
    BY <2>3, <2>4, <2>5
  <2>. QED  BY <2>6 DEF y
<1>6. WordsOf(s, h, t) = [i \in 1..n |-> s[Place(h, i)]]
  BY <1>5 DEF WordsOf, n
<1>7. \A i \in 1..n : s[Place(h, i)] \in Numbers
  BY <1>5
<1>8. /\ [i \in 1..n |-> s[Place(h, i)]] \in Seq(Numbers)
      /\ Len([i \in 1..n |-> s[Place(h, i)]]) = n
  BY <1>4, <1>7
<1>9. \A i \in 1..n : WordsOf(s, h, t)[i] = s[Place(h, i)]
  BY <1>6
<1>. QED  BY <1>4, <1>6, <1>8, <1>9

\* A word that is pushed comes last.
LEMMA RingPush ==
    ASSUME NEW s \in [Places -> Numbers], NEW h \in Places, NEW t \in Places, NEW word \in Numbers,
           After(t) # h
    PROVE  /\ After(t) \in Places
           /\ WordsOf([s EXCEPT ![t] = word], h, After(t)) = Append(WordsOf(s, h, t), word)
<1> DEFINE u == After(t)
           r == [s EXCEPT ![t] = word]
           old == WordsOf(s, h, t)
           new == WordsOf(r, h, u)
<1>1. Slots \in Nat /\ Slots >= 2
  BY SizesAssumption
<1>2. u \in Places /\ r \in [Places -> Numbers]
  BY <1>1 DEF After, Places
<1>3. /\ old \in Seq(Numbers) /\ new \in Seq(Numbers)
      /\ Len(old) = IF t < h THEN t - h + Slots ELSE t - h
      /\ Len(new) = IF u < h THEN u - h + Slots ELSE u - h
      /\ \A i \in 1..Len(old) : old[i] = s[Place(h, i)]
      /\ \A i \in 1..Len(new) : new[i] = r[Place(h, i)]
  BY <1>2, WordsAre
<1> HIDE DEF old, new
<1>4. Len(new) = Len(old) + 1 /\ Len(old) \in Nat
  BY <1>1, <1>3 DEF After, Places
<1>5. ASSUME NEW i \in 1..Len(old) PROVE new[i] = old[i]
  <2> DEFINE a == Place(h, i)
  <2>1. new[i] = r[a] /\ old[i] = s[a]
    BY <1>3, <1>4
  <2>2. a \in Places /\ a # t
    BY <1>1, <1>3, <1>5 DEF Places, Place
  <2>. QED  BY <2>1, <2>2
<1>6. new[Len(old) + 1] = word
  <2> DEFINE i == Len(old) + 1
             a == Place(h, i)
  <2>1. a = t
    BY <1>1, <1>3 DEF Places, Place
  <2>2. i \in 1..Len(new)
    BY <1>4
  <2>3. new[i] = r[a]
    BY <1>3, <2>2
  <2>. QED  BY <2>1, <2>3
<1>7. /\ Append(old, word) \in Seq(Numbers) /\ Len(Append(old, word)) = Len(old) + 1
      /\ \A i \in 1..Len(old) : Append(old, word)[i] = old[i]
      /\ Append(old, word)[Len(old) + 1] = word
  BY <1>3, AppendProperties
<1>8. \A i \in 1..Len(new) : new[i] = Append(old, word)[i]
  BY <1>4, <1>5, <1>6, <1>7
<1>9. new = Append(old, word)
  BY <1>3, <1>4, <1>7, <1>8, SeqEqual
<1>. QED  BY <1>2, <1>9 DEF old, new

\* A word that is popped was the first.
LEMMA RingPop ==
    ASSUME NEW s \in [Places -> Numbers], NEW h \in Places, NEW t \in Places, h # t
    PROVE  /\ After(h) \in Places
           /\ WordsOf(s, h, t) = <<s[h]>> \o WordsOf(s, After(h), t)
<1> DEFINE g == After(h)
           old == WordsOf(s, h, t)
           new == WordsOf(s, g, t)
<1>1. Slots \in Nat /\ Slots >= 2
  BY SizesAssumption
<1>2. g \in Places /\ s[h] \in Numbers
  BY <1>1 DEF After, Places
<1>3. /\ old \in Seq(Numbers) /\ new \in Seq(Numbers)
      /\ Len(old) = IF t < h THEN t - h + Slots ELSE t - h
      /\ Len(new) = IF t < g THEN t - g + Slots ELSE t - g
      /\ \A i \in 1..Len(old) : old[i] = s[Place(h, i)]
      /\ \A i \in 1..Len(new) : new[i] = s[Place(g, i)]
  BY <1>2, WordsAre
<1> HIDE DEF old, new
<1>4. Len(old) = Len(new) + 1 /\ Len(new) \in Nat
  BY <1>1, <1>3 DEF After, Places
<1>5. old[1] = s[h]
  <2>1. 1 \in 1..Len(old) /\ Place(h, 1) = h
    BY <1>1, <1>4 DEF Places, Place
  <2>. QED  BY <1>3, <2>1
<1>6. ASSUME NEW i \in 2..Len(old) PROVE old[i] = new[i - 1]
  <2>1. old[i] = s[Place(h, i)]
    BY <1>3
  <2> DEFINE j == i - 1
  <2>2. j \in 1..Len(new)
    BY <1>4
  <2>3. new[j] = s[Place(g, j)]
    BY <1>3, <2>2
  <2>4. Place(g, j) = Place(h, i)
    <3>1. h \in Int /\ 0 <= h /\ h <= Slots - 1 /\ i \in Int /\ 2 <= i /\ i <= Slots
      BY <1>1, <1>3, <1>6 DEF Places
    <3>2. CASE h + 1 >= Slots
      <4>1. g = 0 /\ h = Slots - 1
        BY <1>1, <3>1, <3>2 DEF After
      <4>. QED  BY <1>1, <3>1, <4>1 DEF Place
    <3>3. CASE ~(h + 1 >= Slots)
      <4>1. g = h + 1
        BY <3>3 DEF After
      <4>2. g + j - 1 = h + i - 1
        BY <3>1, <4>1
      <4>. QED  BY <1>1, <3>1, <4>1, <4>2 DEF Place
    <3>. QED  BY <3>2, <3>3
  <2>. QED  BY <2>1, <2>3, <2>4
<1> DEFINE cat == <<s[h]>> \o new
<1>7. /\ cat \in Seq(Numbers) /\ Len(cat) = 1 + Len(new)
      /\ \A i \in 1..(1 + Len(new)) : cat[i] = IF i <= 1 THEN <<s[h]>>[i] ELSE new[i - 1]
  <2>1. <<s[h]>> \in Seq(Numbers) /\ Len(<<s[h]>>) = 1
    BY <1>2
  <2>. QED  BY <1>3, <2>1, ConcatProperties
<1> HIDE DEF cat
<1>8. \A i \in 1..Len(old) : old[i] = cat[i]
  <2>1. TAKE i \in 1..Len(old)
  <2>2. CASE i = 1
    BY <2>2, <1>4, <1>5, <1>7
  <2>3. CASE i # 1
    BY <2>3, <1>4, <1>6, <1>7
  <2>. QED  BY <2>2, <2>3
<1>9. old = cat
  <2>1. old \in Seq(Numbers) /\ cat \in Seq(Numbers) /\ Len(old) = Len(cat)
    BY <1>3, <1>4, <1>7
  <2>. QED  BY <2>1, <1>8, SeqEqual
<1>. QED  BY <1>2, <1>9 DEF old, new, cat

\* What Ctrl-Break leaves.
LEMMA RingBroken ==
    ASSUME NEW s \in [Places -> Numbers]
    PROVE  After(0) \in Places /\ WordsOf([s EXCEPT ![0] = 0], 0, After(0)) = <<0>>
<1> DEFINE r == [s EXCEPT ![0] = 0]
           w == WordsOf(r, 0, 1)
<1>1. Slots \in Nat /\ Slots >= 2 /\ After(0) = 1 /\ 0 \in Places /\ 1 \in Places /\ 0 \in Numbers
  BY SizesAssumption, BoundsAssumption DEF After, Places, Numbers
<1>2. r \in [Places -> Numbers] /\ r[0] = 0
  BY <1>1
<1>3. /\ w \in Seq(Numbers) /\ Len(w) = IF 1 < 0 THEN 1 - 0 + Slots ELSE 1 - 0
      /\ \A i \in 1..Len(w) : w[i] = r[Place(0, i)]
  BY <1>1, <1>2, WordsAre
<1> HIDE DEF w, r
<1>4. Len(w) = 1 /\ w[1] = 0
  BY <1>1, <1>2, <1>3 DEF Place
<1>5. <<0>> \in Seq(Numbers) /\ Len(<<0>>) = 1 /\ <<0>>[1] = 0
  BY <1>1
<1>6. \A i \in 1..Len(w) : w[i] = <<0>>[i]
  BY <1>4, <1>5
<1>7. w = <<0>>
  BY <1>3, <1>4, <1>5, <1>6, SeqEqual
<1>. QED  BY <1>1, <1>7 DEF w, r

----------------------------------------------------------------------------
(* Every step keeps the invariant.                                         *)

LEMMA InitControl == Init => Control
<1> SUFFICES ASSUME Init PROVE Control
  OBVIOUS
<1>1. /\ PostController(8, {3, 4, 5, 7}) \in PicState
      /\ PostController(8, {3, 4, 5, 7}).irr = {} /\ PostController(8, {3, 4, 5, 7}).isr = {}
      /\ ~PostController(8, {3, 4, 5, 7}).auto_eoi
  BY Programmed
<1>2. /\ PostController(112, {0, 1, 2, 3, 7}) \in PicState
      /\ PostController(112, {0, 1, 2, 3, 7}).irr = {}
  BY Programmed
<1>3. PostController(8, {3, 4, 5, 7}).imr = {3, 4, 5, 7}
  BY DEF PostController, OCW1, ICW4, ICW3, ICW2, ICW1, Controller
<1>4. /\ pics \in [Chips -> PicState] /\ pics["slave"].irr = {}
      /\ pics["master"].irr = {} /\ pics["master"].isr = {} /\ ~pics["master"].auto_eoi
      /\ pics["master"].imr = {3, 4, 5, 7}
  BY <1>1, <1>2, <1>3 DEF Init, PostPics, Chips
<1>5. Kbd!KbdTypeOK
  <2>1. queue = <<NoKey>> /\ out = NoKey /\ NoKey \in Bytes
    BY DEF Init, Bytes
  <2>2. <<NoKey>> \in Seq(Bytes) /\ Len(<<NoKey>>) = 1 /\ 1 <= QSize
    BY <2>1, SizesAssumption
  <2>3. Kbd!Byte = Bytes
    BY DEF Kbd!Byte, Bytes
  <2>4. queue \in Seq(Bytes) /\ Len(queue) <= QSize /\ out \in Bytes
    BY <2>1, <2>2
  <2>5. queue \in Seq(Kbd!Byte) /\ out \in Kbd!Byte
    BY <2>3, <2>4
  <2>6. (1 \in pics["master"].irr) \in BOOLEAN
    OBVIOUS
  <2>. QED  BY <2>4, <2>5, <2>6 DEF Init, Kbd!KbdTypeOK, Kbd!None
<1>6. TypeOK
  <2>1. 0 \in 0..(Slots - 1) /\ 0 \in Numbers /\ 0 \in 0..MaxTicks
    BY SizesAssumption, BoundsAssumption DEF Numbers
  <2>2. handler \in [line : {0, 1, NoLine}, stage : {"hle", "eoi", "iret", "none"}, if : BOOLEAN]
    BY DEF Init, NoHandler
  <2>3. slots \in [0..(Slots - 1) -> Numbers] /\ received \in Seq(Numbers)
    BY <2>1 DEF Init
  <2>4. /\ held \in [left : BOOLEAN, right : BOOLEAN]
        /\ shifts \in [e0 : BOOLEAN, left : BOOLEAN, right : BOOLEAN]
    BY DEF Init, BothUp
  <2>. QED  BY <1>4, <1>5, <2>1, <2>2, <2>3, <2>4 DEF Init, TypeOK
<1>7. Wired /\ Handling /\ Meant
  BY <1>4 DEF Init, Wired, Handling, Meant, Reading, NoHandler, NoLine
<1>8. Halting /\ Plain
  BY DEF Init, Halting, Plain
<1>. QED  BY <1>6, <1>7, <1>8 DEF Control

\* What the host pushes.
LEMMA PushControl ==
    ASSUME Control, NEW bs \in Seq(Bytes), NEW after \in [left : BOOLEAN, right : BOOLEAN],
           Push(bs, after)
    PROVE  Control'
<1>. USE DEF Control
<1>1. UNCHANGED <<out, obf, irq_enable, pending_cmd, kbd_cmd, reset_pending, pics, iflag, inhibit,
                  halted, handler, shifts, slots, head, tail, ticks, pc, saved, received>>
  BY DEF Push, Kbd!PushScancodes, Kbd!ctl, bios, prog
<1>2. queue' = queue \o Kbd!Fitting(bs) /\ event' \in BOOLEAN
  BY DEF Push, Kbd!PushScancodes, Kbd!QueueBytes, TypeOK, Kbd!KbdTypeOK
<1>3. queue' \in Seq(Bytes) /\ Len(queue') <= QSize
  <2>1. /\ queue \in Seq(Bytes) /\ Kbd!Fitting(bs) \in Seq(Bytes)
        /\ Len(queue) + Len(Kbd!Fitting(bs)) <= QSize
    BY ByteTypes, FittingIs
  <2>. QED  BY <1>2, <2>1, ConcatProperties
<1>4. events' \in Numbers /\ gone' \in SUBSET Numbers /\ cut' \in BOOLEAN /\ held' = after
  BY BoundsAssumption DEF Push, TypeOK, Numbers
<1>5. Kbd!KbdTypeOK'
  <2>1. Kbd!Byte = Bytes
    BY ByteTypes
  <2>. QED  BY <1>1, <1>2, <1>3, <2>1 DEF TypeOK, Kbd!KbdTypeOK, Kbd!Byte
<1>6. TypeOK'
  BY <1>1, <1>4, <1>5 DEF TypeOK
<1>7. (Wired /\ Handling /\ Meant /\ Halting /\ Plain)'
  BY <1>1 DEF Wired, Handling, Meant, Reading, Halting, Plain
<1>. QED  BY <1>6, <1>7

LEMMA DeliverControl == Control /\ Deliver => Control'
<1> SUFFICES ASSUME Control, Deliver PROVE Control'
  OBVIOUS
<1>. USE DEF Control
<1>1. UNCHANGED <<irq_enable, pending_cmd, kbd_cmd, reset_pending, iflag, inhibit, halted, handler,
                  shifts, slots, head, tail, held, events, cut, ticks, pc, saved, received, gone>>
  BY DEF Deliver, Kbd!Deliver, Kbd!ctl, bios, host, prog
<1>2. event' = FALSE
  BY DEF Deliver, Kbd!Deliver
<1>3. /\ queue \in Seq(Bytes) /\ Len(queue) <= QSize /\ out \in Bytes /\ obf \in BOOLEAN
      /\ Kbd!Byte = Bytes
  BY ByteTypes
<1>4. CASE obf \/ queue = << >>
  <2>1. UNCHANGED <<queue, out, obf, pics>>
    BY <1>4 DEF Deliver, Kbd!Deliver
  <2>2. Kbd!KbdTypeOK'
    BY <1>1, <1>2, <2>1 DEF TypeOK, Kbd!KbdTypeOK, Kbd!Byte
  <2>3. TypeOK'
    BY <1>1, <2>1, <2>2 DEF TypeOK
  <2>4. (Wired /\ Handling /\ Meant /\ Halting /\ Plain)'
    BY <1>1, <2>1 DEF Wired, Handling, Meant, Reading, Halting, Plain
  <2>. QED  BY <2>3, <2>4
<1>5. CASE ~obf /\ queue # << >>
  <2>1. out' = Head(queue) /\ queue' = Tail(queue) /\ obf' = TRUE
    BY <1>5 DEF Deliver, Kbd!Deliver
  <2>2. pics' = [pics EXCEPT !["master"].irr = @ \union {1}]
    BY <1>5 DEF Deliver, pic_raise_irq, ChipOf
  <2>3. pics \in [Chips -> PicState] /\ "master" \in Chips /\ "slave" \in Chips
    BY DEF TypeOK, Chips
  <2>4. /\ pics' \in [Chips -> PicState] /\ pics'["slave"] = pics["slave"]
        /\ pics'["master"] = [pics["master"] EXCEPT !.irr = @ \union {1}]
    <3>1. [pics["master"] EXCEPT !.irr = @ \union {1}] \in PicState
      BY <2>3 DEF PicState
    <3>. QED  BY <2>2, <2>3, <3>1
  <2>5. /\ pics'["master"].irr = pics["master"].irr \union {1}
        /\ pics'["master"].imr = pics["master"].imr /\ pics'["master"].isr = pics["master"].isr
        /\ pics'["master"].auto_eoi = pics["master"].auto_eoi
    BY <2>3, <2>4 DEF PicState
  <2>6. out' \in Bytes /\ queue' \in Seq(Bytes) /\ Len(queue') <= QSize
    <3>1. Len(queue) \in Nat /\ Len(Tail(queue)) = Len(queue) - 1 /\ QSize \in Nat
      BY <1>3, <1>5, HeadTailProperties, SizesAssumption
    <3>. QED  BY <1>3, <1>5, <2>1, <3>1, HeadTailProperties
  <2>7. Kbd!KbdTypeOK'
    <3>1. out' \in Kbd!Byte /\ queue' \in Seq(Kbd!Byte)
      BY <1>3, <2>6
    <3>2. (1 \in pics'["master"].irr) \in BOOLEAN
      OBVIOUS
    <3>. QED  BY <1>1, <1>2, <2>1, <2>6, <3>1, <3>2 DEF TypeOK, Kbd!KbdTypeOK
  <2>8. TypeOK'
    BY <1>1, <2>4, <2>7 DEF TypeOK
  <2>9. Wired'
    BY <1>1, <2>4, <2>5 DEF Wired
  <2>10. (Handling /\ Meant /\ Halting /\ Plain)'
    BY <1>1, <2>1, <2>5 DEF Handling, Meant, Halting, Plain
  <2>. QED  BY <2>8, <2>9, <2>10
<1>. QED  BY <1>3, <1>4, <1>5

LEMMA TickControl == Control /\ Tick => Control'
<1> SUFFICES ASSUME Control, Tick PROVE Control'
  OBVIOUS
<1>. USE DEF Control
<1>1. UNCHANGED <<kbc, iflag, inhibit, halted, handler, shifts, slots, head, tail,
                  held, events, cut, pc, saved, received, gone>>
  BY DEF Tick, bios, host, prog
<1>2. pics' = [pics EXCEPT !["master"].irr = @ \union {0}]
  BY DEF Tick, pic_raise_irq, ChipOf
<1>3. pics \in [Chips -> PicState] /\ "master" \in Chips /\ "slave" \in Chips
  BY DEF TypeOK, Chips
<1>4. /\ pics' \in [Chips -> PicState] /\ pics'["slave"] = pics["slave"]
      /\ pics'["master"] = [pics["master"] EXCEPT !.irr = @ \union {0}]
  <2>1. [pics["master"] EXCEPT !.irr = @ \union {0}] \in PicState
    BY <1>3 DEF PicState
  <2>. QED  BY <1>2, <1>3, <2>1
<1>5. /\ pics'["master"].irr = pics["master"].irr \union {0}
      /\ pics'["master"].imr = pics["master"].imr /\ pics'["master"].isr = pics["master"].isr
      /\ pics'["master"].auto_eoi = pics["master"].auto_eoi
  BY <1>3, <1>4 DEF PicState
<1>6. Kbd!KbdTypeOK'
  BY <1>1 DEF kbc, TypeOK, Kbd!KbdTypeOK, Kbd!Byte
<1>7. ticks' \in 0..MaxTicks
  BY BoundsAssumption DEF Tick, TypeOK
<1>8. TypeOK'
  BY <1>1, <1>4, <1>6, <1>7 DEF TypeOK
<1>9. Wired'
  BY <1>1, <1>4, <1>5 DEF Wired
<1>10. (Handling /\ Meant /\ Halting /\ Plain)'
  BY <1>1, <1>5 DEF kbc, Handling, Meant, Reading, Halting, Plain
<1>. QED  BY <1>8, <1>9, <1>10

----------------------------------------------------------------------------
(* The CPU's steps keep the invariant.                                     *)

LEMMA WaitingWords ==
    ASSUME TypeOK
    PROVE  /\ Waiting = WordsOf(slots, head, tail)
           /\ slots \in [Places -> Numbers] /\ head \in Places /\ tail \in Places
           /\ Waiting \in Seq(Numbers)
<1>1. slots \in [Places -> Numbers] /\ head \in Places /\ tail \in Places
  BY DEF TypeOK, Places
<1>2. Waiting = WordsOf(slots, head, tail)
  BY DEF Waiting, WordsOf
<1>. QED  BY <1>1, <1>2, WordsAre

LEMMA KbdSame ==
    ASSUME TypeOK, UNCHANGED kbc
    PROVE  Kbd!KbdTypeOK'
<1>1. (1 \in pics'["master"].irr) \in BOOLEAN
  OBVIOUS
<1>. QED  BY <1>1 DEF kbc, TypeOK, Kbd!KbdTypeOK

LEMMA AcceptControl == Control /\ AcceptInterrupt => Control'
<1> SUFFICES ASSUME Control, AcceptInterrupt PROVE Control'
  OBVIOUS
<1>. USE DEF Control
<1>1. UNCHANGED <<kbc, halted, shifts, slots, head, tail, held, events, cut, ticks,
                  pc, saved, received, gone>>
  BY DEF AcceptInterrupt, bios, host, prog
<1>2. ~halted /\ iflag /\ pic_has_pending(pics)
  BY DEF AcceptInterrupt, Interrupting, CanInterrupt
<1>3. handler = NoHandler
  BY <1>2 DEF Handling
<1> DEFINE i == AckLine(pics)
<1>4. /\ i \in pics["master"].irr /\ pics' \in [Chips -> PicState] /\ pics'["slave"] = pics["slave"]
      /\ pics'["master"] = [pics["master"] EXCEPT !.irr = @ \ {i}, !.isr = @ \union {i}]
  BY <1>2, <1>3, Accepted DEF AcceptInterrupt
<1>5. i \in {0, 1}
  BY <1>4 DEF Wired
<1> HIDE DEF i
<1>6. pics["master"] \in PicState /\ pics["master"].isr = {}
  BY <1>3 DEF TypeOK, Chips, Wired, NoHandler
<1>7. /\ pics'["master"].irr = pics["master"].irr \ {i} /\ pics'["master"].isr = {i}
      /\ pics'["master"].imr = pics["master"].imr
      /\ pics'["master"].auto_eoi = pics["master"].auto_eoi
  BY <1>4, <1>6 DEF PicState
<1>8. handler' = [line |-> i, stage |-> "hle", if |-> TRUE] /\ iflag' = FALSE /\ inhibit' = FALSE
  BY <1>2 DEF AcceptInterrupt, i, TypeOK
<1>9. TypeOK'
  <2>1. handler' \in [line : {0, 1, NoLine}, stage : {"hle", "eoi", "iret", "none"}, if : BOOLEAN]
    BY <1>5, <1>8
  <2>. QED  BY <1>1, <1>4, <1>8, <2>1, KbdSame DEF TypeOK
<1>10. Wired'
  BY <1>4, <1>7, <1>8 DEF Wired
<1>11. (Handling /\ Halting /\ Plain)'
  BY <1>1, <1>2, <1>5, <1>8 DEF kbc, Handling, Halting, Plain
<1>12. Meant'
  BY <1>1, <1>3, <1>4, <1>5, <1>7, <1>8 DEF kbc, Meant, Reading, NoHandler
<1>. QED  BY <1>9, <1>10, <1>11, <1>12

LEMMA WakeControl == Control /\ Wake => Control'
<1> SUFFICES ASSUME Control, Wake PROVE Control'
  OBVIOUS
<1>. USE DEF Control
<1>1. /\ UNCHANGED <<kbc, iflag, inhibit, handler, shifts, slots, head, tail, held, events, cut, ticks,
                     pc, saved, received, gone>>
      /\ halted' = FALSE
  BY DEF Wake, bios, host, prog
<1>2. pics' = pics
  <2>1. update_cascade(pics) = pics
    BY NoSlave
  <2>. QED  BY <2>1 DEF Wake
<1>3. TypeOK'
  <2>1. Kbd!KbdTypeOK'
    BY <1>1, KbdSame
  <2>2. halted' \in BOOLEAN /\ pics' \in [Chips -> PicState]
    BY <1>1, <1>2 DEF TypeOK
  <2>. QED  BY <1>1, <2>1, <2>2 DEF TypeOK
<1>4. (Wired /\ Handling /\ Meant /\ Halting /\ Plain)'
  BY <1>1, <1>2 DEF kbc, Wired, Handling, Meant, Reading, Halting, Plain
<1>. QED  BY <1>3, <1>4

\* What decoding a byte leaves.
LEMMA ScancodeTypes ==
    ASSUME TypeOK, NEW code \in Bytes, bios_kbd_scancode(code)
    PROVE  /\ shifts' = Shifted(shifts, code)
           /\ shifts' \in [e0 : BOOLEAN, left : BOOLEAN, right : BOOLEAN]
           /\ slots' \in [Places -> Numbers] /\ head' \in Places /\ tail' \in Places
           /\ gone' \in SUBSET Numbers
<1>1. /\ slots \in [Places -> Numbers] /\ head \in Places /\ tail \in Places
      /\ gone \in SUBSET Numbers
      /\ shifts \in [e0 : BOOLEAN, left : BOOLEAN, right : BOOLEAN]
  BY WaitingWords DEF TypeOK
<1>2. shifts' = Shifted(shifts, code)
  BY DEF bios_kbd_scancode
<1>3. code.up \in BOOLEAN
  <2>1. CASE code \in Codes
    BY <2>1 DEF Codes
  <2>2. CASE code = NoKey
    BY <2>2 DEF NoKey
  <2>. QED  BY <2>1, <2>2 DEF Bytes
<1>4. shifts' \in [e0 : BOOLEAN, left : BOOLEAN, right : BOOLEAN]
  BY <1>1, <1>2, <1>3 DEF Shifted
<1>5. /\ After(tail) \in Places /\ After(0) \in Places /\ 0 \in Places
  BY <1>1, SizesAssumption DEF After, Places
<1>6. CASE code.key = "letter" /\ ~code.up
  <2>1. code.num \in Numbers
    BY <1>6, BoundsAssumption DEF Bytes, Codes, NoKey, Numbers
  <2>2. kbuf_push(code.num)
    BY <1>6 DEF bios_kbd_scancode
  <2>. QED  BY <1>1, <1>2, <1>4, <1>5, <2>1, <2>2 DEF kbuf_push, ring
<1>7. CASE /\ ~(code.key = "letter" /\ ~code.up)
           /\ code.key = "scroll" /\ ~code.up /\ shifts.e0 /\ (shifts.left \/ shifts.right)
  <2>1. /\ head' = 0 /\ tail' = After(0) /\ slots' = [slots EXCEPT ![0] = 0]
        /\ gone' = gone \union (ToSet(Waiting) \ {0})
    BY <1>7 DEF bios_kbd_scancode
  <2>2. ToSet(Waiting) \subseteq Numbers
    BY WaitingWords DEF ToSet
  <2>3. 0 \in Numbers
    BY BoundsAssumption DEF Numbers
  <2>4. slots' \in [Places -> Numbers]
    BY <1>1, <2>1, <2>3
  <2>5. gone' \in SUBSET Numbers
    BY <1>1, <2>1, <2>2
  <2>. QED  BY <1>2, <1>4, <1>5, <2>1, <2>4, <2>5
<1>8. CASE /\ ~(code.key = "letter" /\ ~code.up)
           /\ ~(code.key = "scroll" /\ ~code.up /\ shifts.e0 /\ (shifts.left \/ shifts.right))
  <2>1. UNCHANGED <<ring, gone>>
    BY <1>8 DEF bios_kbd_scancode
  <2>. QED  BY <1>1, <1>2, <1>4, <2>1 DEF ring
<1>. QED  BY <1>6, <1>7, <1>8

\* INT 9 finds the byte it was requested for.
LEMMA ByteIsThere ==
    ASSUME Control, Int9
    PROVE  obf
<1>1. Reading
  BY DEF Int9, InStub, Reading
<1>. QED  BY <1>1 DEF Control, Meant

LEMMA Int9Control == Control /\ Int9 => Control'
<1> SUFFICES ASSUME Control, Int9 PROVE Control'
  OBVIOUS
<1>. USE DEF Control
<1>1. /\ UNCHANGED <<iflag, halted, held, events, cut, ticks, pc, saved, received,
                     queue, out, irq_enable, pending_cmd, kbd_cmd, reset_pending>>
      /\ handler' = [handler EXCEPT !.stage = "eoi"] /\ inhibit' = FALSE
      /\ obf' = FALSE /\ event' \in BOOLEAN
  BY DEF Int9, Kbd!ReadData, Kbd!ctl, host, prog
<1>2. handler.stage = "hle" /\ handler.line = 1 /\ ~halted /\ obf
  BY ByteIsThere DEF Int9, InStub, Executes
<1>3. pics' = [pics EXCEPT !["master"].irr = @ \ {1}]
  BY <1>2, LookedSame DEF Int9, pic_lower_irq, ChipOf
<1>4. pics \in [Chips -> PicState] /\ "master" \in Chips /\ "slave" \in Chips
  BY DEF TypeOK, Chips
<1>5. /\ pics' \in [Chips -> PicState] /\ pics'["slave"] = pics["slave"]
      /\ pics'["master"] = [pics["master"] EXCEPT !.irr = @ \ {1}]
  <2>1. [pics["master"] EXCEPT !.irr = @ \ {1}] \in PicState
    BY <1>4 DEF PicState
  <2>. QED  BY <1>3, <1>4, <2>1
<1>6. /\ pics'["master"].irr = pics["master"].irr \ {1}
      /\ pics'["master"].imr = pics["master"].imr /\ pics'["master"].isr = pics["master"].isr
      /\ pics'["master"].auto_eoi = pics["master"].auto_eoi
  BY <1>4, <1>5 DEF PicState
<1>7. /\ shifts' \in [e0 : BOOLEAN, left : BOOLEAN, right : BOOLEAN]
      /\ slots' \in [Places -> Numbers] /\ head' \in Places /\ tail' \in Places
      /\ gone' \in SUBSET Numbers
  BY ByteTypes, ScancodeTypes DEF Int9
<1>8. handler \in [line : {0, 1, NoLine}, stage : {"hle", "eoi", "iret", "none"}, if : BOOLEAN]
  BY DEF TypeOK
<1>9. handler' = [line |-> 1, stage |-> "eoi", if |-> handler.if]
  BY <1>1, <1>2, <1>8
<1>10. Kbd!KbdTypeOK'
  <2>1. (1 \in pics'["master"].irr) \in BOOLEAN
    OBVIOUS
  <2>. QED  BY <1>1, <2>1 DEF TypeOK, Kbd!KbdTypeOK
<1>11. TypeOK'
  BY <1>1, <1>5, <1>7, <1>8, <1>9, <1>10 DEF TypeOK, Places
<1>12. Wired'
  BY <1>2, <1>5, <1>6, <1>9 DEF Wired
<1>13. (Handling /\ Halting /\ Plain)'
  BY <1>1, <1>2, <1>9 DEF Handling, Halting, Plain
<1>14. Meant'
  BY <1>1, <1>6, <1>9 DEF Meant, Reading
<1>. QED  BY <1>11, <1>12, <1>13, <1>14

LEMMA Int8Control == Control /\ Int8 => Control'
<1> SUFFICES ASSUME Control, Int8 PROVE Control'
  OBVIOUS
<1>. USE DEF Control
<1>1. /\ UNCHANGED <<kbc, iflag, halted, shifts, slots, head, tail, held, events, cut, ticks,
                     pc, saved, received, gone>>
      /\ handler' = [handler EXCEPT !.stage = "eoi"] /\ inhibit' = FALSE
  BY DEF Int8, bios, host, prog
<1>2. handler.stage = "hle" /\ handler.line = 0 /\ ~halted
  BY DEF Int8, InStub, Executes
<1>3. pics' = pics
  BY LookedSame DEF Int8
<1>4. handler \in [line : {0, 1, NoLine}, stage : {"hle", "eoi", "iret", "none"}, if : BOOLEAN]
  BY DEF TypeOK
<1>5. handler' = [line |-> 0, stage |-> "eoi", if |-> handler.if]
  BY <1>1, <1>2, <1>4
<1>6. TypeOK'
  BY <1>1, <1>3, <1>4, <1>5, KbdSame DEF TypeOK
<1>7. (Wired /\ Handling /\ Halting /\ Plain)'
  BY <1>1, <1>2, <1>3, <1>5 DEF kbc, Wired, Handling, Halting, Plain
<1>8. Meant'
  BY <1>1, <1>2, <1>3, <1>5 DEF kbc, Meant, Reading
<1>. QED  BY <1>6, <1>7, <1>8

LEMMA EoiControl == Control /\ StubEoi => Control'
<1> SUFFICES ASSUME Control, StubEoi PROVE Control'
  OBVIOUS
<1>. USE DEF Control
<1>1. /\ UNCHANGED <<kbc, iflag, halted, shifts, slots, head, tail, held, events, cut, ticks,
                     pc, saved, received, gone>>
      /\ handler' = [handler EXCEPT !.stage = "iret"] /\ inhibit' = FALSE
  BY DEF StubEoi, bios, host, prog
<1>2. handler.stage = "eoi" /\ ~halted
  BY DEF StubEoi, InStub, Executes
<1>3. handler \in [line : {0, 1, NoLine}, stage : {"hle", "eoi", "iret", "none"}, if : BOOLEAN]
  BY DEF TypeOK
<1>4. handler' = [line |-> handler.line, stage |-> "iret", if |-> handler.if]
  BY <1>1, <1>3
<1>5. pics \in [Chips -> PicState] /\ "master" \in Chips /\ "slave" \in Chips
  BY DEF TypeOK, Chips
<1>6. pics' = [pics EXCEPT !["master"] = EoiNonSpecific(@)]
  BY LookedSame DEF StubEoi
<1>7. /\ pics' \in [Chips -> PicState] /\ pics'["slave"] = pics["slave"]
      /\ pics'["master"] = EoiNonSpecific(pics["master"])
  BY <1>5, <1>6, EoiType
<1>8. pics["master"].isr = {handler.line} /\ handler.line \in {0, 1}
  BY <1>2 DEF Wired, Handling
<1>9. {i \in pics["master"].isr : \E j \in pics["master"].isr : j < i} = {}
  BY <1>8
<1>10. /\ pics'["master"].irr = pics["master"].irr /\ pics'["master"].isr = {}
       /\ pics'["master"].imr = pics["master"].imr
       /\ pics'["master"].auto_eoi = pics["master"].auto_eoi
  BY <1>5, <1>7, <1>9 DEF EoiNonSpecific, PicState
<1>11. TypeOK'
  BY <1>1, <1>3, <1>4, <1>7, KbdSame DEF TypeOK
<1>12. Wired'
  BY <1>4, <1>7, <1>10 DEF Wired
<1>13. (Handling /\ Halting /\ Plain)'
  BY <1>1, <1>2, <1>4 DEF kbc, Handling, Halting, Plain
<1>14. Meant'
  BY <1>1, <1>2, <1>4, <1>10 DEF kbc, Meant, Reading
<1>. QED  BY <1>11, <1>12, <1>13, <1>14

LEMMA IretControl == Control /\ StubIret => Control'
<1> SUFFICES ASSUME Control, StubIret PROVE Control'
  OBVIOUS
<1>. USE DEF Control
<1>1. /\ UNCHANGED <<kbc, halted, shifts, slots, head, tail, held, events, cut, ticks,
                     pc, saved, received, gone>>
      /\ handler' = NoHandler /\ iflag' = handler.if /\ inhibit' = FALSE
  BY DEF StubIret, bios, host, prog
<1>2. handler.stage = "iret" /\ ~halted
  BY DEF StubIret, InStub, Executes
<1>3. pics' = pics
  BY LookedSame DEF StubIret
<1>4. handler \in [line : {0, 1, NoLine}, stage : {"hle", "eoi", "iret", "none"}, if : BOOLEAN]
  BY DEF TypeOK
<1>5. handler' \in [line : {0, 1, NoLine}, stage : {"hle", "eoi", "iret", "none"}, if : BOOLEAN]
  BY <1>1 DEF NoHandler
<1>6. TypeOK'
  BY <1>1, <1>3, <1>4, <1>5, KbdSame DEF TypeOK
<1>7. (Wired /\ Handling /\ Meant /\ Halting /\ Plain)'
  BY <1>1, <1>2, <1>3 DEF kbc, Wired, Handling, Meant, Reading, Halting, Plain, NoHandler
<1>. QED  BY <1>6, <1>7

LEMMA ProgramControl == Control /\ (Compute \/ Call \/ Return) => Control'
<1> SUFFICES ASSUME Control, Compute \/ Call \/ Return PROVE Control'
  OBVIOUS
<1>. USE DEF Control
<1>1. /\ UNCHANGED <<kbc, halted, handler, shifts, slots, head, tail, held, events, cut, ticks,
                     received, gone>>
      /\ handler.stage = "none" /\ ~halted
      /\ pics' = Looked /\ inhibit' \in BOOLEAN
      /\ pc' \in {"between", "call", "int16", "return"}
  BY DEF Compute, Call, Return, At, InStub, Executes, bios, host
<1>2. iflag' \in BOOLEAN /\ saved' \in BOOLEAN
  BY DEF Compute, Call, Return, TypeOK
<1>3. pics' = pics
  BY <1>1, LookedSame
<1>4. TypeOK'
  BY <1>1, <1>2, <1>3, KbdSame DEF TypeOK
<1>5. (Wired /\ Handling /\ Meant /\ Halting /\ Plain)'
  BY <1>1, <1>3 DEF kbc, Wired, Handling, Meant, Reading, Halting, Plain
<1>. QED  BY <1>4, <1>5

LEMMA Int16Control == Control /\ Int16 => Control'
<1> SUFFICES ASSUME Control, Int16 PROVE Control'
  OBVIOUS
<1>. USE DEF Control
<1>1. /\ UNCHANGED <<kbc, handler, shifts, slots, tail, held, events, cut, ticks, saved, gone>>
      /\ handler.stage = "none" /\ ~halted /\ inhibit' = FALSE
      /\ pics' = Looked
  BY DEF Int16, At, InStub, Executes, host
<1>2. pics' = pics
  BY <1>1, LookedSame
<1>3. handler = NoHandler
  BY <1>1 DEF Handling
<1>4. CASE head = tail
  <2>1. halted' = TRUE /\ iflag' = TRUE /\ UNCHANGED <<pc, head, received>>
    BY <1>4 DEF Int16, HleWait
  <2>2. TypeOK'
    BY <1>1, <1>2, <2>1, KbdSame DEF TypeOK
  <2>3. (Wired /\ Handling /\ Meant /\ Halting /\ Plain)'
    BY <1>1, <1>2, <1>3, <1>4, <2>1 DEF kbc, Wired, Handling, Meant, Reading, Halting, Plain
  <2>. QED  BY <2>2, <2>3
<1>5. CASE head # tail
  <2>1. /\ received' = Append(received, slots[head]) /\ head' = After(head)
        /\ pc' = "return" /\ UNCHANGED <<iflag, halted>>
    BY <1>5 DEF Int16, kbuf_pop
  <2>2. slots[head] \in Numbers /\ head' \in 0..(Slots - 1) /\ received \in Seq(Numbers)
    BY <1>5, <2>1, WaitingWords, RingPop DEF TypeOK, Places
  <2>3. received' \in Seq(Numbers)
    BY <2>1, <2>2, AppendProperties
  <2>4. TypeOK'
    BY <1>1, <1>2, <2>1, <2>2, <2>3, KbdSame DEF TypeOK
  <2>5. (Wired /\ Handling /\ Meant /\ Halting /\ Plain)'
    BY <1>1, <1>2, <2>1 DEF kbc, Wired, Handling, Meant, Reading, Halting, Plain
  <2>. QED  BY <2>4, <2>5
<1>. QED  BY <1>4, <1>5

LEMMA StutterControl == Control /\ UNCHANGED vars => Control'
<1> SUFFICES ASSUME Control, UNCHANGED vars PROVE Control'
  OBVIOUS
<1>1. TypeOK'
  BY KbdSame DEF Control, vars, TypeOK
<1>2. (Wired /\ Handling /\ Meant /\ Halting /\ Plain)'
  BY DEF Control, vars, kbc, Wired, Handling, Meant, Reading, Halting, Plain
<1>. QED  BY <1>1, <1>2 DEF Control

LEMMA StepControl == Control /\ [Next]_vars => Control'
<1> SUFFICES ASSUME Control, [Next]_vars PROVE Control'
  OBVIOUS
<1>1. CASE HostKey
  <2>1. /\ \A bs \in {Letter, LeftCtrl, RightCtrl, Break} :
               events < MaxEvents => bs \in Seq(Bytes)
        /\ held \in [left : BOOLEAN, right : BOOLEAN]
    BY EventCodes DEF Control, TypeOK
  <2>2. /\ [held EXCEPT !.left = ~@] \in [left : BOOLEAN, right : BOOLEAN]
        /\ [held EXCEPT !.right = ~@] \in [left : BOOLEAN, right : BOOLEAN]
    BY <2>1
  <2>3. CASE Push(Letter, held)
    BY <2>1, <2>3, PushControl DEF Push
  <2>4. CASE Push(LeftCtrl, [held EXCEPT !.left = ~@])
    BY <2>1, <2>2, <2>4, PushControl DEF Push
  <2>5. CASE Push(RightCtrl, [held EXCEPT !.right = ~@])
    BY <2>1, <2>2, <2>5, PushControl DEF Push
  <2>6. CASE Push(Break, held)
    BY <2>1, <2>6, PushControl DEF Push
  <2>. QED  BY <1>1, <2>3, <2>4, <2>5, <2>6 DEF HostKey
<1>2. CASE Deliver
  BY <1>2, DeliverControl
<1>3. CASE Tick
  BY <1>3, TickControl
<1>4. CASE CpuStep
  BY <1>4, AcceptControl, WakeControl, Int9Control, Int8Control, EoiControl, IretControl,
     ProgramControl, Int16Control DEF CpuStep
<1>5. CASE UNCHANGED vars
  BY <1>5, StutterControl
<1>. QED  BY <1>1, <1>2, <1>3, <1>4, <1>5 DEF Next

LEMMA ControlHolds == Spec => []Control
<1>1. Init => Control
  BY InitControl
<1>2. Control /\ [Next]_vars => Control'
  BY StepControl
<1>. QED  BY <1>1, <1>2, PTL DEF Spec

\* An unread byte is a pending interrupt when no handler runs.
LEMMA ControlSleeps == Control => Consistent
<1> SUFFICES ASSUME Control PROVE Consistent
  OBVIOUS
<1>1. ASSUME halted, obf PROVE pic_has_pending(pics)
  <2>1. handler = NoHandler /\ ~Reading
    BY <1>1 DEF Control, Halting, Reading, NoHandler
  <2>2. 1 \in pics["master"].irr
    BY <1>1, <2>1 DEF Control, Meant
  <2>. QED  BY <2>1, <2>2, Pends DEF Control
<1>2. SleepsOnlyWithoutKey
  BY <1>1 DEF Control, Halting, SleepsOnlyWithoutKey
<1>. QED  BY <1>2 DEF Control, Consistent

\* For every queue, ring and program: the state is well-formed, and the CPU never
\* sleeps in INT 16h on a key: the ring is empty and interrupts are enabled, and a
\* byte the controller has ready is a pending interrupt (hle_wait, bios.c int16).
THEOREM PathConsistent == Spec => []Consistent
  BY ControlHolds, ControlSleeps, PTL

----------------------------------------------------------------------------
(* The order of the keys, from the host to the program.                    *)

\* Keys rise along s; those of s are older than those of t; none is newer than n.
Ordered(s) == \A i, j \in 1..Len(s) : i < j /\ s[i] # 0 /\ s[j] # 0 => s[i] < s[j]
Before(s, t) == \A i \in 1..Len(s), j \in 1..Len(t) : s[i] # 0 /\ t[j] # 0 => s[i] < t[j]
UpTo(s, n) == \A i \in 1..Len(s) : s[i] <= n

\* What has been received, what waits in the ring and what is still unread.
Line(r, w, u, n) ==
    /\ Ordered(r) /\ Ordered(w) /\ Ordered(u)
    /\ Before(r, w) /\ Before(r, u) /\ Before(w, u)
    /\ UpTo(r, n) /\ UpTo(w, n) /\ UpTo(u, n)

LEMMA ConcatSplit ==
    ASSUME NEW s \in Seq(Numbers), NEW t \in Seq(Numbers)
    PROVE  /\ s \o t \in Seq(Numbers) /\ Len(s) \in Nat /\ Len(t) \in Nat
           /\ Len(s \o t) = Len(s) + Len(t)
           /\ \A i \in 1..Len(s) : i \in 1..Len(s \o t) /\ (s \o t)[i] = s[i]
           /\ \A j \in 1..Len(t) : Len(s) + j \in 1..Len(s \o t) /\ (s \o t)[Len(s) + j] = t[j]
           /\ \A i \in 1..Len(s \o t) :
                  i \in 1..Len(s) \/ (i - Len(s) \in 1..Len(t) /\ (s \o t)[i] = t[i - Len(s)])
<1>1. /\ s \o t \in Seq(Numbers) /\ Len(s \o t) = Len(s) + Len(t)
      /\ \A i \in 1 .. Len(s) + Len(t) : (s \o t)[i] = IF i <= Len(s) THEN s[i] ELSE t[i - Len(s)]
  BY ConcatProperties
<1>2. Len(s) \in Nat /\ Len(t) \in Nat
  BY LenProperties
<1>3. \A i \in 1..Len(s) : i \in 1..Len(s \o t) /\ (s \o t)[i] = s[i]
  BY <1>1, <1>2
<1>4. \A j \in 1..Len(t) : Len(s) + j \in 1..Len(s \o t) /\ (s \o t)[Len(s) + j] = t[j]
  <2>1. TAKE j \in 1..Len(t)
  <2>2. Len(s) + j \in 1..(Len(s) + Len(t)) /\ ~(Len(s) + j <= Len(s)) /\ Len(s) + j - Len(s) = j
    BY <1>2
  <2>. QED  BY <1>1, <2>2
<1>5. \A i \in 1..Len(s \o t) :
          i \in 1..Len(s) \/ (i - Len(s) \in 1..Len(t) /\ (s \o t)[i] = t[i - Len(s)])
  BY <1>1, <1>2
<1>. QED  BY <1>1, <1>2, <1>3, <1>4, <1>5

LEMMA OrderedConcat ==
    ASSUME NEW s \in Seq(Numbers), NEW t \in Seq(Numbers)
    PROVE  Ordered(s \o t) <=> Ordered(s) /\ Ordered(t) /\ Before(s, t)
<1> DEFINE c == s \o t
<1>1. /\ c \in Seq(Numbers) /\ Len(s) \in Nat /\ Len(t) \in Nat
      /\ Len(c) = Len(s) + Len(t)
      /\ \A i \in 1..Len(s) : i \in 1..Len(c) /\ c[i] = s[i]
      /\ \A j \in 1..Len(t) : Len(s) + j \in 1..Len(c) /\ c[Len(s) + j] = t[j]
      /\ \A i \in 1..Len(c) : i \in 1..Len(s) \/ (i - Len(s) \in 1..Len(t) /\ c[i] = t[i - Len(s)])
  BY ConcatSplit
<1> HIDE DEF c
<1>2. ASSUME Ordered(c) PROVE Ordered(s)
  BY <1>1, <1>2 DEF Ordered
<1>3. ASSUME Ordered(c) PROVE Ordered(t)
  <2>1. SUFFICES ASSUME NEW i \in 1..Len(t), NEW j \in 1..Len(t), i < j, t[i] # 0, t[j] # 0
                 PROVE  t[i] < t[j]
    BY DEF Ordered
  <2>2. /\ Len(s) + i \in 1..Len(c) /\ c[Len(s) + i] = t[i]
        /\ Len(s) + j \in 1..Len(c) /\ c[Len(s) + j] = t[j]
        /\ Len(s) + i < Len(s) + j
    BY <1>1, <2>1
  <2>. QED  BY <1>3, <2>1, <2>2 DEF Ordered
<1>4. ASSUME Ordered(c) PROVE Before(s, t)
  <2>1. SUFFICES ASSUME NEW i \in 1..Len(s), NEW j \in 1..Len(t), s[i] # 0, t[j] # 0
                 PROVE  s[i] < t[j]
    BY DEF Before
  <2>2. /\ i \in 1..Len(c) /\ c[i] = s[i]
        /\ Len(s) + j \in 1..Len(c) /\ c[Len(s) + j] = t[j]
        /\ i < Len(s) + j
    BY <1>1, <2>1
  <2>. QED  BY <1>4, <2>1, <2>2 DEF Ordered
<1>5. ASSUME Ordered(s), Ordered(t), Before(s, t) PROVE Ordered(c)
  <2>1. SUFFICES ASSUME NEW i \in 1..Len(c), NEW j \in 1..Len(c), i < j, c[i] # 0, c[j] # 0
                 PROVE  c[i] < c[j]
    BY DEF Ordered
  <2>2. CASE i \in 1..Len(s) /\ j \in 1..Len(s)
    BY <1>1, <1>5, <2>1, <2>2 DEF Ordered
  <2>3. CASE i \in 1..Len(s) /\ j \notin 1..Len(s)
    <3>1. c[i] = s[i] /\ j - Len(s) \in 1..Len(t) /\ c[j] = t[j - Len(s)]
      BY <1>1, <2>3
    <3>. QED  BY <1>5, <2>1, <2>3, <3>1 DEF Before
  <2>4. CASE i \notin 1..Len(s)
    <3>1. i - Len(s) \in 1..Len(t) /\ c[i] = t[i - Len(s)]
      BY <1>1, <2>4
    <3>2. j - Len(s) \in 1..Len(t) /\ c[j] = t[j - Len(s)] /\ i - Len(s) < j - Len(s)
      BY <1>1, <2>1, <2>4, <3>1
    <3>. QED  BY <1>5, <2>1, <3>1, <3>2 DEF Ordered
  <2>. QED  BY <2>2, <2>3, <2>4
<1>. QED  BY <1>2, <1>3, <1>4, <1>5 DEF c

LEMMA BeforeConcat ==
    ASSUME NEW s \in Seq(Numbers), NEW t \in Seq(Numbers), NEW u \in Seq(Numbers)
    PROVE  /\ Before(s \o t, u) <=> Before(s, u) /\ Before(t, u)
           /\ Before(u, s \o t) <=> Before(u, s) /\ Before(u, t)
<1> DEFINE c == s \o t
<1>1. /\ Len(s) \in Nat /\ Len(t) \in Nat
      /\ \A i \in 1..Len(s) : i \in 1..Len(c) /\ c[i] = s[i]
      /\ \A j \in 1..Len(t) : Len(s) + j \in 1..Len(c) /\ c[Len(s) + j] = t[j]
      /\ \A i \in 1..Len(c) : i \in 1..Len(s) \/ (i - Len(s) \in 1..Len(t) /\ c[i] = t[i - Len(s)])
  BY ConcatSplit
<1> HIDE DEF c
<1>2. Before(c, u) => Before(s, u) /\ Before(t, u)
  BY <1>1 DEF Before
<1>3. Before(s, u) /\ Before(t, u) => Before(c, u)
  BY <1>1 DEF Before
<1>4. Before(u, c) => Before(u, s) /\ Before(u, t)
  BY <1>1 DEF Before
<1>5. Before(u, s) /\ Before(u, t) => Before(u, c)
  BY <1>1 DEF Before
<1>. QED  BY <1>2, <1>3, <1>4, <1>5 DEF c

LEMMA UpToConcat ==
    ASSUME NEW s \in Seq(Numbers), NEW t \in Seq(Numbers), NEW n
    PROVE  UpTo(s \o t, n) <=> UpTo(s, n) /\ UpTo(t, n)
<1> DEFINE c == s \o t
<1>1. /\ Len(s) \in Nat /\ Len(t) \in Nat
      /\ \A i \in 1..Len(s) : i \in 1..Len(c) /\ c[i] = s[i]
      /\ \A j \in 1..Len(t) : Len(s) + j \in 1..Len(c) /\ c[Len(s) + j] = t[j]
      /\ \A i \in 1..Len(c) : i \in 1..Len(s) \/ (i - Len(s) \in 1..Len(t) /\ c[i] = t[i - Len(s)])
  BY ConcatSplit
<1> HIDE DEF c
<1>2. UpTo(c, n) => UpTo(s, n) /\ UpTo(t, n)
  BY <1>1 DEF UpTo
<1>3. UpTo(s, n) /\ UpTo(t, n) => UpTo(c, n)
  BY <1>1 DEF UpTo
<1>. QED  BY <1>2, <1>3 DEF c

LEMMA OneNumber ==
    ASSUME NEW x \in Numbers
    PROVE  <<x>> \in Seq(Numbers) /\ Len(<<x>>) = 1 /\ <<x>>[1] = x
  OBVIOUS

\* The program takes the first word of the ring.
LEMMA LinePop ==
    ASSUME NEW r \in Seq(Numbers), NEW w \in Seq(Numbers), NEW u \in Seq(Numbers),
           NEW x \in Numbers, NEW n, Line(r, <<x>> \o w, u, n)
    PROVE  Line(Append(r, x), w, u, n)
<1> DEFINE v == <<x>>
<1>1. v \in Seq(Numbers)
  BY OneNumber
<1>2. Append(r, x) = r \o v
  BY AppendIsConcat
<1> HIDE DEF v
<1>3. /\ Ordered(r) /\ Ordered(v \o w) /\ Ordered(u)
      /\ Before(r, v \o w) /\ Before(r, u) /\ Before(v \o w, u)
      /\ UpTo(r, n) /\ UpTo(v \o w, n) /\ UpTo(u, n)
  BY DEF Line, v
<1>4. Ordered(v) /\ Ordered(w) /\ Before(v, w)
  BY <1>1, <1>3, OrderedConcat
<1>5. Before(r, v) /\ Before(r, w) /\ Before(v, u) /\ Before(w, u)
  BY <1>1, <1>3, BeforeConcat
<1>6. UpTo(v, n) /\ UpTo(w, n)
  BY <1>1, <1>3, UpToConcat
<1>7. Ordered(r \o v) /\ Before(r \o v, w) /\ Before(r \o v, u) /\ UpTo(r \o v, n)
  BY <1>1, <1>3, <1>4, <1>5, <1>6, OrderedConcat, BeforeConcat, UpToConcat
<1>. QED  BY <1>2, <1>3, <1>4, <1>5, <1>6, <1>7 DEF Line

\* A code leaves the controller: without a word in the ring, or with one.
LEMMA LineRead ==
    ASSUME NEW r \in Seq(Numbers), NEW w \in Seq(Numbers), NEW u \in Seq(Numbers),
           NEW x \in Numbers, NEW n, Line(r, w, <<x>> \o u, n)
    PROVE  Line(r, w, u, n) /\ Line(r, Append(w, x), u, n)
<1> DEFINE v == <<x>>
<1>1. v \in Seq(Numbers)
  BY OneNumber
<1>2. Append(w, x) = w \o v
  BY AppendIsConcat
<1> HIDE DEF v
<1>3. /\ Ordered(r) /\ Ordered(w) /\ Ordered(v \o u)
      /\ Before(r, w) /\ Before(r, v \o u) /\ Before(w, v \o u)
      /\ UpTo(r, n) /\ UpTo(w, n) /\ UpTo(v \o u, n)
  BY DEF Line, v
<1>4. Ordered(v) /\ Ordered(u) /\ Before(v, u)
  BY <1>1, <1>3, OrderedConcat
<1>5. Before(r, v) /\ Before(r, u) /\ Before(w, v) /\ Before(w, u)
  BY <1>1, <1>3, BeforeConcat
<1>6. UpTo(v, n) /\ UpTo(u, n)
  BY <1>1, <1>3, UpToConcat
<1>7. Ordered(w \o v) /\ Before(r, w \o v) /\ Before(w \o v, u) /\ UpTo(w \o v, n)
  BY <1>1, <1>3, <1>4, <1>5, <1>6, OrderedConcat, BeforeConcat, UpToConcat
<1>. QED  BY <1>2, <1>3, <1>4, <1>5, <1>6, <1>7 DEF Line

\* Ctrl-Break leaves a zero word in the ring.
LEMMA LineBreak ==
    ASSUME NEW r \in Seq(Numbers), NEW w \in Seq(Numbers), NEW u \in Seq(Numbers),
           NEW n \in Nat, Line(r, w, u, n)
    PROVE  Line(r, <<0>>, u, n)
<1>1. Len(<<0>>) = 1 /\ <<0>>[1] = 0
  OBVIOUS
<1>2. Ordered(<<0>>) /\ Before(r, <<0>>) /\ Before(<<0>>, u) /\ UpTo(<<0>>, n)
  BY <1>1 DEF Ordered, Before, UpTo
<1>. QED  BY <1>2 DEF Line

\* A new event's codes join the line at its end.
LEMMA LineAdd ==
    ASSUME NEW r \in Seq(Numbers), NEW w \in Seq(Numbers), NEW u \in Seq(Numbers),
           NEW v \in Seq(Numbers), NEW n \in Nat, Line(r, w, u, n),
           \A i \in 1..Len(v) : v[i] \in {0, n + 1}, Ordered(v)
    PROVE  Line(r, w, u \o v, n + 1)
<1>1. ASSUME NEW s \in Seq(Numbers), UpTo(s, n) PROVE Before(s, v) /\ UpTo(s, n + 1)
  <2>1. \A i \in 1..Len(s) : s[i] \in Int /\ s[i] <= n
    <3>1. \A i \in 1..Len(s) : s[i] \in Numbers
      BY ElementOfSeq
    <3>. QED  BY <1>1, <3>1 DEF UpTo, Numbers
  <2>. QED  BY <2>1 DEF Before, UpTo
<1>2. UpTo(v, n + 1)
  BY DEF UpTo
<1>3. /\ Before(r, v) /\ Before(w, v) /\ Before(u, v)
      /\ UpTo(r, n + 1) /\ UpTo(w, n + 1) /\ UpTo(u, n + 1)
  BY <1>1 DEF Line
<1>4. /\ Ordered(u \o v) /\ Before(r, u \o v) /\ Before(w, u \o v) /\ UpTo(u \o v, n + 1)
  BY <1>2, <1>3, OrderedConcat, BeforeConcat, UpToConcat DEF Line
<1>. QED  BY <1>3, <1>4 DEF Line

----------------------------------------------------------------------------
(* The numbers of the codes in the controller.                             *)

NumberOf(code) == IF code.key = "letter" THEN code.num ELSE 0

LEMMA NumberType ==
    ASSUME NEW code \in Bytes
    PROVE  NumberOf(code) \in Numbers
<1>1. CASE code \in Codes
  BY <1>1, BoundsAssumption DEF Codes, NumberOf, Numbers
<1>2. CASE code = NoKey
  BY <1>2, BoundsAssumption DEF NoKey, NumberOf, Numbers
<1>. QED  BY <1>1, <1>2 DEF Bytes

LEMMA NumberedIs ==
    ASSUME NEW s \in Seq(Bytes)
    PROVE  /\ Numbered(s) \in Seq(Numbers) /\ Len(Numbered(s)) = Len(s) /\ Len(s) \in Nat
           /\ \A i \in 1..Len(s) : Numbered(s)[i] = NumberOf(s[i])
<1>1. Len(s) \in Nat /\ \A i \in 1..Len(s) : s[i] \in Bytes
  BY LenProperties, ElementOfSeq
<1>2. \A i \in 1..Len(s) : NumberOf(s[i]) \in Numbers
  BY <1>1, NumberType
<1>3. Numbered(s) = [i \in 1..Len(s) |-> NumberOf(s[i])]
  BY DEF Numbered, NumberOf
<1>4. /\ [i \in 1..Len(s) |-> NumberOf(s[i])] \in Seq(Numbers)
      /\ Len([i \in 1..Len(s) |-> NumberOf(s[i])]) = Len(s)
  BY <1>1, <1>2
<1>. QED  BY <1>1, <1>3, <1>4

LEMMA NumberedConcat ==
    ASSUME NEW s \in Seq(Bytes), NEW t \in Seq(Bytes)
    PROVE  Numbered(s \o t) = Numbered(s) \o Numbered(t)
<1> DEFINE c == s \o t
           a == Numbered(s)
           b == Numbered(t)
           l == Numbered(c)
           d == a \o b
<1>1. /\ c \in Seq(Bytes) /\ Len(s) \in Nat /\ Len(t) \in Nat /\ Len(c) = Len(s) + Len(t)
      /\ \A i \in 1..(Len(s) + Len(t)) : c[i] = IF i <= Len(s) THEN s[i] ELSE t[i - Len(s)]
  BY ConcatProperties, LenProperties
<1>2. /\ a \in Seq(Numbers) /\ Len(a) = Len(s) /\ \A i \in 1..Len(s) : a[i] = NumberOf(s[i])
      /\ b \in Seq(Numbers) /\ Len(b) = Len(t) /\ \A i \in 1..Len(t) : b[i] = NumberOf(t[i])
  BY NumberedIs
<1> HIDE DEF c
<1>3. l \in Seq(Numbers) /\ Len(l) = Len(c) /\ \A i \in 1..Len(c) : l[i] = NumberOf(c[i])
  BY <1>1, NumberedIs
<1> HIDE DEF a, b, l
<1>4. /\ d \in Seq(Numbers) /\ Len(d) = Len(a) + Len(b)
      /\ \A i \in 1..(Len(a) + Len(b)) : d[i] = IF i <= Len(a) THEN a[i] ELSE b[i - Len(a)]
  <2>1. a \in Seq(Numbers) /\ b \in Seq(Numbers)
    BY <1>2
  <2>. QED  BY <2>1, ConcatProperties
<1> HIDE DEF d
<1>5. ASSUME NEW i \in 1..Len(l) PROVE l[i] = d[i]
  <2>1. i \in 1..(Len(s) + Len(t)) /\ i \in 1..Len(c) /\ i \in 1..(Len(a) + Len(b))
    BY <1>1, <1>2, <1>3
  <2>2. CASE i <= Len(s)
    <3>1. i \in 1..Len(s)
      BY <1>1, <2>1, <2>2
    <3>. QED  BY <1>1, <1>2, <1>3, <1>4, <2>1, <2>2, <3>1
  <2>3. CASE ~(i <= Len(s))
    <3>1. i - Len(s) \in 1..Len(t)
      BY <1>1, <2>1, <2>3
    <3>2. c[i] = t[i - Len(s)] /\ d[i] = b[i - Len(s)]
      BY <1>1, <1>2, <1>4, <2>1, <2>3
    <3>. QED  BY <1>2, <1>3, <2>1, <3>1, <3>2
  <2>. QED  BY <2>2, <2>3
<1>6. l = d
  <2>1. Len(l) = Len(d)
    BY <1>1, <1>2, <1>3, <1>4
  <2>. QED  BY <1>3, <1>4, <1>5, <2>1, SeqEqual
<1>. QED  BY <1>6 DEF l, c, d, a, b

LEMMA NumberedOne ==
    ASSUME NEW code \in Bytes
    PROVE  Numbered(<<code>>) = <<NumberOf(code)>>
<1> DEFINE s == <<code>>
<1>1. s \in Seq(Bytes) /\ Len(s) = 1 /\ s[1] = code
  OBVIOUS
<1> HIDE DEF s
<1>2. /\ Numbered(s) \in Seq(Numbers) /\ Len(Numbered(s)) = 1
      /\ Numbered(s)[1] = NumberOf(code)
  BY <1>1, NumberedIs
<1>3. NumberOf(code) \in Numbers
  BY NumberType
<1>4. Numbered(s) = <<NumberOf(code)>>
  BY <1>2, <1>3, OneNumber, SeqEqual
<1>. QED  BY <1>4 DEF s

\* The invariant: the line is in order, and no key is newer than the last event.
InLine == Line(received, Waiting, Numbered(Kbd!Unread), events)

LEMMA LineTypes ==
    ASSUME TypeOK
    PROVE  /\ received \in Seq(Numbers) /\ Waiting \in Seq(Numbers)
           /\ Numbered(Kbd!Unread) \in Seq(Numbers) /\ Kbd!Unread \in Seq(Bytes)
           /\ events \in Nat
<1>1. Kbd!Unread \in Seq(Bytes)
  BY ByteTypes, UnreadIs
<1>2. events \in Nat
  BY DEF TypeOK, Numbers
<1>. QED  BY <1>1, <1>2, WaitingWords, NumberedIs DEF TypeOK

LEMMA LineIsOrdered == TypeOK /\ InLine => InOrder
<1> SUFFICES ASSUME TypeOK, InLine PROVE InOrder
  OBVIOUS
<1> DEFINE r == received
           w == Waiting
           u == Numbered(Kbd!Unread)
<1>1. r \in Seq(Numbers) /\ w \in Seq(Numbers) /\ u \in Seq(Numbers)
  BY LineTypes
<1>2. Line(r, w, u, events)
  BY DEF InLine
<1>3. Pipeline = r \o w \o u
  BY DEF Pipeline
<1> HIDE DEF r, w, u
<1>4. r \o w \in Seq(Numbers)
  BY <1>1, ConcatProperties
<1>5. Ordered(r \o w) /\ Before(r \o w, u)
  BY <1>1, <1>2, OrderedConcat, BeforeConcat DEF Line
<1>6. Ordered(r \o w \o u)
  BY <1>1, <1>2, <1>4, <1>5, OrderedConcat DEF Line
<1>. QED  BY <1>3, <1>6 DEF InOrder, Ordered

LEMMA InitInLine == Init => InLine
<1> SUFFICES ASSUME Init PROVE InLine
  OBVIOUS
<1>1. TypeOK
  BY InitControl DEF Control
<1>2. Waiting \in Seq(Numbers) /\ Len(Waiting) = 0
  <2>1. head = tail
    BY DEF Init
  <2>. QED  BY <1>1, <2>1, WaitingWords, WordsAre DEF Places
<1>3. received \in Seq(Numbers) /\ Len(received) = 0
  BY DEF Init
<1>4. Numbered(Kbd!Unread) = <<0>>
  <2>1. NoKey \in Bytes /\ NumberOf(NoKey) = 0
    BY DEF Bytes, NumberOf, NoKey
  <2>2. Kbd!Unread = <<NoKey>>
    <3>1. queue = <<NoKey>> /\ queue \in Seq(Bytes) /\ out \in Bytes /\ ~obf
      BY <1>1, ByteTypes DEF Init
    <3>. QED  BY <3>1, UnreadIs
  <2>. QED  BY <2>1, <2>2, NumberedOne
<1>5. events = 0
  BY DEF Init
<1>6. Len(<<0>>) = 1 /\ <<0>>[1] = 0
  OBVIOUS
<1>7. Line(received, Waiting, <<0>>, 0)
  BY <1>2, <1>3, <1>6 DEF Line, Ordered, Before, UpTo
<1>. QED  BY <1>4, <1>5, <1>7 DEF InLine

----------------------------------------------------------------------------
(* Every step keeps the line in order.                                     *)

\* Steps that touch neither buffer.
LEMMA LineSame ==
    ASSUME TypeOK, InLine, UNCHANGED <<slots, head, tail, received, events>>,
           Kbd!Unread' = Kbd!Unread
    PROVE  InLine'
<1>1. Waiting' = Waiting
  BY DEF Waiting
<1>2. Numbered(Kbd!Unread)' = Numbered(Kbd!Unread)
  BY DEF Numbered
<1>. QED  BY <1>1, <1>2 DEF InLine

\* EV_KBD moves a code from the queue to the output buffer.
LEMMA DeliverUnread ==
    ASSUME TypeOK, Kbd!Deliver
    PROVE  Kbd!Unread' = Kbd!Unread
<1>1. queue \in Seq(Bytes) /\ out \in Bytes /\ obf \in BOOLEAN
  BY ByteTypes
<1>2. CASE obf \/ queue = << >>
  BY <1>2 DEF Kbd!Deliver, Kbd!Unread
<1>3. CASE ~obf /\ queue # << >>
  <2>1. out' = Head(queue) /\ queue' = Tail(queue) /\ obf' = TRUE
    BY <1>3 DEF Kbd!Deliver
  <2>2. Kbd!Unread' = <<Head(queue)>> \o Tail(queue)
    BY <2>1 DEF Kbd!Unread
  <2>3. Kbd!Unread = queue
    BY <1>1, <1>3, UnreadIs
  <2>4. <<Head(queue)>> \o Tail(queue) = queue
    BY <1>1, <1>3
  <2>. QED  BY <2>2, <2>3, <2>4
<1>. QED  BY <1>1, <1>2, <1>3

\* A read takes the first of the unread codes.
LEMMA ReadUnread ==
    ASSUME TypeOK, Kbd!ReadData, obf
    PROVE  /\ Kbd!Unread = <<out>> \o Kbd!Unread'
           /\ Kbd!Unread' \in Seq(Bytes) /\ out \in Bytes
<1>1. queue \in Seq(Bytes) /\ out \in Bytes /\ obf \in BOOLEAN
  BY ByteTypes
<1>2. queue' = queue /\ obf' = FALSE
  BY DEF Kbd!ReadData
<1>3. Kbd!Unread = <<out>> \o queue
  BY <1>1, UnreadIs
<1>4. Kbd!Unread' = << >> \o queue
  BY <1>2 DEF Kbd!Unread
<1>5. << >> \o queue = queue
  BY <1>1, ConcatEmptySeq
<1>. QED  BY <1>1, <1>3, <1>4, <1>5

\* A push adds the codes that fit.
LEMMA PushUnread ==
    ASSUME TypeOK, NEW bs \in Seq(Bytes), Kbd!PushScancodes(bs)
    PROVE  Kbd!Unread' = Kbd!Unread \o Kbd!Fitting(bs)
<1>1. /\ queue \in Seq(Bytes) /\ out \in Bytes /\ obf \in BOOLEAN
      /\ Kbd!Fitting(bs) \in Seq(Bytes)
  BY ByteTypes, FittingIs
<1>2. queue' = queue \o Kbd!Fitting(bs) /\ out' = out /\ obf' = obf
  BY DEF Kbd!PushScancodes, Kbd!QueueBytes
<1> DEFINE f == Kbd!Fitting(bs)
           b == IF obf THEN <<out>> ELSE << >>
<1>3. b \in Seq(Bytes)
  BY <1>1
<1>4. Kbd!Unread = b \o queue
  BY DEF Kbd!Unread
<1>5. Kbd!Unread' = b \o (queue \o f)
  BY <1>2 DEF Kbd!Unread
<1> HIDE DEF f, b
<1>6. (b \o queue) \o f = b \o (queue \o f)
  BY <1>1, <1>3, ConcatAssociative DEF f
<1>. QED  BY <1>4, <1>5, <1>6 DEF f

\* The numbers an event adds: that of its letter, if it has one.
LEMMA EventNumbers ==
    ASSUME TypeOK, events < MaxEvents, NEW bs \in {Letter, LeftCtrl, RightCtrl, Break},
           bs \in Seq(Bytes)
    PROVE  /\ Numbered(Kbd!Fitting(bs)) \in Seq(Numbers)
           /\ Ordered(Numbered(Kbd!Fitting(bs)))
           /\ \A i \in 1..Len(Numbered(Kbd!Fitting(bs))) :
                  Numbered(Kbd!Fitting(bs))[i] \in {0, events + 1}
<1> DEFINE f == Kbd!Fitting(bs)
           l == Numbered(f)
<1>1. /\ f \in Seq(Bytes) /\ Len(f) \in Nat /\ Len(f) <= Len(bs)
      /\ \A i \in 1..Len(f) : f[i] = bs[i]
  BY FittingIs, LenProperties
<1> HIDE DEF f
<1>2. l \in Seq(Numbers) /\ Len(l) = Len(f) /\ \A i \in 1..Len(f) : l[i] = NumberOf(f[i])
  BY <1>1, NumberedIs
<1> HIDE DEF l
<1>3. \/ Len(bs) = 1 /\ NumberOf(bs[1]) \in {0, events + 1}
      \/ Len(bs) = 2 /\ NumberOf(bs[1]) = 0 /\ NumberOf(bs[2]) = 0
  BY DEF Letter, LeftCtrl, RightCtrl, Break, Code, NumberOf
<1>4. \A i \in 1..Len(l) : l[i] = NumberOf(bs[i]) /\ i \in 1..Len(bs)
  BY <1>1, <1>2, <1>3
<1>5. \A i \in 1..Len(l) : l[i] \in {0, events + 1}
  BY <1>3, <1>4
<1>6. Ordered(l)
  BY <1>3, <1>4 DEF Ordered
<1>. QED  BY <1>2, <1>5, <1>6 DEF l, f

LEMMA PushInLine ==
    ASSUME TypeOK, InLine, NEW bs \in {Letter, LeftCtrl, RightCtrl, Break}, NEW after,
           Push(bs, after)
    PROVE  InLine'
<1>1. /\ events < MaxEvents /\ events' = events + 1 /\ Kbd!PushScancodes(bs)
      /\ UNCHANGED <<slots, head, tail, received>>
  BY DEF Push, bios, prog
<1>2. bs \in Seq(Bytes)
  BY <1>1, EventCodes
<1> DEFINE v == Numbered(Kbd!Fitting(bs))
           u == Numbered(Kbd!Unread)
<1>3. Kbd!Unread' = Kbd!Unread \o Kbd!Fitting(bs)
  BY <1>1, <1>2, PushUnread
<1>4. Numbered(Kbd!Unread)' = u \o v
  <2>1. Kbd!Unread \in Seq(Bytes) /\ Kbd!Fitting(bs) \in Seq(Bytes)
    BY <1>2, LineTypes, FittingIs
  <2>2. Numbered(Kbd!Unread)' = Numbered(Kbd!Unread \o Kbd!Fitting(bs))
    BY <1>3 DEF Numbered
  <2>. QED  BY <2>1, <2>2, NumberedConcat
<1>5. v \in Seq(Numbers) /\ Ordered(v) /\ \A i \in 1..Len(v) : v[i] \in {0, events + 1}
  BY <1>1, <1>2, EventNumbers
<1>6. Line(received, Waiting, u, events)
  BY DEF InLine
<1>7. received \in Seq(Numbers) /\ Waiting \in Seq(Numbers) /\ u \in Seq(Numbers) /\ events \in Nat
  BY LineTypes
<1> HIDE DEF u, v
<1>8. Line(received, Waiting, u \o v, events + 1)
  BY <1>5, <1>6, <1>7, LineAdd
<1>9. Waiting' = Waiting /\ received' = received
  BY <1>1 DEF Waiting
<1>. QED  BY <1>1, <1>4, <1>8, <1>9 DEF InLine

LEMMA Int9InLine ==
    ASSUME Control, InLine, Int9
    PROVE  InLine'
<1>1. TypeOK /\ obf /\ Kbd!ReadData /\ bios_kbd_scancode(out) /\ UNCHANGED <<received, events>>
  BY ByteIsThere DEF Int9, Control, host, prog
<1>2. /\ Kbd!Unread = <<out>> \o Kbd!Unread'
      /\ Kbd!Unread' \in Seq(Bytes) /\ out \in Bytes
  BY <1>1, ReadUnread
<1> DEFINE x == NumberOf(out)
           u == Numbered(Kbd!Unread')
<1>3. Numbered(Kbd!Unread) = <<x>> \o u
  <2>1. <<out>> \in Seq(Bytes)
    BY <1>2
  <2>2. Numbered(Kbd!Unread) = Numbered(<<out>> \o Kbd!Unread')
    BY <1>2
  <2>3. Numbered(<<out>> \o Kbd!Unread') = Numbered(<<out>>) \o Numbered(Kbd!Unread')
    BY <1>2, <2>1, NumberedConcat
  <2>. QED  BY <1>2, <2>2, <2>3, NumberedOne
<1>4. Numbered(Kbd!Unread)' = u
  BY DEF Numbered
<1>5. /\ received \in Seq(Numbers) /\ Waiting \in Seq(Numbers) /\ u \in Seq(Numbers)
      /\ x \in Numbers /\ events \in Nat
  BY <1>1, <1>2, LineTypes, NumberedIs, NumberType
<1>6. /\ Waiting = WordsOf(slots, head, tail)
      /\ slots \in [Places -> Numbers] /\ head \in Places /\ tail \in Places
  BY <1>1, WaitingWords
<1>7. Waiting' = WordsOf(slots', head', tail')
  BY DEF Waiting, WordsOf
<1>8. Line(received, Waiting, <<x>> \o u, events)
  BY <1>3 DEF InLine
<1> HIDE DEF u
<1>9. Line(received, Waiting, u, events) /\ Line(received, Append(Waiting, x), u, events)
  BY <1>5, <1>8, LineRead
<1>10. Waiting' \in {Waiting, Append(Waiting, x), <<0>>}
  <2>1. CASE out.key = "letter" /\ ~out.up
    <3>1. kbuf_push(out.num) /\ x = out.num
      BY <1>1, <2>1 DEF bios_kbd_scancode, NumberOf
    <3>2. CASE After(tail) = head
      BY <1>6, <1>7, <3>1, <3>2 DEF kbuf_push, ring
    <3>3. CASE After(tail) # head
      <4>1. slots' = [slots EXCEPT ![tail] = x] /\ tail' = After(tail) /\ head' = head
        BY <3>1, <3>3 DEF kbuf_push
      <4>2. WordsOf([slots EXCEPT ![tail] = x], head, After(tail)) = Append(WordsOf(slots, head, tail), x)
        BY <1>5, <1>6, <3>3, RingPush
      <4>. QED  BY <1>6, <1>7, <4>1, <4>2
    <3>. QED  BY <3>2, <3>3
  <2>2. CASE /\ ~(out.key = "letter" /\ ~out.up)
             /\ out.key = "scroll" /\ ~out.up /\ shifts.e0 /\ (shifts.left \/ shifts.right)
    <3>1. head' = 0 /\ tail' = After(0) /\ slots' = [slots EXCEPT ![0] = 0]
      BY <1>1, <2>2 DEF bios_kbd_scancode
    <3>. QED  BY <1>6, <1>7, <3>1, RingBroken
  <2>3. CASE /\ ~(out.key = "letter" /\ ~out.up)
             /\ ~(out.key = "scroll" /\ ~out.up /\ shifts.e0 /\ (shifts.left \/ shifts.right))
    <3>1. UNCHANGED ring
      BY <1>1, <2>3 DEF bios_kbd_scancode
    <3>. QED  BY <1>6, <1>7, <3>1 DEF ring
  <2>. QED  BY <2>1, <2>2, <2>3
<1>11. Line(received, Waiting', u, events)
  BY <1>5, <1>9, <1>10, LineBreak
<1>. QED  BY <1>1, <1>4, <1>11 DEF InLine

LEMMA Int16InLine ==
    ASSUME TypeOK, InLine, Int16
    PROVE  InLine'
<1>1. UNCHANGED <<kbc, slots, tail, events>>
  BY DEF Int16, host, kbc
<1>2. Kbd!Unread' = Kbd!Unread
  BY <1>1 DEF kbc, Kbd!Unread
<1>3. CASE head = tail
  <2>1. UNCHANGED <<head, received>>
    BY <1>3 DEF Int16
  <2>. QED  BY <1>1, <1>2, <2>1, LineSame
<1>4. CASE head # tail
  <2>1. received' = Append(received, slots[head]) /\ head' = After(head)
    BY <1>4 DEF Int16, kbuf_pop
  <2> DEFINE x == slots[head]
             w == WordsOf(slots, After(head), tail)
             u == Numbered(Kbd!Unread)
  <2>2. /\ Waiting = WordsOf(slots, head, tail)
        /\ slots \in [Places -> Numbers] /\ head \in Places /\ tail \in Places
    BY WaitingWords
  <2>3. x \in Numbers /\ After(head) \in Places /\ Waiting = <<x>> \o w
    BY <1>4, <2>2, RingPop
  <2>4. Waiting' = w
    BY <1>1, <2>1 DEF Waiting, WordsOf
  <2>5. /\ received \in Seq(Numbers) /\ u \in Seq(Numbers) /\ w \in Seq(Numbers)
    BY <2>2, <2>3, LineTypes, WordsAre
  <2>6. Line(received, <<x>> \o w, u, events)
    BY <2>3 DEF InLine
  <2>7. Numbered(Kbd!Unread)' = u
    BY <1>2 DEF Numbered
  <2> HIDE DEF x, w, u
  <2>8. Line(Append(received, x), w, u, events)
    BY <2>3, <2>5, <2>6, LinePop
  <2>9. received' = Append(received, x)
    BY <2>1 DEF x
  <2>. QED  BY <1>1, <2>4, <2>7, <2>8, <2>9 DEF InLine
<1>. QED  BY <1>3, <1>4

LEMMA StepInLine == Control /\ InLine /\ [Next]_vars => InLine'
<1> SUFFICES ASSUME Control, InLine, [Next]_vars PROVE InLine'
  OBVIOUS
<1>1. TypeOK
  BY DEF Control
<1>2. CASE HostKey
  <2>1. /\ Letter \in {Letter, LeftCtrl, RightCtrl, Break}
        /\ LeftCtrl \in {Letter, LeftCtrl, RightCtrl, Break}
        /\ RightCtrl \in {Letter, LeftCtrl, RightCtrl, Break}
        /\ Break \in {Letter, LeftCtrl, RightCtrl, Break}
    OBVIOUS
  <2>. QED  BY <1>1, <1>2, <2>1, PushInLine DEF HostKey
<1>3. CASE Deliver
  <2>1. UNCHANGED <<slots, head, tail, received, events>> /\ Kbd!Deliver
    BY <1>3 DEF Deliver, bios, host, prog
  <2>. QED  BY <1>1, <2>1, DeliverUnread, LineSame
<1>4. CASE Int9
  BY <1>4, Int9InLine
<1>5. CASE Int16
  BY <1>1, <1>5, Int16InLine
<1>6. CASE \/ Tick \/ AcceptInterrupt \/ Wake \/ Int8 \/ StubEoi \/ StubIret
           \/ Compute \/ Call \/ Return \/ UNCHANGED vars
  <2>1. UNCHANGED <<kbc, slots, head, tail, received, events>>
    BY <1>6 DEF Tick, AcceptInterrupt, Wake, Int8, StubEoi, StubIret, Compute, Call, Return,
                vars, bios, host, prog
  <2>2. Kbd!Unread' = Kbd!Unread
    BY <2>1 DEF kbc, Kbd!Unread
  <2>. QED  BY <1>1, <2>1, <2>2, LineSame
<1>. QED  BY <1>2, <1>3, <1>4, <1>5, <1>6 DEF Next, CpuStep

\* For every queue, ring and program: keys reach the program in the order in which
\* they were pressed and each at most once, through the controller's queue and the
\* ring, across interrupts, full buffers and Ctrl-Break (queue_byte, kbuf_push,
\* kbuf_pop, bios_kbd_scancode).
THEOREM KeysInOrder == Spec => []InOrder
<1>1. Init => InLine
  BY InitInLine
<1>2. Control /\ InLine /\ [Next]_vars => InLine'
  BY StepInLine
<1>3. Control /\ InLine => InOrder
  BY LineIsOrdered DEF Control
<1>. QED  BY <1>1, <1>2, <1>3, ControlHolds, PTL DEF Spec

----------------------------------------------------------------------------
(* What the BIOS will believe of the shift keys.                           *)

ShiftStates == [e0 : BOOLEAN, left : BOOLEAN, right : BOOLEAN]

\* The states f the BIOS goes through from s while it decodes the codes q.
Run(f, s, q) ==
    /\ f \in [0..Len(q) -> ShiftStates]
    /\ f[0] = s
    /\ \A i \in 1..Len(q) : f[i] = Shifted(f[i - 1], q[i])

LEMMA ShiftedType ==
    ASSUME NEW s \in ShiftStates, NEW code \in Bytes
    PROVE  Shifted(s, code) \in ShiftStates
<1>1. code.up \in BOOLEAN
  <2>1. CASE code \in Codes
    BY <2>1 DEF Codes
  <2>2. CASE code = NoKey
    BY <2>2 DEF NoKey
  <2>. QED  BY <2>1, <2>2 DEF Bytes
<1>. QED  BY <1>1 DEF Shifted, ShiftStates

\* One code more.
LEMMA RunAppend ==
    ASSUME NEW q \in Seq(Bytes), NEW s, NEW f, Run(f, s, q), NEW code \in Bytes
    PROVE  \E g : /\ Run(g, s, Append(q, code))
                  /\ g[Len(q) + 1] = Shifted(f[Len(q)], code)
<1> DEFINE n == Len(q)
           p == Append(q, code)
           g == [i \in 0..(n + 1) |-> IF i <= n THEN f[i] ELSE Shifted(f[n], code)]
<1>1. /\ n \in Nat /\ p \in Seq(Bytes) /\ Len(p) = n + 1 /\ p[n + 1] = code
      /\ \A i \in 1..n : p[i] = q[i]
  BY LenProperties, AppendProperties
<1>2. f \in [0..n -> ShiftStates] /\ f[0] = s /\ \A i \in 1..n : f[i] = Shifted(f[i - 1], q[i])
  BY DEF Run
<1>3. Shifted(f[n], code) \in ShiftStates
  BY <1>1, <1>2, ShiftedType
<1> HIDE DEF n, p
<1>4. g \in [0..(n + 1) -> ShiftStates] /\ g[0] = s /\ g[n + 1] = Shifted(f[n], code)
  BY <1>1, <1>2, <1>3
<1>5. \A i \in 0..n : g[i] = f[i]
  BY <1>1
<1>6. ASSUME NEW i \in 1..(n + 1) PROVE g[i] = Shifted(g[i - 1], p[i])
  <2>1. CASE i = n + 1
    <3>1. g[i - 1] = f[n]
      BY <1>1, <1>5, <2>1
    <3>. QED  BY <1>1, <1>4, <2>1, <3>1
  <2>2. CASE i # n + 1
    <3>1. i \in 1..n /\ i \in 0..n /\ i - 1 \in 0..n
      BY <1>1, <2>2
    <3>. QED  BY <1>1, <1>2, <1>5, <3>1
  <2>. QED  BY <2>1, <2>2
<1> HIDE DEF g
<1>7. Run(g, s, p)
  BY <1>1, <1>4, <1>6 DEF Run
<1>. QED  BY <1>4, <1>7 DEF n, p

\* One code less.
LEMMA RunTail ==
    ASSUME NEW q \in Seq(Bytes), NEW code \in Bytes, NEW s, NEW f, Run(f, s, <<code>> \o q)
    PROVE  \E g : /\ Run(g, Shifted(s, code), q)
                  /\ g[Len(q)] = f[Len(<<code>> \o q)]
<1> DEFINE n == Len(q)
           p == <<code>> \o q
           g == [i \in 0..n |-> f[i + 1]]
<1>1. /\ n \in Nat /\ p \in Seq(Bytes) /\ Len(p) = n + 1 /\ p[1] = code
      /\ \A i \in 1..n : p[i + 1] = q[i]
  <2>1. <<code>> \in Seq(Bytes) /\ Len(<<code>>) = 1 /\ <<code>>[1] = code /\ n \in Nat
    BY LenProperties
  <2>2. /\ p \in Seq(Bytes) /\ Len(p) = 1 + n
        /\ \A i \in 1..(1 + n) : p[i] = IF i <= 1 THEN <<code>>[i] ELSE q[i - 1]
    BY <2>1, ConcatProperties
  <2> HIDE DEF n, p
  <2>3. p[1] = code
    BY <2>1, <2>2
  <2>4. ASSUME NEW i \in 1..n PROVE p[i + 1] = q[i]
    <3>1. i + 1 \in 1..(1 + n) /\ ~(i + 1 <= 1) /\ i + 1 - 1 = i
      BY <2>1
    <3>. QED  BY <2>2, <3>1
  <2>. QED  BY <2>1, <2>2, <2>3, <2>4
<1>2. /\ f \in [0..Len(p) -> ShiftStates] /\ f[0] = s
      /\ \A i \in 1..Len(p) : f[i] = Shifted(f[i - 1], p[i])
  BY DEF Run
<1> HIDE DEF n, p
<1>3. f[1] = Shifted(s, code)
  <2>1. 1 \in 1..Len(p) /\ 1 - 1 = 0
    BY <1>1
  <2>. QED  BY <1>1, <1>2, <2>1
<1>4. g \in [0..n -> ShiftStates] /\ g[0] = Shifted(s, code) /\ g[n] = f[n + 1]
  BY <1>1, <1>2, <1>3
<1>5. ASSUME NEW i \in 1..n PROVE g[i] = Shifted(g[i - 1], q[i])
  <2>1. i + 1 \in 1..Len(p) /\ i + 1 - 1 = i /\ i \in 0..n /\ i - 1 \in 0..n /\ i - 1 + 1 = i
    BY <1>1
  <2>2. f[i + 1] = Shifted(f[i], p[i + 1])
    BY <1>2, <2>1
  <2>3. g[i] = f[i + 1] /\ g[i - 1] = f[i]
    BY <2>1
  <2>. QED  BY <1>1, <2>2, <2>3
<1> HIDE DEF g
<1>6. Run(g, Shifted(s, code), q)
  BY <1>1, <1>4, <1>5 DEF Run, n
<1>. QED  BY <1>1, <1>4, <1>6 DEF n, p

LEMMA FirstOfMany ==
    ASSUME NEW T \in SUBSET Nat, T # {}
    PROVE  \E x \in T : \A y \in T : x <= y
<1>1. PICK x \in T : \A y \in T : <<y, x>> \notin OpToRel(<, Nat)
  BY WFMin, NatLessThanWellFounded
<1>2. \A y \in T : ~(y < x)
  BY <1>1 DEF OpToRel
<1>. QED  BY <1>2

\* The BIOS's computation is one, so two runs agree.
LEMMA RunsAgree ==
    ASSUME NEW n \in Nat, NEW s, NEW q, NEW f, NEW g,
           f[0] = s, \A i \in 1..n : f[i] = Shifted(f[i - 1], q[i]),
           g[0] = s, \A i \in 1..n : g[i] = Shifted(g[i - 1], q[i])
    PROVE  f[n] = g[n]
<1> DEFINE T == {i \in 0..n : f[i] # g[i]}
<1>1. SUFFICES ASSUME f[n] # g[n] PROVE FALSE
  OBVIOUS
<1>2. T \in SUBSET Nat /\ n \in T
  BY <1>1
<1>3. PICK i \in T : \A j \in T : i <= j
  BY <1>2, FirstOfMany
<1>4. i \in 1..n /\ f[i] # g[i]
  BY <1>3
<1>5. i - 1 \in 0..n /\ ~(i <= i - 1)
  BY <1>4
<1>6. f[i - 1] = g[i - 1]
  BY <1>3, <1>5
<1>. QED  BY <1>4, <1>6

\* The invariant: at the end of the unread codes the BIOS has no prefix pending, and
\* what it believes of both keys is true of them.
Followed ==
    ~cut => \E f : /\ Run(f, shifts, Kbd!Unread)
                   /\ LET believed == f[Len(Kbd!Unread)]
                      IN  ~believed.e0 /\ believed.left = held.left /\ believed.right = held.right

LEMMA FollowedIsBelieved == TypeOK /\ Followed => ShiftsFollowKeys
<1> SUFFICES ASSUME TypeOK, Followed PROVE ShiftsFollowKeys
  OBVIOUS
<1> DEFINE q == Kbd!Unread
           n == Len(q)
           Step(g) == [i \in 0..n |-> IF i = 0 THEN shifts ELSE Shifted(g[i - 1], q[i])]
           h == CHOOSE g : g = Step(g)
<1>1. SUFFICES ASSUME ~cut PROVE h[n].left = held.left /\ h[n].right = held.right
  BY DEF ShiftsFollowKeys
<1>2. PICK f : /\ Run(f, shifts, q)
               /\ f[n].left = held.left /\ f[n].right = held.right
  BY <1>1 DEF Followed
<1>3. n \in Nat
  BY LineTypes, LenProperties
<1>4. f = Step(f)
  <2>1. f = [i \in 0..n |-> f[i]]
    BY <1>2 DEF Run
  <2>2. \A i \in 0..n : f[i] = Step(f)[i]
    BY <1>2, <1>3 DEF Run
  <2>. QED  BY <2>1, <2>2
<1>5. h = Step(h)
  BY <1>4
<1>6. h[0] = shifts /\ \A i \in 1..n : h[i] = Shifted(h[i - 1], q[i])
  <2> HIDE DEF h, n, q
  <2>1. ASSUME NEW i \in 0..n PROVE h[i] = Step(h)[i]
    BY <1>5, Zenon
  <2>2. Step(h)[0] = shifts
    BY <1>3
  <2>3. ASSUME NEW i \in 1..n PROVE Step(h)[i] = Shifted(h[i - 1], q[i])
    <3>1. i \in 0..n /\ i # 0
      BY <1>3
    <3>. QED  BY <3>1
  <2>4. 0 \in 0..n /\ \A i \in 1..n : i \in 0..n
    BY <1>3
  <2> HIDE DEF Step
  <2>. QED  BY <2>1, <2>2, <2>3, <2>4
<1>7. f[0] = shifts /\ \A i \in 1..n : f[i] = Shifted(f[i - 1], q[i])
  BY <1>2 DEF Run
<1> HIDE DEF h, n, q
<1>8. f[n] = h[n]
  BY <1>3, <1>6, <1>7, RunsAgree
<1>. QED  BY <1>2, <1>8

LEMMA InitFollowed == Init => Followed
<1> SUFFICES ASSUME Init PROVE Followed
  OBVIOUS
<1>1. TypeOK
  BY InitControl DEF Control
<1>2. Kbd!Unread = <<NoKey>>
  <2>1. queue = <<NoKey>> /\ queue \in Seq(Bytes) /\ out \in Bytes /\ ~obf
    BY <1>1, ByteTypes DEF Init
  <2>. QED  BY <2>1, UnreadIs
<1> DEFINE s == [e0 |-> FALSE, left |-> FALSE, right |-> FALSE]
           f == [i \in 0..1 |-> s]
<1>3. shifts = s /\ held.left = FALSE /\ held.right = FALSE
  BY DEF Init, BothUp
<1>4. Shifted(s, NoKey) = s
  BY DEF Shifted, NoKey
<1>5. s \in ShiftStates /\ s.e0 = FALSE /\ s.left = FALSE /\ s.right = FALSE
  BY DEF ShiftStates
<1> HIDE DEF s
<1>6. Len(<<NoKey>>) = 1 /\ <<NoKey>>[1] = NoKey
  OBVIOUS
<1>7. Run(f, s, <<NoKey>>) /\ f[1] = s
  BY <1>4, <1>5, <1>6 DEF Run
<1>. QED  BY <1>2, <1>3, <1>5, <1>6, <1>7 DEF Followed

----------------------------------------------------------------------------
(* Every step keeps what will be believed.                                 *)

LEMMA FollowedSame ==
    ASSUME Followed, UNCHANGED <<shifts, held, cut>>, Kbd!Unread' = Kbd!Unread
    PROVE  Followed'
  BY DEF Followed, Run

LEMMA Int9Followed ==
    ASSUME Control, Followed, Int9
    PROVE  Followed'
<1>1. TypeOK /\ obf /\ Kbd!ReadData /\ bios_kbd_scancode(out) /\ UNCHANGED <<held, cut>>
  BY ByteIsThere DEF Int9, Control, host
<1>2. /\ Kbd!Unread = <<out>> \o Kbd!Unread'
      /\ Kbd!Unread' \in Seq(Bytes) /\ out \in Bytes
  BY <1>1, ReadUnread
<1>3. shifts' = Shifted(shifts, out)
  BY <1>1 DEF bios_kbd_scancode
<1>4. SUFFICES ASSUME ~cut
               PROVE  \E f : /\ Run(f, shifts', Kbd!Unread')
                             /\ LET believed == f[Len(Kbd!Unread')]
                                IN  /\ ~believed.e0
                                    /\ believed.left = held.left /\ believed.right = held.right
  BY <1>1 DEF Followed, Run
<1> DEFINE q == Kbd!Unread
           r == Kbd!Unread'
<1>5. PICK f : /\ Run(f, shifts, q)
               /\ ~f[Len(q)].e0 /\ f[Len(q)].left = held.left /\ f[Len(q)].right = held.right
  BY <1>4 DEF Followed
<1>6. Run(f, shifts, <<out>> \o r) /\ r \in Seq(Bytes)
  BY <1>2, <1>5
<1>7. PICK g : Run(g, Shifted(shifts, out), r) /\ g[Len(r)] = f[Len(<<out>> \o r)]
  BY <1>2, <1>6, RunTail
<1>8. g[Len(r)] = f[Len(q)]
  BY <1>2, <1>7
<1> HIDE DEF q, r
<1>9. /\ Run(g, shifts', r)
      /\ ~g[Len(r)].e0 /\ g[Len(r)].left = held.left /\ g[Len(r)].right = held.right
  BY <1>3, <1>5, <1>7, <1>8
<1>. QED  BY <1>9 DEF r

\* What a host event pushes, and the keys that are held after it.
HostEvent(bs, after) ==
    \/ bs = Letter /\ after = held
    \/ bs = LeftCtrl /\ after = [held EXCEPT !.left = ~@]
    \/ bs = RightCtrl /\ after = [held EXCEPT !.right = ~@]
    \/ bs = Break /\ after = held

\* An event that fits leaves the keys as they are held after it.
LEMMA RunEvent ==
    ASSUME TypeOK, events < MaxEvents, NEW q \in Seq(Bytes), NEW s, NEW f, Run(f, s, q),
           ~f[Len(q)].e0, f[Len(q)].left = held.left, f[Len(q)].right = held.right,
           NEW bs, NEW after,
           HostEvent(bs, after)
    PROVE  \E g : /\ Run(g, s, q \o bs)
                  /\ ~g[Len(q \o bs)].e0
                  /\ g[Len(q \o bs)].left = after.left /\ g[Len(q \o bs)].right = after.right
<1> DEFINE b == f[Len(q)]
<1>1. held \in [left : BOOLEAN, right : BOOLEAN]
  BY DEF TypeOK
<1>2. /\ Code("letter", FALSE) \in Bytes /\ Code("ctrl", held.left) \in Bytes
      /\ Code("e0", FALSE) \in Bytes /\ Code("ctrl", held.right) \in Bytes
      /\ Code("scroll", FALSE) \in Bytes
  <2>1. \A k \in Keys, up \in BOOLEAN : Code(k, up) \in Bytes
    BY EventCodes DEF Bytes
  <2>. QED  BY <1>1, <2>1 DEF Keys
<1>3. b \in ShiftStates /\ b.e0 = FALSE /\ b.left = held.left /\ b.right = held.right
  <2>1. Len(q) \in 0..Len(q)
    BY LenProperties
  <2>2. b \in ShiftStates
    BY <2>1 DEF Run
  <2>. QED  BY <2>2 DEF ShiftStates
<1> HIDE DEF b
\* One code, or two.
<1>4. ASSUME NEW c \in Bytes
      PROVE  \E g : /\ Run(g, s, q \o <<c>>)
                    /\ g[Len(q \o <<c>>)] = Shifted(b, c)
  <2>1. PICK g : Run(g, s, Append(q, c)) /\ g[Len(q) + 1] = Shifted(f[Len(q)], c)
    BY RunAppend
  <2>2. Append(q, c) = q \o <<c>> /\ Len(Append(q, c)) = Len(q) + 1
    BY AppendIsConcat, AppendProperties
  <2>. QED  BY <2>1, <2>2 DEF b
<1>5. ASSUME NEW c \in Bytes, NEW d \in Bytes
      PROVE  \E g : /\ Run(g, s, q \o <<c, d>>)
                    /\ g[Len(q \o <<c, d>>)] = Shifted(Shifted(b, c), d)
  <2>1. PICK h : Run(h, s, q \o <<c>>) /\ h[Len(q \o <<c>>)] = Shifted(b, c)
    BY <1>4
  <2> DEFINE p == q \o <<c>>
  <2>2. p \in Seq(Bytes)
    OBVIOUS
  <2>3. q \o <<c, d>> = Append(p, d)
    OBVIOUS
  <2> HIDE DEF p
  <2>4. PICK g : Run(g, s, Append(p, d)) /\ g[Len(p) + 1] = Shifted(h[Len(p)], d)
    BY <2>1, <2>2, RunAppend DEF p
  <2>5. Len(Append(p, d)) = Len(p) + 1
    BY <2>2, AppendProperties
  <2>. QED  BY <2>1, <2>3, <2>4, <2>5 DEF p
<1>6. CASE bs = Letter /\ after = held
  <2>1. PICK g : Run(g, s, q \o bs) /\ g[Len(q \o bs)] = Shifted(b, Code("letter", FALSE))
    BY <1>2, <1>4, <1>6 DEF Letter
  <2>2. Shifted(b, Code("letter", FALSE)) = [b EXCEPT !.e0 = FALSE]
    BY DEF Shifted, Code
  <2>. QED  BY <1>3, <1>6, <2>1, <2>2 DEF ShiftStates
<1>7. CASE bs = LeftCtrl /\ after = [held EXCEPT !.left = ~@]
  <2>1. PICK g : Run(g, s, q \o bs) /\ g[Len(q \o bs)] = Shifted(b, Code("ctrl", held.left))
    BY <1>2, <1>4, <1>7 DEF LeftCtrl
  <2>2. Shifted(b, Code("ctrl", held.left)) = [b EXCEPT !.left = ~held.left]
    BY <1>3 DEF Shifted, Code
  <2>3. after.left = ~held.left /\ after.right = held.right
    BY <1>1, <1>7
  <2>. QED  BY <1>3, <2>1, <2>2, <2>3 DEF ShiftStates
<1>8. CASE bs = RightCtrl /\ after = [held EXCEPT !.right = ~@]
  <2>1. PICK g : /\ Run(g, s, q \o bs)
                 /\ g[Len(q \o bs)] = Shifted(Shifted(b, Code("e0", FALSE)), Code("ctrl", held.right))
    BY <1>2, <1>5, <1>8 DEF RightCtrl
  <2>2. Shifted(b, Code("e0", FALSE)) = [b EXCEPT !.e0 = TRUE]
    BY DEF Shifted, Code
  <2> DEFINE e == [b EXCEPT !.e0 = TRUE]
  <2>3. e.e0 = TRUE /\ e.left = b.left /\ e \in ShiftStates
    BY <1>3 DEF ShiftStates
  <2> HIDE DEF e
  <2>4. Shifted(e, Code("ctrl", held.right)) = [e EXCEPT !.right = ~held.right, !.e0 = FALSE]
    BY <2>3 DEF Shifted, Code
  <2>5. after.right = ~held.right /\ after.left = held.left
    BY <1>1, <1>8
  <2>6. g[Len(q \o bs)] = [e EXCEPT !.right = ~held.right, !.e0 = FALSE]
    BY <2>1, <2>2, <2>4 DEF e
  <2>7. ~g[Len(q \o bs)].e0 /\ g[Len(q \o bs)].left = b.left /\ g[Len(q \o bs)].right = ~held.right
    BY <2>3, <2>6 DEF ShiftStates
  <2>. QED  BY <1>3, <2>1, <2>5, <2>7
<1>9. CASE bs = Break /\ after = held
  <2>1. PICK g : /\ Run(g, s, q \o bs)
                 /\ g[Len(q \o bs)] = Shifted(Shifted(b, Code("e0", FALSE)), Code("scroll", FALSE))
    BY <1>2, <1>5, <1>9 DEF Break
  <2>2. Shifted(b, Code("e0", FALSE)) = [b EXCEPT !.e0 = TRUE]
    BY DEF Shifted, Code
  <2>3. Shifted([b EXCEPT !.e0 = TRUE], Code("scroll", FALSE)) = [[b EXCEPT !.e0 = TRUE] EXCEPT !.e0 = FALSE]
    BY DEF Shifted, Code
  <2>4. [[b EXCEPT !.e0 = TRUE] EXCEPT !.e0 = FALSE] = b
    BY <1>3 DEF ShiftStates
  <2>5. g[Len(q \o bs)] = b
    BY <2>1, <2>2, <2>3, <2>4
  <2>. QED  BY <1>3, <1>9, <2>1, <2>5
<1>. QED  BY <1>6, <1>7, <1>8, <1>9 DEF HostEvent

LEMMA PushFollowed ==
    ASSUME TypeOK, Followed, NEW bs, NEW after, Push(bs, after),
           HostEvent(bs, after)
    PROVE  Followed'
<1>1. /\ events < MaxEvents /\ Kbd!PushScancodes(bs) /\ shifts' = shifts /\ held' = after
      /\ cut' = (cut \/ Kbd!Fitting(bs) # bs)
  BY DEF Push, bios
<1>2. bs \in Seq(Bytes)
  BY <1>1, EventCodes DEF HostEvent
<1>3. Kbd!Unread' = Kbd!Unread \o Kbd!Fitting(bs) /\ Kbd!Unread \in Seq(Bytes)
  BY <1>1, <1>2, PushUnread, LineTypes
<1>4. SUFFICES ASSUME ~cut, Kbd!Fitting(bs) = bs
               PROVE  \E f : /\ Run(f, shifts, Kbd!Unread')
                             /\ LET believed == f[Len(Kbd!Unread')]
                                IN  /\ ~believed.e0
                                    /\ believed.left = after.left /\ believed.right = after.right
  BY <1>1 DEF Followed, Run
<1> DEFINE q == Kbd!Unread
<1>5. PICK f : /\ Run(f, shifts, q)
               /\ ~f[Len(q)].e0 /\ f[Len(q)].left = held.left /\ f[Len(q)].right = held.right
  BY <1>4 DEF Followed
<1>6. q \in Seq(Bytes) /\ Kbd!Unread' = q \o bs
  BY <1>3, <1>4
<1> HIDE DEF q
<1>7. \E g : /\ Run(g, shifts, q \o bs)
             /\ ~g[Len(q \o bs)].e0
             /\ g[Len(q \o bs)].left = after.left /\ g[Len(q \o bs)].right = after.right
  BY <1>1, <1>5, <1>6, RunEvent
<1>. QED  BY <1>6, <1>7

LEMMA StepFollowed == Control /\ Followed /\ [Next]_vars => Followed'
<1> SUFFICES ASSUME Control, Followed, [Next]_vars PROVE Followed'
  OBVIOUS
<1>1. TypeOK
  BY DEF Control
<1>2. CASE HostKey
  <2>1. CASE Push(Letter, held)
    BY <1>1, <2>1, PushFollowed DEF HostEvent
  <2>2. CASE Push(LeftCtrl, [held EXCEPT !.left = ~@])
    BY <1>1, <2>2, PushFollowed DEF HostEvent
  <2>3. CASE Push(RightCtrl, [held EXCEPT !.right = ~@])
    BY <1>1, <2>3, PushFollowed DEF HostEvent
  <2>4. CASE Push(Break, held)
    BY <1>1, <2>4, PushFollowed DEF HostEvent
  <2>. QED  BY <1>2, <2>1, <2>2, <2>3, <2>4 DEF HostKey
<1>3. CASE Deliver
  <2>1. UNCHANGED <<shifts, held, cut>> /\ Kbd!Deliver
    BY <1>3 DEF Deliver, bios, host
  <2>. QED  BY <1>1, <2>1, DeliverUnread, FollowedSame
<1>4. CASE Int9
  BY <1>4, Int9Followed
<1>5. CASE \/ Tick \/ AcceptInterrupt \/ Wake \/ Int8 \/ StubEoi \/ StubIret
           \/ Compute \/ Call \/ Return \/ Int16 \/ UNCHANGED vars
  <2>1. UNCHANGED <<kbc, shifts, held, cut>>
    BY <1>5 DEF Tick, AcceptInterrupt, Wake, Int8, StubEoi, StubIret, Compute, Call, Return, Int16,
                vars, bios, host
  <2>2. Kbd!Unread' = Kbd!Unread
    BY <2>1 DEF kbc, Kbd!Unread
  <2>. QED  BY <2>1, <2>2, FollowedSame
<1>. QED  BY <1>2, <1>3, <1>4, <1>5 DEF Next, CpuStep

\* For every queue, ring and program: no shift key sticks.  Unless a full queue has
\* cut an event short, the BIOS will believe of both Ctrl keys what is true of them
\* when it has decoded what the controller still holds (bios_kbd_scancode).
THEOREM NoShiftSticks == Spec => []ShiftsFollowKeys
<1>1. Init => Followed
  BY InitFollowed
<1>2. Control /\ Followed /\ [Next]_vars => Followed'
  BY StepFollowed
<1>3. Control /\ Followed => ShiftsFollowKeys
  BY FollowedIsBelieved DEF Control
<1>. QED  BY <1>1, <1>2, <1>3, ControlHolds, PTL DEF Spec

----------------------------------------------------------------------------
=============================================================================
