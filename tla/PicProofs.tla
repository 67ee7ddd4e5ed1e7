----------------------------- MODULE PicProofs -----------------------------
(***************************************************************************)
(* Proofs about the interrupt controllers: for every set of device lines,  *)
(* vector bases and masks, every order of requests, acknowledges and port  *)
(* writes.  First come facts about the operators of Pic, and about a stack *)
(* of handlers, which the proofs about the CPU and the mouse use too.      *)
(***************************************************************************)
EXTENDS PicMachine, SequenceTheorems, TLAPS

(* A non-empty set of line numbers has a first element, so the scan of     *)
(* pic_highest finds one.                                                  *)
LEMMA FirstLine ==
    ASSUME NEW S \in SUBSET (0..7), S # {}
    PROVE  \E i \in S : \A j \in S : i <= j
<1>1. SUFFICES ASSUME \A i \in S : \E j \in S : j < i
               PROVE  FALSE
  BY SMT
<1>2. 0 \notin S  BY <1>1
<1>3. 1 \notin S  BY <1>1, <1>2
<1>4. 2 \notin S  BY <1>1, <1>2, <1>3
<1>5. 3 \notin S  BY <1>1, <1>2, <1>3, <1>4
<1>6. 4 \notin S  BY <1>1, <1>2, <1>3, <1>4, <1>5
<1>7. 5 \notin S  BY <1>1, <1>2, <1>3, <1>4, <1>5, <1>6
<1>8. 6 \notin S  BY <1>1, <1>2, <1>3, <1>4, <1>5, <1>6, <1>7
<1>9. 7 \notin S  BY <1>1, <1>2, <1>3, <1>4, <1>5, <1>6, <1>7, <1>8
<1>10. PICK i \in S : TRUE  OBVIOUS
<1>11. i \in {0, 1, 2, 3, 4, 5, 6, 7}  BY SMT
<1>. QED  BY <1>2, <1>3, <1>4, <1>5, <1>6, <1>7, <1>8, <1>9, <1>11

(* What pic_highest answers: -1 exactly when nothing is deliverable, and   *)
(* otherwise a deliverable line.                                           *)
LEMMA HighestLine ==
    ASSUME NEW p \in PicState
    PROVE  /\ pic_highest(p) = NoLine <=> Deliverable(p) = {}
           /\ pic_highest(p) # NoLine => pic_highest(p) \in Deliverable(p)
           /\ Deliverable(p) \subseteq 0..7
<1>1. Deliverable(p) \subseteq 0..7
  BY DEF Deliverable, PicState
<1>2. CASE Deliverable(p) = {}
  BY <1>1, <1>2 DEF pic_highest
<1>3. CASE Deliverable(p) # {}
  <2>1. \E i \in Deliverable(p) : \A j \in Deliverable(p) : i <= j
    BY <1>1, <1>3, FirstLine
  <2>2. pic_highest(p) \in Deliverable(p)
    BY <1>3, <2>1 DEF pic_highest
  <2>3. pic_highest(p) # NoLine
    BY <1>1, <2>2 DEF NoLine
  <2>. QED  BY <1>1, <1>3, <2>2, <2>3
<1>. QED  BY <1>2, <1>3

(* Refreshing the cascade keeps the types, touches nothing but the         *)
(* master's line 2, and leaves that line requested exactly when the slave  *)
(* has something to deliver.                                               *)
LEMMA CascadeRefresh ==
    ASSUME NEW ps \in [Chips -> PicState]
    PROVE  LET q == update_cascade(ps)
           IN  /\ q \in [Chips -> PicState]
               /\ q["slave"] = ps["slave"]
               /\ q["master"].imr = ps["master"].imr
               /\ q["master"].isr = ps["master"].isr
               /\ q["master"].auto_eoi = ps["master"].auto_eoi
               /\ \A i : i # CascadeLine =>
                           (i \in q["master"].irr <=> i \in ps["master"].irr)
               /\ CascadeLine \in q["master"].irr <=> Deliverable(ps["slave"]) # {}
<1>1. ps["slave"] \in PicState /\ ps["master"] \in PicState
  BY DEF Chips
<1>2. pic_highest(ps["slave"]) = NoLine <=> Deliverable(ps["slave"]) = {}
  BY <1>1, HighestLine
<1>3. CascadeLine \in 0..7
  BY DEF CascadeLine
<1>. QED
  BY <1>1, <1>2, <1>3 DEF update_cascade, Chips, PicState

(* The acknowledge cycle keeps the types and clears at most the request of *)
(* the line it answers for, besides the cascade bit.                       *)
LEMMA AckType ==
    ASSUME NEW ps \in [Chips -> PicState]
    PROVE  AckState(ps) \in [Chips -> PicState]
<1> DEFINE q == update_cascade(ps)
           m == pic_highest(q["master"])
           s == pic_highest(q["slave"])
<1>1. q \in [Chips -> PicState] /\ q["master"] \in PicState /\ q["slave"] \in PicState
  BY CascadeRefresh DEF Chips
<1>2. m # NoLine => m \in 0..7
  BY <1>1, HighestLine
<1>3. s # NoLine => s \in 0..7
  BY <1>1, HighestLine
<1>4. CASE m = NoLine \/ (m = CascadeLine /\ s = NoLine)
  BY <1>1, <1>4 DEF AckState
<1>5. CASE m = CascadeLine /\ m # NoLine /\ s # NoLine
  <2> DEFINE r == [q EXCEPT !["slave"] = Accept(@, s),
                            !["master"].isr = IF q["master"].auto_eoi
                                              THEN @ ELSE @ \union {CascadeLine}]
  <2>1. Accept(q["slave"], s) \in PicState
    BY <1>1, <1>3, <1>5 DEF Accept, PicState
  <2>2. CascadeLine \in 0..7
    BY DEF CascadeLine
  <2>3. r \in [Chips -> PicState]
    BY <1>1, <2>1, <2>2 DEF Chips, PicState
  <2>4. update_cascade(r) \in [Chips -> PicState]
    BY <2>3, CascadeRefresh
  <2>5. AckState(ps) = update_cascade(r)
    BY <1>5 DEF AckState
  <2>. QED  BY <2>4, <2>5
<1>6. CASE m # CascadeLine /\ m # NoLine
  <2>1. Accept(q["master"], m) \in PicState
    BY <1>1, <1>2, <1>6 DEF Accept, PicState
  <2>2. AckState(ps) = [q EXCEPT !["master"] = Accept(@, m)]
    BY <1>6 DEF AckState
  <2>. QED  BY <1>1, <2>1, <2>2 DEF Chips
<1>. QED  BY <1>4, <1>5, <1>6

(* A non-specific EOI keeps the types.                                     *)
LEMMA EoiType ==
    ASSUME NEW p \in PicState
    PROVE  EoiNonSpecific(p) \in PicState
BY DEF EoiNonSpecific, PicState

(* A controller as the BIOS has programmed it requests and serves nothing. *)
LEMMA Programmed ==
    ASSUME NEW base \in 0..255, NEW mask \in SUBSET (0..7)
    PROVE  /\ PostController(base, mask) \in PicState
           /\ PostController(base, mask).irr = {} /\ PostController(base, mask).isr = {}
           /\ ~PostController(base, mask).auto_eoi
<1> DEFINE c1 == ICW1(Controller(base), TRUE)
           c2 == ICW2(c1, base)
           c3 == ICW3(c2)
           c4 == ICW4(c3, FALSE)
<1>1. c1 \in PicState /\ c1.irr = {} /\ c1.isr = {}
  BY DEF ICW1, Controller, PicState, IcwStates
<1>2. c2 \in PicState /\ c2.irr = {} /\ c2.isr = {}
  BY <1>1 DEF ICW2, PicState, IcwStates
<1>3. c3 \in PicState /\ c3.irr = {} /\ c3.isr = {}
  BY <1>2 DEF ICW3, PicState, IcwStates
<1>4. c4 \in PicState /\ c4.irr = {} /\ c4.isr = {} /\ ~c4.auto_eoi
  BY <1>3 DEF ICW4, PicState, IcwStates
<1>5. PostController(base, mask) = OCW1(c4, mask)
  BY DEF PostController
<1> HIDE DEF c4
<1>. QED  BY <1>4, <1>5 DEF OCW1, PicState

(* A handler that has returned leaves the others as they were.             *)
LEMMA OthersStay ==
    ASSUME NEW S, NEW f \in Seq(S), f # << >>
    PROVE  /\ Len(f) \in Nat /\ Len(f) >= 1
           /\ SubSeq(f, 1, Len(f) - 1) \in Seq(S) /\ Len(SubSeq(f, 1, Len(f) - 1)) = Len(f) - 1
           /\ \A i \in 1..(Len(f) - 1) : SubSeq(f, 1, Len(f) - 1)[i] = f[i]
<1> DEFINE n == Len(f) - 1
<1>1. Len(f) \in Nat /\ Len(f) >= 1 /\ n \in Int
  BY LenProperties
<1>2. \A i \in 1..n : f[i] \in S
  BY <1>1, ElementOfSeq
<1> HIDE DEF n
<1>3. /\ SubSeq(f, 1, n) \in Seq(S)
      /\ Len(SubSeq(f, 1, n)) = IF 1 <= n THEN n - 1 + 1 ELSE 0
      /\ \A i \in 1..(n - 1 + 1) : SubSeq(f, 1, n)[i] = f[1 + i - 1]
  BY <1>1, <1>2, SubSeqProperties
<1>4. n \in Nat /\ n - 1 + 1 = n /\ n = Len(f) - 1
  BY <1>1 DEF n
<1>5. \A i \in 1..n : 1 + i - 1 = i
  BY <1>4
<1>6. Len(SubSeq(f, 1, n)) = n /\ \A i \in 1..n : SubSeq(f, 1, n)[i] = f[i]
  BY <1>3, <1>4, <1>5
<1>. QED  BY <1>1, <1>3, <1>4, <1>6 DEF n

----------------------------------------------------------------------------
(* The pair of controllers: type correctness.                              *)

LEMMA InitTypeOK == PairInit => PairTypeOK
  BY DEF PairInit, PairTypeOK, PicInit, Controller, Chips, PicState, IcwStates

LEMMA LineNumber ==
    ASSUME NEW irq \in DeviceLines
    PROVE  /\ irq \in 0..15 /\ irq # CascadeLine
           /\ irq % 8 \in 0..7 /\ ChipOf(irq) \in Chips
           /\ irq < 8 => irq % 8 = irq
           /\ irq >= 8 => irq % 8 = irq - 8
<1>1. irq \in 0..15 /\ irq # CascadeLine
  BY DeviceLinesAssumption
<1>. QED  BY <1>1, SMT DEF ChipOf, Chips

(* Every port write yields a well-typed controller.                        *)
LEMMA WriteTypes ==
    ASSUME NEW p \in PicState
    PROVE  /\ \A flag \in BOOLEAN : ICW1(p, flag) \in PicState
           /\ \A base \in GuestBases : ICW2(p, base) \in PicState
           /\ ICW3(p) \in PicState
           /\ \A aeoi \in BOOLEAN : ICW4(p, aeoi) \in PicState
           /\ \A mask \in GuestMasks : OCW1(p, mask) \in PicState
           /\ \A isr \in BOOLEAN : OCW3(p, isr) \in PicState
           /\ EoiNonSpecific(p) \in PicState
           /\ \A i \in 0..7 : EoiSpecific(p, i) \in PicState
<1>1. ASSUME NEW base \in GuestBases PROVE base \in 0..255
  <2>1. PICK k \in 0..31 : base = 8 * k  BY GuestBasesAssumption
  <2>. QED  BY <2>1, SMT
<1>3. \A flag \in BOOLEAN : ICW1(p, flag) \in PicState
  BY DEF ICW1, PicState, IcwStates
<1>4. \A base \in GuestBases : ICW2(p, base) \in PicState
  BY <1>1 DEF ICW2, PicState, IcwStates
<1>5. ICW3(p) \in PicState
  BY DEF ICW3, PicState, IcwStates
<1>6. \A aeoi \in BOOLEAN : ICW4(p, aeoi) \in PicState
  BY DEF ICW4, PicState, IcwStates
<1>7. \A mask \in GuestMasks : OCW1(p, mask) \in PicState
  BY GuestMasksAssumption DEF OCW1, PicState
<1>8. \A isr \in BOOLEAN : OCW3(p, isr) \in PicState
  BY DEF OCW3, PicState
<1>9. EoiNonSpecific(p) \in PicState /\ \A i \in 0..7 : EoiSpecific(p, i) \in PicState
  BY DEF EoiNonSpecific, EoiSpecific, PicState
<1>. QED
  BY <1>3, <1>4, <1>5, <1>6, <1>7, <1>8, <1>9

LEMMA NextTypeOK == PairTypeOK /\ [PairNext]_pair => PairTypeOK'
<1> SUFFICES ASSUME PairTypeOK, [PairNext]_pair PROVE PairTypeOK'
  OBVIOUS
<1>0. pair \in [Chips -> PicState]
  BY DEF PairTypeOK
<1>1. ASSUME NEW irq \in DeviceLines, DeviceRaises(irq) PROVE PairTypeOK'
  BY <1>0, <1>1, LineNumber DEF DeviceRaises, pic_raise_irq, PairTypeOK, PicState
<1>2. ASSUME NEW irq \in DeviceLines, DeviceLowers(irq) PROVE PairTypeOK'
  BY <1>0, <1>2, LineNumber DEF DeviceLowers, pic_lower_irq, PairTypeOK, PicState
<1>3. CASE Poll
  BY <1>0, <1>3, CascadeRefresh DEF Poll, PairTypeOK
<1>4. CASE Acknowledge
  BY <1>0, <1>4, AckType DEF Acknowledge, PairTypeOK
<1>5. ASSUME NEW c \in Chips, WriteIcw1(c) \/ WriteOcw2(c) \/ WriteOcw3(c) \/ WriteData(c)
      PROVE  PairTypeOK'
  <2>1. \E p \in PicState : pair' = [pair EXCEPT ![c] = p]
    <3>1. pair[c] \in PicState  BY <1>0
    <3>2. CASE WriteIcw1(c)  BY <3>1, <3>2, WriteTypes DEF WriteIcw1
    <3>3. CASE WriteOcw2(c)  BY <3>1, <3>3, WriteTypes DEF WriteOcw2
    <3>4. CASE WriteOcw3(c)  BY <3>1, <3>4, WriteTypes DEF WriteOcw3
    <3>5. CASE WriteData(c)  BY <3>1, <3>5, WriteTypes DEF WriteData
    <3>. QED  BY <1>5, <3>2, <3>3, <3>4, <3>5
  <2>. QED  BY <1>0, <2>1 DEF PairTypeOK
<1>6. CASE UNCHANGED pair
  BY <1>6 DEF PairTypeOK
<1>. QED
  BY <1>1, <1>2, <1>3, <1>4, <1>5, <1>6 DEF PairNext

(* Every reachable pair of controllers is well typed, whatever the lines,  *)
(* bases and masks: no port write and no acknowledge corrupts a register.  *)
THEOREM TypeCorrect == PairSpec => []PairTypeOK
<1>1. PairInit => PairTypeOK  BY InitTypeOK
<1>2. PairTypeOK /\ [PairNext]_pair => PairTypeOK'  BY NextTypeOK
<1>. QED  BY <1>1, <1>2, PTL DEF PairSpec

----------------------------------------------------------------------------
(* Acknowledged interrupts are real.                                       *)

(* Only wired lines ever request: the strengthening that PendingAckIsReal  *)
(* needs to conclude that the acknowledged line belongs to a device.       *)
WiredRequests ==
    /\ \A i \in pair["master"].irr : i \in DeviceLines \/ i = CascadeLine
    /\ \A i \in pair["slave"].irr : 8 + i \in DeviceLines

LEMMA CascadeWired ==
    ASSUME NEW ps \in [Chips -> PicState],
           \A i \in ps["master"].irr : i \in DeviceLines \/ i = CascadeLine
    PROVE  \A i \in update_cascade(ps)["master"].irr : i \in DeviceLines \/ i = CascadeLine
  BY CascadeRefresh

(* The requests that survive an acknowledge were there before it, the      *)
(* cascade bit apart, and every request but the acknowledged one survives. *)
LEMMA AckRequests ==
    ASSUME NEW ps \in [Chips -> PicState]
    PROVE  /\ \A i : i # CascadeLine /\ i \in AckState(ps)["master"].irr
                        => i \in ps["master"].irr
           /\ AckState(ps)["slave"].irr \subseteq ps["slave"].irr
           /\ \A i \in 0..7 : /\ i # CascadeLine /\ i # AckLine(ps)
                              /\ i \in ps["master"].irr
                              => i \in AckState(ps)["master"].irr
           /\ \A i \in 0..7 : 8 + i # AckLine(ps) /\ i \in ps["slave"].irr
                              => i \in AckState(ps)["slave"].irr
<1> DEFINE q == update_cascade(ps)
           m == pic_highest(q["master"])
           s == pic_highest(q["slave"])
<1>1. /\ q \in [Chips -> PicState] /\ q["master"] \in PicState
      /\ q["slave"] = ps["slave"] /\ q["slave"] \in PicState
      /\ \A i : i # CascadeLine => (i \in q["master"].irr <=> i \in ps["master"].irr)
  BY CascadeRefresh DEF Chips
<1>2. (m # NoLine => m \in 0..7) /\ (s # NoLine => s \in 0..7)
  BY <1>1, HighestLine
<1>3. CASE m = NoLine \/ (m = CascadeLine /\ s = NoLine)
  BY <1>1, <1>3 DEF AckState
<1>4. CASE m = CascadeLine /\ m # NoLine /\ s # NoLine
  <2> DEFINE r == [q EXCEPT !["slave"] = Accept(@, s),
                            !["master"].isr = IF q["master"].auto_eoi
                                              THEN @ ELSE @ \union {CascadeLine}]
  <2>1. AckState(ps) = update_cascade(r)
    BY <1>4 DEF AckState
  <2>2. AckLine(ps) = 8 + s
    BY <1>4 DEF AckLine
  <2>3. Accept(q["slave"], s) \in PicState
    BY <1>1, <1>2, <1>4 DEF Accept, PicState
  <2>4. r \in [Chips -> PicState]
    BY <1>1, <2>3 DEF Chips, PicState, CascadeLine
  <2>5. r["master"].irr = q["master"].irr
    BY <1>1 DEF Chips, PicState
  <2>6. r["slave"].irr = ps["slave"].irr \ {s}
    BY <1>1 DEF Chips, PicState, Accept
  <2>7. /\ update_cascade(r)["slave"] = r["slave"]
        /\ \A i : i # CascadeLine =>
              (i \in update_cascade(r)["master"].irr <=> i \in r["master"].irr)
    BY <2>4, CascadeRefresh
  <2>8. \A i \in 0..7 : 8 + i # AckLine(ps) => i # s
    BY <2>2
  <2>. QED  BY <1>1, <2>1, <2>5, <2>6, <2>7, <2>8
<1>5. CASE m # CascadeLine /\ m # NoLine
  <2>1. AckState(ps) = [q EXCEPT !["master"] = Accept(@, m)]
    BY <1>5 DEF AckState
  <2>2. AckLine(ps) = m
    BY <1>5 DEF AckLine
  <2>3. AckState(ps)["slave"] = q["slave"] /\ AckState(ps)["master"].irr = q["master"].irr \ {m}
    BY <1>1, <2>1 DEF Chips, PicState, Accept
  <2>. QED  BY <1>1, <2>2, <2>3
<1>. QED  BY <1>3, <1>4, <1>5

(* No port write but ICW1 touches the requests.                            *)
LEMMA WriteKeepsRequests ==
    ASSUME pair \in [Chips -> PicState], NEW c \in Chips,
           WriteOcw2(c) \/ WriteOcw3(c) \/ WriteData(c)
    PROVE  \A d \in Chips : pair'[d].irr = pair[d].irr
<1>1. pair[c] \in PicState
  OBVIOUS
<1>2. \E p : pair' = [pair EXCEPT ![c] = p] /\ p.irr = pair[c].irr
  <2>1. EoiNonSpecific(pair[c]).irr = pair[c].irr
    BY <1>1 DEF EoiNonSpecific, PicState
  <2>2. \A i : EoiSpecific(pair[c], i).irr = pair[c].irr
    BY <1>1 DEF EoiSpecific, PicState
  <2>3. \A isr : OCW3(pair[c], isr).irr = pair[c].irr
    BY <1>1 DEF OCW3, PicState
  <2>4. \A base : ICW2(pair[c], base).irr = pair[c].irr
    BY <1>1 DEF ICW2, PicState
  <2>5. ICW3(pair[c]).irr = pair[c].irr
    BY <1>1 DEF ICW3, PicState
  <2>6. \A aeoi : ICW4(pair[c], aeoi).irr = pair[c].irr
    BY <1>1 DEF ICW4, PicState
  <2>7. \A mask : OCW1(pair[c], mask).irr = pair[c].irr
    BY <1>1 DEF OCW1, PicState
  <2>8. CASE WriteOcw2(c)  BY <2>1, <2>2, <2>8 DEF WriteOcw2
  <2>9. CASE WriteOcw3(c)  BY <2>3, <2>9 DEF WriteOcw3
  <2>10. CASE WriteData(c)  BY <2>4, <2>5, <2>6, <2>7, <2>10 DEF WriteData
  <2>. QED  BY <2>8, <2>9, <2>10
<1>. QED  BY <1>1, <1>2

LEMMA InitWired == PairInit => WiredRequests
  BY DEF PairInit, WiredRequests, PicInit, Controller, Chips

LEMMA NextWired == PairTypeOK /\ WiredRequests /\ [PairNext]_pair => WiredRequests'
<1> SUFFICES ASSUME PairTypeOK, WiredRequests, [PairNext]_pair PROVE WiredRequests'
  OBVIOUS
<1>0. pair \in [Chips -> PicState] /\ "master" \in Chips /\ "slave" \in Chips
  BY DEF PairTypeOK, Chips
<1>1. ASSUME NEW irq \in DeviceLines, DeviceRaises(irq) PROVE WiredRequests'
  <2>1. CASE irq < 8
    BY <1>0, <1>1, <2>1, LineNumber DEF DeviceRaises, pic_raise_irq, ChipOf, WiredRequests, PicState
  <2>2. CASE irq >= 8
    <3>1. ChipOf(irq) = "slave" /\ irq % 8 = irq - 8 /\ irq \in 0..15
      BY <2>2, LineNumber DEF ChipOf
    <3>2. 8 + (irq % 8) = irq
      BY <3>1
    <3>. QED  BY <1>0, <1>1, <3>1, <3>2 DEF DeviceRaises, pic_raise_irq, WiredRequests, PicState
  <2>. QED  BY <2>1, <2>2, LineNumber
<1>2. ASSUME NEW irq \in DeviceLines, DeviceLowers(irq) PROVE WiredRequests'
  BY <1>0, <1>2, LineNumber DEF DeviceLowers, pic_lower_irq, WiredRequests, PicState
<1>3. CASE Poll
  BY <1>0, <1>3, CascadeRefresh DEF Poll, WiredRequests
<1>4. CASE Acknowledge
  BY <1>0, <1>4, AckRequests DEF Acknowledge, WiredRequests
<1>5. ASSUME NEW c \in Chips, WriteIcw1(c) PROVE WiredRequests'
  BY <1>0, <1>5 DEF WriteIcw1, ICW1, WiredRequests, PicState
<1>6. ASSUME NEW c \in Chips, WriteOcw2(c) \/ WriteOcw3(c) \/ WriteData(c) PROVE WiredRequests'
  <2>1. pair'["master"].irr = pair["master"].irr /\ pair'["slave"].irr = pair["slave"].irr
    BY <1>0, <1>6, WriteKeepsRequests
  <2>. QED  BY <2>1 DEF WiredRequests
<1>7. CASE UNCHANGED pair
  BY <1>7 DEF WiredRequests
<1>. QED
  BY <1>1, <1>2, <1>3, <1>4, <1>5, <1>6, <1>7 DEF PairNext

LEMMA AckReal == PairTypeOK /\ WiredRequests => PendingAckIsReal
<1> SUFFICES ASSUME PairTypeOK, WiredRequests, pic_has_pending(pair)
             PROVE  LET irq == AckLine(pair)
                    IN  /\ irq \in DeviceLines
                        /\ Requested(pair, irq) /\ ~Masked(pair, irq) /\ ~InService(pair, irq)
                        /\ irq >= 8 => ~Masked(pair, CascadeLine) /\ ~InService(pair, CascadeLine)
  BY DEF PendingAckIsReal
<1> DEFINE q == update_cascade(pair)
           m == pic_highest(q["master"])
           s == pic_highest(q["slave"])
<1>1. /\ pair \in [Chips -> PicState] /\ q["master"] \in PicState /\ q["slave"] \in PicState
      /\ pair["master"] \in PicState
  BY CascadeRefresh DEF PairTypeOK, Chips
<1>2. /\ q["slave"] = pair["slave"]
      /\ q["master"].imr = pair["master"].imr /\ q["master"].isr = pair["master"].isr
      /\ \A i : i # CascadeLine => (i \in q["master"].irr <=> i \in pair["master"].irr)
      /\ CascadeLine \in q["master"].irr <=> Deliverable(pair["slave"]) # {}
  BY <1>1, CascadeRefresh
<1>3. m # NoLine
  BY DEF pic_has_pending
<1>4. m \in Deliverable(q["master"]) /\ m \in 0..7
  BY <1>1, <1>3, HighestLine
<1>5. m \in q["master"].irr /\ m \notin pair["master"].imr /\ m \notin pair["master"].isr
  BY <1>1, <1>2, <1>4 DEF Deliverable, PicState
<1>6. CASE m # CascadeLine
  <2>1. AckLine(pair) = m
    BY <1>6 DEF AckLine
  <2>2. m \in DeviceLines
    BY <1>2, <1>5, <1>6 DEF WiredRequests
  <2>3. m % 8 = m /\ ChipOf(m) = "master" /\ m < 8
    BY <1>4, SMT DEF ChipOf
  <2>. QED
    BY <1>2, <1>4, <1>5, <1>6, <2>1, <2>2, <2>3 DEF Requested, Masked, InService
<1>7. CASE m = CascadeLine
  <2>1. Deliverable(pair["slave"]) # {}
    BY <1>2, <1>5, <1>7
  <2>2. s # NoLine /\ s \in Deliverable(pair["slave"]) /\ s \in 0..7
    BY <1>1, <1>2, <2>1, HighestLine
  <2>3. /\ s \in pair["slave"].irr /\ s \notin pair["slave"].imr /\ s \notin pair["slave"].isr
    BY <1>1, <1>2, <2>2 DEF Deliverable, PicState
  <2>4. AckLine(pair) = 8 + s
    BY <1>7, <2>2 DEF AckLine
  <2>5. (8 + s) % 8 = s /\ ChipOf(8 + s) = "slave"
    BY <2>2, SMT DEF ChipOf
  <2>6. 8 + s \in DeviceLines
    BY <2>3 DEF WiredRequests
  <2>7. CascadeLine % 8 = CascadeLine /\ ChipOf(CascadeLine) = "master"
    BY SMT DEF ChipOf, CascadeLine
  <2>. QED
    BY <1>5, <1>7, <2>3, <2>4, <2>5, <2>6, <2>7 DEF Requested, Masked, InService
<1>. QED  BY <1>6, <1>7

(* pic_ack, called as cpu_run calls it, never reports a spurious interrupt *)
(* and never a masked line or one in service; the pair keeps its types.    *)
THEOREM AcknowledgeIsReal == PairSpec => []PairConsistent
<1>1. PairInit => PairTypeOK /\ WiredRequests
  BY InitTypeOK, InitWired
<1>2. PairTypeOK /\ WiredRequests /\ [PairNext]_pair => (PairTypeOK /\ WiredRequests)'
  BY NextTypeOK, NextWired
<1>3. PairTypeOK /\ WiredRequests => PairConsistent
  BY AckReal DEF PairConsistent
<1>. QED  BY <1>1, <1>2, <1>3, PTL DEF PairSpec

----------------------------------------------------------------------------
(* Requests are not lost.                                                  *)

LEMMA StepKeepsRequests ==
    ASSUME PairTypeOK, [PairNext]_pair, NEW irq \in DeviceLines,
           Requested(pair, irq), ~Requested(pair', irq)
    PROVE  DeviceLowers(irq) \/ (Acknowledge /\ AckLine(pair) = irq) \/ WriteIcw1(ChipOf(irq))
<1>0. /\ pair \in [Chips -> PicState] /\ "master" \in Chips /\ "slave" \in Chips
      /\ irq % 8 \in pair[ChipOf(irq)].irr
      /\ irq % 8 \notin pair'[ChipOf(irq)].irr
  BY DEF PairTypeOK, Chips, Requested
<1>00. /\ irq \in 0..15 /\ irq # CascadeLine /\ irq % 8 \in 0..7 /\ ChipOf(irq) \in Chips
       /\ irq < 8 => irq % 8 = irq /\ ChipOf(irq) = "master"
       /\ irq >= 8 => irq % 8 = irq - 8 /\ ChipOf(irq) = "slave"
  BY LineNumber DEF ChipOf
<1>1. ASSUME NEW l \in DeviceLines, DeviceRaises(l) PROVE FALSE
  BY <1>0, <1>00, <1>1, LineNumber DEF DeviceRaises, pic_raise_irq, PicState
<1>2. ASSUME NEW l \in DeviceLines, DeviceLowers(l), l # irq PROVE FALSE
  <2>1. ChipOf(l) = ChipOf(irq) => l % 8 # irq % 8
    <3>1. /\ l \in 0..15
          /\ l < 8 => l % 8 = l /\ ChipOf(l) = "master"
          /\ l >= 8 => l % 8 = l - 8 /\ ChipOf(l) = "slave"
      BY LineNumber DEF ChipOf
    <3>. QED  BY <1>00, <1>2, <3>1
  <2>. QED  BY <1>0, <1>00, <1>2, <2>1, LineNumber DEF DeviceLowers, pic_lower_irq, PicState
<1>3. CASE Poll
  <2>1. CASE irq < 8
    BY <1>0, <1>00, <1>3, <2>1, CascadeRefresh DEF Poll
  <2>2. CASE irq >= 8
    BY <1>0, <1>00, <1>3, <2>2, CascadeRefresh DEF Poll
  <2>. QED  BY <1>00, <2>1, <2>2
<1>4. ASSUME Acknowledge, AckLine(pair) # irq PROVE FALSE
  <2>1. CASE irq < 8
    BY <1>0, <1>00, <1>4, <2>1, AckRequests DEF Acknowledge
  <2>2. CASE irq >= 8
    <3>1. 8 + (irq % 8) = irq
      BY <1>00, <2>2
    <3>. QED  BY <1>0, <1>00, <1>4, <2>2, <3>1, AckRequests DEF Acknowledge
  <2>. QED  BY <1>00, <2>1, <2>2
<1>5. ASSUME NEW c \in Chips, WriteIcw1(c), c # ChipOf(irq) PROVE FALSE
  BY <1>0, <1>00, <1>5 DEF WriteIcw1
<1>6. ASSUME NEW c \in Chips, WriteOcw2(c) \/ WriteOcw3(c) \/ WriteData(c) PROVE FALSE
  BY <1>0, <1>00, <1>6, WriteKeepsRequests
<1>7. CASE UNCHANGED pair
  BY <1>0, <1>7
<1>. QED
  BY <1>1, <1>2, <1>3, <1>4, <1>5, <1>6, <1>7 DEF PairNext

(* A device's request survives every step except the device lowering it,   *)
(* the CPU accepting that line, and ICW1 on its controller.                *)
THEOREM RequestsAreKept == PairSpec => RequestsStick
<1>1. PairInit => PairTypeOK  BY InitTypeOK
<1>2. PairTypeOK /\ [PairNext]_pair => PairTypeOK'  BY NextTypeOK
<1>3. PairTypeOK /\ [PairNext]_pair =>
        [\A irq \in DeviceLines :
          Requested(pair, irq) /\ ~Requested(pair', irq) =>
              \/ DeviceLowers(irq)
              \/ Acknowledge /\ AckLine(pair) = irq
              \/ WriteIcw1(ChipOf(irq))]_pair
  BY StepKeepsRequests
<1>. QED  BY <1>1, <1>2, <1>3, PTL DEF PairSpec, RequestsStick
============================================================================
