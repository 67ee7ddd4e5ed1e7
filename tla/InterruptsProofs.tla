-------------------------- MODULE InterruptsProofs --------------------------
(***************************************************************************)
(* Proofs about interrupt delivery: for every set of device lines, any     *)
(* number of requests and handlers nested to any depth; and, from "The     *)
(* keyboard controller." on, about the device whose requests these often   *)
(* are: for every set of scan codes and every queue size.                  *)
(***************************************************************************)
EXTENDS Interrupts, Keyboard, PicProofs

\* Only the devices' lines and the cascade request, and no EOI is automatic.
Wired(ps) ==
    /\ \A i \in ps["master"].irr : i = CascadeLine \/ i \in Lines
    /\ \A i \in ps["slave"].irr : i + 8 \in Lines
    /\ \A c \in Chips : ~ps[c].auto_eoi

\* Only a slave line's stub ends a service of the slave.
StagesFit == \A i \in 1..Len(frames) : frames[i].stage = "eoi_slave" => frames[i].line >= 8

\* Between CLI and HLT no handler runs and no work appears: interrupts are off, then
\* delayed by STI.
LoopUndisturbed ==
    /\ pc # "cli" => frames = << >>
    /\ pc \in {"look", "sti"} => ~iflag
    /\ pc \in {"sti", "hlt"} => work = {}
    /\ pc = "hlt" => iflag /\ inhibit

IInv ==
    /\ TypeOK /\ Wired(pics) /\ ServiceMatchesStack /\ StagesFit
    /\ LoopUndisturbed /\ (halted => pc = "cli") /\ SleepsOnlyWhenIdle

----------------------------------------------------------------------------
(* The controllers.                                                        *)

LEMMA LineTypes ==
    ASSUME NEW irq \in Lines
    PROVE  /\ irq \in Nat /\ irq # CascadeLine /\ irq - 8 \in Int
           /\ irq % 8 \in 0..7 /\ ChipOf(irq) \in Chips
           /\ irq < 8 => irq % 8 = irq /\ ChipOf(irq) = "master" /\ MasterBit(irq) = irq
           /\ irq >= 8 => irq % 8 = irq - 8 /\ ChipOf(irq) = "slave" /\ MasterBit(irq) = CascadeLine
<1>1. irq \in {0, 1, 6, 12, 13, 14}
  BY LinesAssumption
<1>. QED  BY <1>1, SMT DEF ChipOf, Chips, CascadeLine, MasterBit

(* Looking changes no more than the cascade's request.                     *)
LEMMA LookKeeps ==
    ASSUME pics \in [Chips -> PicState], Wired(pics)
    PROVE  /\ Looked \in [Chips -> PicState] /\ Wired(Looked)
           /\ \A c \in Chips : Looked[c].isr = pics[c].isr
<1>1. /\ update_cascade(pics) \in [Chips -> PicState] /\ Wired(update_cascade(pics))
      /\ \A c \in Chips : update_cascade(pics)[c].isr = pics[c].isr
  BY CascadeRefresh DEF Wired, Chips
<1>. QED  BY <1>1 DEF Looked

LEMMA AcceptServes ==
    ASSUME NEW p \in PicState, NEW i \in 0..7, ~p.auto_eoi
    PROVE  /\ Accept(p, i) \in PicState /\ ~Accept(p, i).auto_eoi
           /\ Accept(p, i).isr = p.isr \union {i} /\ Accept(p, i).irr \subseteq p.irr
<1>1. Accept(p, i) = [p EXCEPT !.irr = p.irr \ {i}, !.isr = p.isr \union {i}]
  BY DEF Accept
<1>2. p.irr \ {i} \in SUBSET (0..7) /\ p.isr \union {i} \in SUBSET (0..7)
  BY DEF PicState
<1>3. Accept(p, i) \in PicState
  BY <1>1, <1>2 DEF PicState
<1>4. Accept(p, i).isr = p.isr \union {i} /\ Accept(p, i).irr = p.irr \ {i}
  BY <1>1 DEF PicState
<1>5. Accept(p, i).auto_eoi = p.auto_eoi
  BY <1>1 DEF PicState
<1>. QED  BY <1>3, <1>4, <1>5

(* What an acknowledge does: the line it answers for is a device's, of     *)
(* higher priority than all that is in service, and goes into service.     *)
LEMMA AckServes ==
    ASSUME pics \in [Chips -> PicState], Wired(pics), pic_has_pending(pics)
    PROVE  /\ AckState(pics) \in [Chips -> PicState] /\ Wired(AckState(pics))
           /\ AckLine(pics) \in Lines
           /\ \A j \in pics["master"].isr : MasterBit(AckLine(pics)) < j
           /\ AckState(pics)["master"].isr = pics["master"].isr \union {MasterBit(AckLine(pics))}
           /\ AckState(pics)["slave"].isr =
                IF AckLine(pics) >= 8 THEN pics["slave"].isr \union {AckLine(pics) - 8}
                                      ELSE pics["slave"].isr
<1> DEFINE q == update_cascade(pics)
           m == pic_highest(q["master"])
           s == pic_highest(q["slave"])
           r == [q EXCEPT !["slave"] = Accept(@, s),
                          !["master"].isr = IF q["master"].auto_eoi
                                            THEN @ ELSE @ \union {CascadeLine}]
           t == [q EXCEPT !["master"] = Accept(@, m)]
<1>1. /\ q \in [Chips -> PicState] /\ q["slave"] = pics["slave"]
      /\ q["master"].isr = pics["master"].isr /\ Wired(q)
      /\ CascadeLine \in q["master"].irr <=> Deliverable(pics["slave"]) # {}
  BY CascadeRefresh DEF Wired, Chips
<1>2. /\ q["master"] \in PicState /\ q["slave"] \in PicState
      /\ ~q["master"].auto_eoi /\ ~q["slave"].auto_eoi
  BY <1>1 DEF Chips, Wired
<1>3. /\ m # NoLine /\ m \in 0..7 /\ m \in q["master"].irr
      /\ \A j \in pics["master"].isr : m < j
  <2>1. m # NoLine
    BY DEF pic_has_pending
  <2>. QED  BY <1>1, <1>2, <2>1, HighestLine DEF Deliverable
<1>4. AckState(pics) \in [Chips -> PicState]
  BY AckType
<1>5. CASE m # CascadeLine
  <2>1. AckState(pics) = t /\ AckLine(pics) = m
    BY <1>3, <1>5 DEF AckState, AckLine
  <2>2. m \in Lines /\ MasterBit(m) = m /\ ~ m >= 8
    <3>1. m \in Lines
      BY <1>1, <1>3, <1>5 DEF Wired
    <3>2. m < 8
      BY <1>3
    <3>. QED  BY <3>1, <3>2, <1>3, LineTypes
  <2>3. /\ t["slave"] = q["slave"] /\ t["master"] = Accept(q["master"], m)
    BY <1>1 DEF Chips
  <2>4. /\ t["master"].isr = q["master"].isr \union {m} /\ ~t["master"].auto_eoi
        /\ t["master"].irr \subseteq q["master"].irr
    BY <1>2, <1>3, <2>3, AcceptServes
  <2>5. Wired(t)
    BY <1>1, <2>3, <2>4 DEF Wired, Chips
  <2> HIDE DEF m, t
  <2>. QED  BY <1>1, <1>3, <1>4, <2>1, <2>2, <2>3, <2>4, <2>5
<1>6. CASE m = CascadeLine
  <2>1. s # NoLine
    <3>1. Deliverable(q["slave"]) # {}
      BY <1>1, <1>3, <1>6
    <3>. QED  BY <1>2, <3>1, HighestLine
  <2>2. s \in 0..7 /\ s \in q["slave"].irr
    BY <1>2, <2>1, HighestLine DEF Deliverable
  <2>3. AckState(pics) = update_cascade(r) /\ AckLine(pics) = 8 + s
    BY <1>3, <1>6, <2>1 DEF AckState, AckLine
  <2>4. 8 + s \in Lines /\ MasterBit(8 + s) = CascadeLine /\ 8 + s >= 8 /\ (8 + s) - 8 = s
    <3>1. 8 + s \in Lines /\ 8 + s >= 8 /\ (8 + s) - 8 = s
      BY <1>1, <2>2 DEF Wired
    <3>. QED  BY <3>1, LineTypes
  <2>5. Accept(q["slave"], s) \in PicState /\ CascadeLine \in 0..7
    BY <1>2, <2>2, AcceptServes DEF CascadeLine
  <2>6. r \in [Chips -> PicState] /\ r["slave"] = Accept(q["slave"], s)
    BY <1>1, <1>2, <2>5 DEF Chips, PicState
  <2>7. /\ r["master"].isr = q["master"].isr \union {CascadeLine}
        /\ r["master"].irr = q["master"].irr /\ ~r["master"].auto_eoi
    BY <1>1, <1>2 DEF Chips, PicState
  <2> HIDE DEF r, m, s
  <2>8. /\ r["slave"].isr = q["slave"].isr \union {s} /\ ~r["slave"].auto_eoi
        /\ r["slave"].irr \subseteq q["slave"].irr
    BY <1>2, <2>2, <2>6, AcceptServes
  <2>9. Wired(r)
    BY <1>1, <2>7, <2>8 DEF Wired, Chips
  <2>10. /\ update_cascade(r)["slave"] = r["slave"]
         /\ update_cascade(r)["master"].isr = r["master"].isr
         /\ Wired(update_cascade(r))
    BY <2>6, <2>9, CascadeRefresh DEF Wired, Chips
  <2>. QED  BY <1>1, <1>3, <1>4, <1>6, <2>3, <2>4, <2>7, <2>8, <2>10
<1>. QED  BY <1>5, <1>6

----------------------------------------------------------------------------
(* The stack of handlers.                                                  *)

LEMMA StackTypes ==
    ASSUME TypeOK
    PROVE  /\ frames \in Seq(Frame) /\ Len(frames) \in Nat
           /\ frames = << >> <=> Len(frames) = 0
           /\ \A i \in 1..Len(frames) : /\ frames[i] \in Frame /\ frames[i].line \in Lines
                                        /\ frames[i].stage \in Stages
<1>1. frames \in Seq(Frame) /\ Len(frames) \in Nat /\ (frames = << >> <=> Len(frames) = 0)
  BY LenProperties, EmptySeq DEF TypeOK
<1>2. \A i \in 1..Len(frames) : frames[i] \in Frame
  BY <1>1, ElementOfSeq
<1>. QED  BY <1>1, <1>2 DEF Frame

(* Where a stub goes on from each of its stages but the last.              *)
LEMMA StagesFollow ==
    ASSUME NEW f \in Frame, f.stage # "iret", f.stage = "eoi_slave" => f.line >= 8
    PROVE  /\ NextStage(f) \in Stages \ {"hle"}
           /\ NextStage(f) = "eoi_slave" => f.line >= 8
           /\ NextStage(f) = "iret" <=> f.stage = "eoi_master"
           /\ f.stage \in {"hle", "hook"} /\ f.line >= 8 =>
                   NextStage(f) \in {"hook", "eoi_slave"}
           /\ f.stage \in {"hle", "hook"} /\ ~ f.line >= 8 =>
                   NextStage(f) \in {"hook", "eoi_master"}
           /\ f.stage = "eoi_slave" => NextStage(f) = "eoi_master"
<1>1. f.stage \in Stages /\ f.line \in Nat
  BY LineTypes DEF Frame
<1>2. CASE f.stage = "hle"
  BY <1>1, <1>2 DEF NextStage, Stages
<1>3. CASE f.stage = "hook"
  BY <1>1, <1>3 DEF NextStage, Stages
<1>4. CASE f.stage = "eoi_slave"
  BY <1>1, <1>4 DEF NextStage, Stages
<1>5. CASE f.stage = "eoi_master"
  BY <1>1, <1>5 DEF NextStage, Stages
<1>. QED  BY <1>1, <1>2, <1>3, <1>4, <1>5 DEF Stages

(* The innermost handler goes on; the others stay where they are.          *)
LEMMA Advanced ==
    ASSUME TypeOK, StagesFit, frames # << >>, Top.stage # "iret", Advance
    PROVE  /\ Len(frames) >= 1 /\ frames' \in Seq(Frame) /\ Len(frames') = Len(frames)
           /\ \A i \in 1..Len(frames) : frames'[i].line = frames[i].line
           /\ frames'[Len(frames)].stage = NextStage(Top)
           /\ \A i \in 1..Len(frames) : i # Len(frames) => frames'[i] = frames[i]
           /\ StagesFit'
<1> DEFINE n == Len(frames)
           f == [frames[n] EXCEPT !.stage = NextStage(Top)]
<1>1. n \in 1..n /\ Top \in Frame /\ Top = frames[n]
  BY StackTypes DEF Top
<1>2. NextStage(Top) \in Stages /\ (NextStage(Top) = "eoi_slave" => Top.line >= 8)
  BY <1>1, StagesFollow DEF StagesFit
<1>3. f \in Frame /\ f.line = frames[n].line /\ f.stage = NextStage(Top)
  BY <1>1, <1>2 DEF Frame
<1>4. frames' = [frames EXCEPT ![n] = f]
  BY DEF Advance
<1> HIDE DEF f
<1>5. /\ frames' \in Seq(Frame) /\ Len(frames') = n
      /\ \A i \in 1..n : frames'[i] = IF i = n THEN f ELSE frames[i]
  BY <1>1, <1>3, <1>4, StackTypes, ExceptSeq
<1>6. n >= 1
  BY <1>1, StackTypes
<1> HIDE DEF n
<1>7. StagesFit'
  BY <1>1, <1>2, <1>3, <1>5 DEF StagesFit, n
<1>. QED  BY <1>1, <1>3, <1>5, <1>6, <1>7 DEF n

(* A step that sends no EOI owes what it owed.                             *)
LEMMA OwesTheSame ==
    ASSUME TypeOK, ServiceMatchesStack, StagesFit, frames # << >>, Top.stage \in {"hle", "hook"},
           Advance, \A c \in Chips : pics'[c].isr = pics[c].isr
    PROVE  ServiceMatchesStack'
<1> DEFINE n == Len(frames)
<1>1. n \in 1..n /\ Top = frames[n] /\ Top \in Frame /\ Top.line \in Nat
  BY StackTypes, LineTypes DEF Top
<1>2. /\ Len(frames') = n /\ \A i \in 1..n : frames'[i].line = frames[i].line
      /\ frames'[n].stage = NextStage(Top)
      /\ \A i \in 1..n : i # n => frames'[i] = frames[i]
  BY Advanced
<1>3. /\ NextStage(Top) # "iret"
      /\ Top.line >= 8 <=> Top.line >= 8 /\ NextStage(Top) \in {"hle", "hook", "eoi_slave"}
  BY <1>1, StagesFollow DEF StagesFit
<1>4. OweMaster' = OweMaster
  BY <1>1, <1>2, <1>3 DEF OweMaster
<1>5. OweSlave' = OweSlave
  BY <1>1, <1>2, <1>3 DEF OweSlave
<1>6. OweMaster \subseteq 1..n /\ OweSlave \subseteq 1..n
  BY DEF OweMaster, OweSlave
<1>. QED
  BY <1>2, <1>4, <1>5, <1>6 DEF ServiceMatchesStack, Chips

(* The slave's EOI ends the only service the slave can have: two would     *)
(* both hold the master's line 2.                                          *)
LEMMA SlaveServed ==
    ASSUME TypeOK, ServiceMatchesStack, StagesFit, frames # << >>, Top.stage = "eoi_slave",
           Advance, pics'["master"].isr = pics["master"].isr,
           pics'["slave"].isr = EoiNonSpecific(pics["slave"]).isr
    PROVE  ServiceMatchesStack'
<1> DEFINE n == Len(frames)
<1>1. n \in 1..n /\ n \in Nat /\ Top = frames[n] /\ Top \in Frame /\ Top.line \in Lines
      /\ Top.line >= 8
  BY StackTypes DEF Top, StagesFit
<1>2. /\ Len(frames') = n /\ \A i \in 1..n : frames'[i].line = frames[i].line
      /\ frames'[n].stage = NextStage(Top)
      /\ \A i \in 1..n : i # n => frames'[i] = frames[i]
  BY Advanced
<1>3. NextStage(Top) = "eoi_master"
  BY <1>1, StagesFollow
<1>4. OweMaster' = OweMaster /\ OweMaster \subseteq 1..n
  BY <1>1, <1>2, <1>3 DEF OweMaster
<1>5. OweSlave = {n}
  <2>1. n \in OweSlave
    BY <1>1 DEF OweSlave
  <2>2. ASSUME NEW i \in OweSlave, i # n PROVE FALSE
    <3>1. i \in 1..n /\ i \in OweMaster /\ n \in OweMaster /\ i < n
      BY <1>1, <2>2 DEF OweSlave, OweMaster
    <3>2. MasterBit(frames[n].line) < MasterBit(frames[i].line)
      BY <3>1 DEF ServiceMatchesStack
    <3>3. MasterBit(frames[n].line) = CascadeLine /\ MasterBit(frames[i].line) = CascadeLine
      BY <1>1, <2>2, <3>1, StackTypes, LineTypes DEF OweSlave
    <3>. QED  BY <3>2, <3>3 DEF CascadeLine
  <2>. QED  BY <2>1, <2>2
<1>6. OweSlave' = {}
  BY <1>1, <1>2, <1>3, <1>5 DEF OweSlave
<1>7. pics'["slave"].isr = {}
  <2>1. pics["slave"].isr = {Top.line - 8} /\ Top.line - 8 \in Int
    BY <1>1, <1>5, LineTypes DEF ServiceMatchesStack
  <2>2. pics["slave"] \in PicState
    BY DEF TypeOK, Chips
  <2>3. EoiNonSpecific(pics["slave"]).isr = {i \in pics["slave"].isr : \E j \in pics["slave"].isr : j < i}
    BY <2>2 DEF EoiNonSpecific, PicState
  <2>. QED  BY <2>1, <2>3
<1>8. /\ pics'["master"].isr = {MasterBit(frames'[i].line) : i \in OweMaster'}
      /\ \A i, j \in OweMaster' : i < j => MasterBit(frames'[j].line) < MasterBit(frames'[i].line)
  BY <1>2, <1>4 DEF ServiceMatchesStack
<1>. QED  BY <1>6, <1>7, <1>8 DEF ServiceMatchesStack

(* The master's EOI ends the service of the innermost handler, which has   *)
(* the highest priority of all that are in service.                        *)
LEMMA MasterServed ==
    ASSUME TypeOK, ServiceMatchesStack, StagesFit, frames # << >>, Top.stage = "eoi_master",
           Advance, pics'["slave"].isr = pics["slave"].isr,
           pics'["master"].isr = EoiNonSpecific(pics["master"]).isr
    PROVE  ServiceMatchesStack'
<1> DEFINE n == Len(frames)
           mb(i) == MasterBit(frames[i].line)
<1>1. n \in 1..n /\ n \in Nat /\ Top = frames[n] /\ Top \in Frame /\ Top.line \in Lines
  BY StackTypes DEF Top
<1>2. /\ Len(frames') = n /\ \A i \in 1..n : frames'[i].line = frames[i].line
      /\ frames'[n].stage = NextStage(Top)
      /\ \A i \in 1..n : i # n => frames'[i] = frames[i]
  BY Advanced
<1>3. NextStage(Top) = "iret"
  BY <1>1, StagesFollow
<1>4. /\ OweMaster' = OweMaster \ {n} /\ n \in OweMaster /\ OweMaster \subseteq 1..n
      /\ OweSlave' = OweSlave /\ OweSlave \subseteq 1..n
  BY <1>1, <1>2, <1>3 DEF OweMaster, OweSlave
<1>5. \A i \in OweMaster : mb(i) \in Int
  BY <1>4, StackTypes, LineTypes DEF MasterBit, CascadeLine
<1>6. \A i, j \in OweMaster : i < j => mb(j) < mb(i)
  BY DEF ServiceMatchesStack
<1>7. pics["master"].isr = {mb(i) : i \in OweMaster}
  BY DEF ServiceMatchesStack
<1>8. \A i \in OweMaster \ {n} : mb(n) < mb(i)
  BY <1>1, <1>4, <1>6
<1>9. pics'["master"].isr = {b \in pics["master"].isr : \E j \in pics["master"].isr : j < b}
  <2>1. pics["master"] \in PicState
    BY DEF TypeOK, Chips
  <2>. QED  BY <2>1 DEF EoiNonSpecific, PicState
<1> HIDE DEF mb
<1>10. \A b : (\E i \in OweMaster : mb(i) = b /\ \E j \in OweMaster : mb(j) < b)
               <=> (\E i \in OweMaster \ {n} : mb(i) = b)
  <2>1. ASSUME NEW i \in OweMaster, NEW j \in OweMaster, mb(j) < mb(i)
        PROVE  i # n
    BY <1>4, <1>5, <1>8, <2>1
  <2>. QED  BY <1>4, <1>8, <2>1
<1>11. pics'["master"].isr = {mb(i) : i \in OweMaster \ {n}}
  BY <1>7, <1>9, <1>10
<1>12. pics'["master"].isr = {MasterBit(frames'[i].line) : i \in OweMaster'}
  BY <1>2, <1>4, <1>11 DEF mb
<1>13. \A i, j \in OweMaster' : i < j => MasterBit(frames'[j].line) < MasterBit(frames'[i].line)
  BY <1>2, <1>4, <1>6 DEF mb
<1>14. pics'["slave"].isr = {frames'[i].line - 8 : i \in OweSlave'}
  BY <1>2, <1>4 DEF ServiceMatchesStack
<1>. QED  BY <1>12, <1>13, <1>14 DEF ServiceMatchesStack

(* A handler that returns owes nothing any more.                           *)
LEMMA Returned ==
    ASSUME TypeOK, ServiceMatchesStack, StagesFit, frames # << >>, Top.stage = "iret",
           frames' = SubSeq(frames, 1, Len(frames) - 1),
           \A c \in Chips : pics'[c].isr = pics[c].isr
    PROVE  ServiceMatchesStack' /\ StagesFit' /\ frames' \in Seq(Frame)
<1> DEFINE n == Len(frames) - 1
<1>1. /\ Len(frames) \in Nat /\ n \in Nat /\ Top = frames[Len(frames)]
      /\ \A i \in 1..n : i \in 1..Len(frames) /\ i # Len(frames)
      /\ \A i \in 1..Len(frames) : i \in 1..n \/ i = Len(frames)
  BY StackTypes DEF Top
<1>2. /\ frames' \in Seq(Frame) /\ Len(frames') = n
      /\ \A i \in 1..n : frames'[i] = frames[i]
  BY StackTypes, OthersStay
<1> HIDE DEF n
<1>3. OweMaster' = OweMaster /\ OweMaster \subseteq 1..n
  BY <1>1, <1>2 DEF OweMaster
<1>4. OweSlave' = OweSlave /\ OweSlave \subseteq 1..n
  BY <1>1, <1>2 DEF OweSlave
<1>5. ServiceMatchesStack'
  BY <1>2, <1>3, <1>4 DEF ServiceMatchesStack, Chips
<1>6. StagesFit'
  BY <1>1, <1>2 DEF StagesFit
<1>. QED  BY <1>2, <1>5, <1>6

(* The line that the acknowledge answers for is served by the new handler. *)
LEMMA Accepted ==
    ASSUME IInv, AcceptInterrupt
    PROVE  ServiceMatchesStack' /\ StagesFit' /\ frames' \in Seq(Frame)
<1> DEFINE n == Len(frames)
           l == AckLine(pics)
           f == [line |-> l, stage |-> "hle", saved |-> iflag]
<1>0. /\ TypeOK /\ Wired(pics) /\ ServiceMatchesStack /\ StagesFit
      /\ pics \in [Chips -> PicState] /\ iflag \in BOOLEAN
  BY DEF IInv, TypeOK
<1>1. /\ pics' = AckState(pics) /\ frames' = Append(frames, f) /\ pic_has_pending(pics)
  BY DEF AcceptInterrupt, Interrupting
<1>2. /\ l \in Lines /\ \A j \in pics["master"].isr : MasterBit(l) < j
      /\ pics'["master"].isr = pics["master"].isr \union {MasterBit(l)}
      /\ pics'["slave"].isr = IF l >= 8 THEN pics["slave"].isr \union {l - 8}
                                        ELSE pics["slave"].isr
  BY <1>0, <1>1, AckServes
<1>3. f \in Frame /\ f.line = l /\ f.stage = "hle"
  BY <1>0, <1>2 DEF Frame, Stages
<1> HIDE DEF f, l
<1>4. /\ frames' \in Seq(Frame) /\ Len(frames') = n + 1 /\ frames'[n + 1] = f
      /\ \A i \in 1..n : frames'[i] = frames[i]
  BY <1>0, <1>1, <1>3, StackTypes, AppendProperties
<1>5. n \in Nat /\ 1..(n + 1) = (1..n) \union {n + 1} /\ \A i \in 1..n : i < n + 1
  BY <1>0, StackTypes
<1> HIDE DEF n
<1>6. OweMaster' = OweMaster \union {n + 1} /\ OweMaster \subseteq 1..n
  BY <1>3, <1>4, <1>5 DEF OweMaster, n
<1>7. OweSlave' = (IF l >= 8 THEN OweSlave \union {n + 1} ELSE OweSlave) /\ OweSlave \subseteq 1..n
  BY <1>3, <1>4, <1>5 DEF OweSlave, n
<1>8. pics'["master"].isr = {MasterBit(frames'[i].line) : i \in OweMaster'}
  <2>1. pics["master"].isr = {MasterBit(frames[i].line) : i \in OweMaster}
    BY <1>0 DEF ServiceMatchesStack
  <2>. QED  BY <1>2, <1>3, <1>4, <1>6, <2>1
<1>9. pics'["slave"].isr = {frames'[i].line - 8 : i \in OweSlave'}
  <2>1. pics["slave"].isr = {frames[i].line - 8 : i \in OweSlave}
    BY <1>0 DEF ServiceMatchesStack
  <2>. QED  BY <1>2, <1>3, <1>4, <1>7, <2>1
<1>10. \A i, j \in OweMaster' : i < j => MasterBit(frames'[j].line) < MasterBit(frames'[i].line)
  <2> SUFFICES ASSUME NEW i \in OweMaster', NEW j \in OweMaster', i < j
               PROVE  MasterBit(frames'[j].line) < MasterBit(frames'[i].line)
    OBVIOUS
  <2>1. i \in OweMaster
    BY <1>5, <1>6
  <2>2. CASE j \in OweMaster
    BY <1>0, <1>4, <1>6, <2>1, <2>2 DEF ServiceMatchesStack
  <2>3. CASE j = n + 1
    <3>1. MasterBit(frames[i].line) \in pics["master"].isr
      BY <1>0, <2>1 DEF ServiceMatchesStack
    <3>. QED  BY <1>2, <1>3, <1>4, <1>6, <2>1, <2>3, <3>1
  <2>. QED  BY <1>6, <2>2, <2>3
<1>11. StagesFit'
  BY <1>0, <1>3, <1>4, <1>5 DEF StagesFit, n
<1>. QED  BY <1>4, <1>8, <1>9, <1>10, <1>11 DEF ServiceMatchesStack

----------------------------------------------------------------------------
(* The inductive invariant, action by action.                              *)

LEMMA InitIInv == Init => IInv
<1> SUFFICES ASSUME Init PROVE IInv
  OBVIOUS
<1>1. pics \in [Chips -> PicState] /\ Wired(pics) /\ \A c \in Chips : pics[c].isr = {}
  BY Programmed DEF Init, PostPics, Chips, Wired
<1>2. frames = << >> /\ frames \in Seq(Frame) /\ Len(frames) = 0
  BY EmptySeq DEF Init
<1>3. TypeOK
  <2>1. raises \in 0..MaxRaises /\ pc \in Loop /\ work \in SUBSET Lines
    BY RaisesAssumption DEF Init, Loop
  <2>. QED  BY <1>1, <1>2, <2>1 DEF Init, TypeOK
<1>4. OweMaster = {} /\ OweSlave = {}
  BY <1>2 DEF OweMaster, OweSlave
<1>5. ServiceMatchesStack
  BY <1>1, <1>4 DEF ServiceMatchesStack, Chips
<1>. QED
  BY <1>1, <1>2, <1>3, <1>5
     DEF IInv, Init, StagesFit, LoopUndisturbed, SleepsOnlyWhenIdle

(* The master's or slave's EOI, after a look.                              *)
LEMMA EoiKeeps ==
    ASSUME pics \in [Chips -> PicState], Wired(pics), NEW c \in Chips,
           pics' = [Looked EXCEPT ![c] = EoiNonSpecific(Looked[c])]
    PROVE  /\ pics' \in [Chips -> PicState] /\ Wired(pics')
           /\ pics'[c].isr = EoiNonSpecific(pics[c]).isr
           /\ \A d \in Chips : d # c => pics'[d].isr = pics[d].isr
<1>1. /\ Looked \in [Chips -> PicState] /\ Wired(Looked)
      /\ \A d \in Chips : Looked[d].isr = pics[d].isr
  BY LookKeeps
<1>2. \A p \in PicState : /\ EoiNonSpecific(p) \in PicState
                          /\ EoiNonSpecific(p).irr = p.irr
                          /\ EoiNonSpecific(p).auto_eoi = p.auto_eoi
                          /\ EoiNonSpecific(p).isr = {i \in p.isr : \E j \in p.isr : j < i}
  BY DEF EoiNonSpecific, PicState
<1>3. Looked[c] \in PicState /\ pics[c] \in PicState
  BY <1>1
<1>4. /\ pics' \in [Chips -> PicState] /\ pics'[c] = EoiNonSpecific(Looked[c])
      /\ \A d \in Chips : d # c => pics'[d] = Looked[d]
  BY <1>1, <1>2, <1>3
<1>5. pics'[c].isr = EoiNonSpecific(pics[c]).isr
  <2>1. EoiNonSpecific(Looked[c]).isr = {i \in Looked[c].isr : \E j \in Looked[c].isr : j < i}
    BY <1>2, <1>3
  <2>2. EoiNonSpecific(pics[c]).isr = {i \in pics[c].isr : \E j \in pics[c].isr : j < i}
    BY <1>2, <1>3
  <2>3. Looked[c].isr = pics[c].isr
    BY <1>1
  <2>. QED  BY <1>4, <2>1, <2>2, <2>3
<1>6. Wired(pics')
  <2>1. \A d \in Chips : pics'[d].irr = Looked[d].irr /\ pics'[d].auto_eoi = Looked[d].auto_eoi
    BY <1>2, <1>3, <1>4
  <2>. QED  BY <1>1, <2>1 DEF Wired, Chips
<1>. QED  BY <1>1, <1>4, <1>5, <1>6

(* A request changes nothing else.                                         *)
LEMMA RequestTypes ==
    ASSUME NEW p \in PicState, NEW i \in 0..7
    PROVE  LET q == [p EXCEPT !.irr = @ \union {i}]
           IN  /\ q \in PicState /\ q.isr = p.isr /\ q.auto_eoi = p.auto_eoi
               /\ q.irr = p.irr \union {i}
<1>1. p.irr \union {i} \in SUBSET (0..7)
  BY DEF PicState
<1>. QED  BY <1>1 DEF PicState

(* The controllers, the stack and what is in service.                      *)
Served == /\ pics \in [Chips -> PicState] /\ frames \in Seq(Frame)
          /\ Wired(pics) /\ ServiceMatchesStack /\ StagesFit

LEMMA StepServed == IInv /\ [Next]_vars => Served'
<1> SUFFICES ASSUME IInv, [Next]_vars PROVE Served'
  OBVIOUS
<1>0. /\ TypeOK /\ pics \in [Chips -> PicState] /\ frames \in Seq(Frame)
      /\ Wired(pics) /\ ServiceMatchesStack /\ StagesFit
  BY DEF IInv, TypeOK
<1>1. ASSUME frames' = frames, pics' \in [Chips -> PicState], Wired(pics'),
             \A c \in Chips : pics'[c].isr = pics[c].isr
      PROVE  Served'
  <2>1. ServiceMatchesStack'
    BY <1>0, <1>1 DEF ServiceMatchesStack, OweMaster, OweSlave, Chips
  <2>. QED  BY <1>0, <1>1, <2>1 DEF Served, StagesFit
<1>2. CASE AcceptInterrupt
  <2>1. pics' \in [Chips -> PicState] /\ Wired(pics')
    BY <1>0, <1>2, AckServes DEF AcceptInterrupt, Interrupting
  <2>. QED  BY <1>2, <2>1, Accepted DEF Served
<1>3. CASE Wake
  <2>1. /\ pics' \in [Chips -> PicState] /\ Wired(pics')
        /\ \A c \in Chips : pics'[c].isr = pics[c].isr
    BY <1>0, <1>3, CascadeRefresh DEF Wake, Wired, Chips
  <2>. QED  BY <1>1, <1>3, <2>1 DEF Wake
<1>4. CASE StubHle \/ StubHook
  <2>1. /\ frames # << >> /\ Top.stage \in {"hle", "hook"} /\ Advance /\ pics' = Looked
    BY <1>4 DEF StubHle, StubHook, InStub
  <2>2. /\ pics' \in [Chips -> PicState] /\ Wired(pics')
        /\ \A c \in Chips : pics'[c].isr = pics[c].isr
    BY <1>0, <2>1, LookKeeps
  <2>. QED  BY <1>0, <2>1, <2>2, OwesTheSame, Advanced DEF Served
<1>5. ASSUME NEW c \in Chips, StubEoi(c) PROVE Served'
  <2>1. /\ frames # << >> /\ Advance
        /\ Top.stage = IF c = "master" THEN "eoi_master" ELSE "eoi_slave"
        /\ pics' = [Looked EXCEPT ![c] = EoiNonSpecific(Looked[c])]
    BY <1>5 DEF StubEoi, InStub
  <2>2. /\ pics' \in [Chips -> PicState] /\ Wired(pics')
        /\ pics'[c].isr = EoiNonSpecific(pics[c]).isr
        /\ \A d \in Chips : d # c => pics'[d].isr = pics[d].isr
    BY <1>0, <2>1, EoiKeeps
  <2>3. ServiceMatchesStack'
    <3>1. CASE c = "master"
      BY <1>0, <2>1, <2>2, <3>1, MasterServed DEF Chips
    <3>2. CASE c = "slave"
      BY <1>0, <2>1, <2>2, <3>2, SlaveServed DEF Chips
    <3>. QED  BY <3>1, <3>2 DEF Chips
  <2>4. Top.stage # "iret"
    BY <2>1
  <2>. QED  BY <1>0, <2>1, <2>2, <2>3, <2>4, Advanced DEF Served
<1>6. CASE StubIret
  <2>1. /\ frames # << >> /\ Top.stage = "iret" /\ pics' = Looked
        /\ frames' = SubSeq(frames, 1, Len(frames) - 1)
    BY <1>6 DEF StubIret, InStub
  <2>2. /\ pics' \in [Chips -> PicState] /\ Wired(pics')
        /\ \A c \in Chips : pics'[c].isr = pics[c].isr
    BY <1>0, <2>1, LookKeeps
  <2>. QED  BY <1>0, <2>1, <2>2, Returned DEF Served
<1>7. CASE Cli \/ Look \/ Sti \/ Hlt
  <2>1. pics' = Looked /\ frames' = frames
    BY <1>7 DEF Cli, Look, Sti, Hlt
  <2>. QED  BY <1>0, <1>1, <2>1, LookKeeps
<1>8. ASSUME NEW irq \in Lines, Raise(irq) PROVE Served'
  <2>1. pics' = [pics EXCEPT ![ChipOf(irq)].irr = @ \union {irq % 8}] /\ frames' = frames
    BY <1>8 DEF Raise, pic_raise_irq
  <2>2. /\ pics' \in [Chips -> PicState]
        /\ \A c \in Chips : /\ pics'[c].isr = pics[c].isr /\ pics'[c].auto_eoi = pics[c].auto_eoi
                            /\ pics'[c].irr = IF c = ChipOf(irq) THEN pics[c].irr \union {irq % 8}
                                                               ELSE pics[c].irr
    <3> DEFINE q == [pics[ChipOf(irq)] EXCEPT !.irr = @ \union {irq % 8}]
    <3>1. ChipOf(irq) \in Chips /\ pics[ChipOf(irq)] \in PicState /\ irq % 8 \in 0..7
      BY <1>0, LineTypes
    <3>2. /\ q \in PicState /\ q.isr = pics[ChipOf(irq)].isr
          /\ q.auto_eoi = pics[ChipOf(irq)].auto_eoi
          /\ q.irr = pics[ChipOf(irq)].irr \union {irq % 8}
      BY <3>1, RequestTypes
    <3>3. pics' = [pics EXCEPT ![ChipOf(irq)] = q]
      BY <2>1
    <3> HIDE DEF q
    <3>. QED  BY <1>0, <3>1, <3>2, <3>3
  <2>3. Wired(pics')
    <3>1. CASE irq < 8
      BY <1>0, <2>2, <3>1, LineTypes DEF Wired, Chips
    <3>2. CASE irq >= 8
      BY <1>0, <2>2, <3>2, LineTypes DEF Wired, Chips
    <3>. QED  BY <3>1, <3>2, LineTypes
  <2>. QED  BY <1>1, <2>1, <2>2, <2>3
<1>9. CASE UNCHANGED vars
  BY <1>0, <1>1, <1>9 DEF vars
<1>. QED  BY <1>2, <1>3, <1>4, <1>5, <1>6, <1>7, <1>8, <1>9 DEF Next, CpuStep

(* The flags, the loop and the sleep.                                      *)
Idle == /\ iflag \in BOOLEAN /\ inhibit \in BOOLEAN /\ halted \in BOOLEAN
        /\ pc \in Loop /\ work \in SUBSET Lines /\ raises \in 0..MaxRaises
        /\ LoopUndisturbed /\ (halted => pc = "cli") /\ SleepsOnlyWhenIdle

LEMMA StepIdle == IInv /\ [Next]_vars => Idle'
<1> SUFFICES ASSUME IInv, [Next]_vars PROVE Idle'
  OBVIOUS
<1>0. Idle /\ TypeOK
  BY DEF IInv, TypeOK, Idle
<1> USE DEF Idle, LoopUndisturbed, SleepsOnlyWhenIdle, Loop
<1>1. CASE AcceptInterrupt
  <2>1. /\ ~halted /\ ~inhibit /\ iflag
        /\ halted' = halted /\ iflag' = FALSE /\ inhibit' = FALSE
        /\ UNCHANGED <<pc, work, raises>>
    BY <1>0, <1>1 DEF AcceptInterrupt, Interrupting, CanInterrupt
  <2>2. pc = "cli"
    BY <1>0, <2>1
  <2>. QED  BY <1>0, <2>1, <2>2
<1>2. CASE Wake
  BY <1>0, <1>2 DEF Wake
<1>3. ASSUME frames # << >>, ~halted, UNCHANGED <<halted, pc, raises>>,
             iflag' \in BOOLEAN, inhibit' \in BOOLEAN, work' \in SUBSET Lines
      PROVE  Idle'
  BY <1>0, <1>3
<1>4. frames # << >> => Top \in Frame /\ Top.line \in Lines /\ Top.saved \in BOOLEAN
  BY <1>0, StackTypes DEF Top, Frame
<1>5. CASE StubHle
  BY <1>0, <1>3, <1>4, <1>5 DEF StubHle, InStub, Executes
<1>6. CASE StubHook
  <2>1. PICK sti \in BOOLEAN : iflag' = (iflag \/ sti) /\ inhibit' = (sti /\ ~iflag)
    BY <1>6 DEF StubHook
  <2>2. iflag' \in BOOLEAN /\ inhibit' \in BOOLEAN
    BY <2>1
  <2>. QED  BY <1>0, <1>3, <1>6, <2>2 DEF StubHook, InStub, Executes
<1>7. ASSUME NEW c \in Chips, StubEoi(c) PROVE Idle'
  BY <1>0, <1>3, <1>7 DEF StubEoi, InStub, Executes
<1>8. CASE StubIret
  BY <1>0, <1>3, <1>4, <1>8 DEF StubIret, InStub, Executes
<1>9. CASE Cli
  BY <1>0, <1>9 DEF Cli, InLoop, Executes
<1>10. CASE Look
  <2>1. /\ ~halted /\ frames = << >> /\ ~iflag
        /\ work' = {} /\ inhibit' = (work # {}) /\ UNCHANGED <<halted, frames, raises>>
    BY <1>0, <1>10 DEF Look, InLoop, Executes
  <2>2. (pc' = "sti" /\ ~iflag') \/ pc' = "cli"
    BY <1>0, <1>10, <2>1 DEF Look
  <2>3. inhibit' \in BOOLEAN /\ iflag' \in BOOLEAN
    BY <1>0, <1>10, <2>1 DEF Look
  <2>. QED  BY <1>0, <2>1, <2>2, <2>3
<1>11. CASE Sti
  <2>1. /\ ~halted /\ frames = << >> /\ ~iflag /\ work = {}
        /\ iflag' /\ iflag' = TRUE /\ inhibit' /\ inhibit' = TRUE /\ pc' = "hlt"
        /\ UNCHANGED <<halted, frames, work, raises>>
    BY <1>0, <1>11 DEF Sti, InLoop, Executes
  <2>. QED  BY <1>0, <2>1
<1>12. CASE Hlt
  BY <1>0, <1>12 DEF Hlt, InLoop, Executes
<1>13. ASSUME NEW irq \in Lines, Raise(irq) PROVE Idle'
  <2>1. raises' \in 0..MaxRaises
    BY <1>0, <1>13, RaisesAssumption DEF Raise
  <2>. QED  BY <1>0, <1>13, <2>1 DEF Raise
<1>14. CASE UNCHANGED vars
  BY <1>0, <1>14 DEF vars
<1>. QED
  BY <1>1, <1>2, <1>5, <1>6, <1>7, <1>8, <1>9, <1>10, <1>11, <1>12, <1>13, <1>14
     DEF Next, CpuStep

----------------------------------------------------------------------------
(* Controllers, CPU, stubs and the program agree: each non-specific EOI in *)
(* build_stub's stubs ends the service of the handler that executes it,    *)
(* handlers nest by priority, and the CPU halts only with nothing to do    *)
(* (cpu_run's shadow of STI).                                              *)
THEOREM DeliveryConsistent == Spec => []Consistent
<1>1. IInv /\ [Next]_vars => IInv'
  BY StepServed, StepIdle DEF IInv, TypeOK, Served, Idle
<1>2. IInv => Consistent
  BY DEF IInv, Consistent
<1>. QED  BY <1>1, <1>2, InitIInv, PTL DEF Spec

----------------------------------------------------------------------------
(* The keyboard controller.                                                *)

\* The inductive invariant.  NoStrandedByte and EventIsUseful say together that
\* the event runs exactly while a byte could be moved; each step that changes the
\* queue or the output buffer needs both of them before it to restore either.
KbdIInv == KbdTypeOK /\ NoStrandedByte /\ EventIsUseful /\ IrqMeansByte

(* What queue_byte lets in is a prefix of what is offered, and fits.       *)
LEMMA FittingFits ==
    ASSUME KbdTypeOK, NEW bs \in Seq(Byte)
    PROVE  /\ Fitting(bs) \in Seq(Byte)
           /\ queue \o Fitting(bs) \in Seq(Byte)
           /\ Len(queue \o Fitting(bs)) = Len(queue) + Len(Fitting(bs))
           /\ Len(queue \o Fitting(bs)) <= QSize
<1>1. /\ queue \in Seq(Byte) /\ Len(queue) \in Nat /\ Len(queue) <= QSize
      /\ QSize \in Nat /\ Len(bs) \in Nat
  BY QSizeAssumption DEF KbdTypeOK
<1>2. CASE Len(bs) <= QSize - Len(queue)
  BY <1>1, <1>2 DEF Fitting
<1>3. CASE ~(Len(bs) <= QSize - Len(queue))
  <2>1. QSize - Len(queue) \in Nat /\ QSize - Len(queue) <= Len(bs)
    BY <1>1, <1>3
  <2>2. Fitting(bs) = SubSeq(bs, 1, QSize - Len(queue))
    BY <1>3 DEF Fitting
  <2>3. /\ SubSeq(bs, 1, QSize - Len(queue)) \in Seq(Byte)
        /\ Len(SubSeq(bs, 1, QSize - Len(queue))) = QSize - Len(queue)
    BY <1>1, <2>1
  <2>. QED  BY <1>1, <2>1, <2>2, <2>3
<1>. QED  BY <1>2, <1>3

(* Queueing bytes keeps what the invariant says of the queue and the event,*)
(* and never makes a non-empty queue empty.                                *)
LEMMA QueueBytesKeeps ==
    ASSUME KbdIInv, NEW bs \in Seq(Byte), QueueBytes(bs), UNCHANGED <<out, obf>>
    PROVE  /\ queue' \in Seq(Byte) /\ Len(queue') <= QSize
           /\ event' \in BOOLEAN
           /\ NoStrandedByte' /\ EventIsUseful'
<1>1. /\ Fitting(bs) \in Seq(Byte)
      /\ queue \o Fitting(bs) \in Seq(Byte)
      /\ Len(queue \o Fitting(bs)) <= QSize
  BY FittingFits DEF KbdIInv
<1>2. queue \in Seq(Byte) /\ obf \in BOOLEAN /\ event \in BOOLEAN
  BY DEF KbdIInv, KbdTypeOK
<1>3. queue' = queue \o Fitting(bs) /\ obf' = obf
  BY DEF QueueBytes
<1>4. event' = (event \/ (~obf /\ Fitting(bs) # << >>))
  BY DEF QueueBytes
<1>5. CASE Fitting(bs) = << >>
  <2>1. queue' = queue
    BY <1>2, <1>3, <1>5
  <2>2. event' = event
    BY <1>2, <1>4, <1>5
  <2>. QED
    BY <1>1, <1>2, <1>3, <2>1, <2>2 DEF KbdIInv, NoStrandedByte, EventIsUseful
<1>6. CASE Fitting(bs) # << >>
  <2>1. queue' # << >>
    <3>1. Len(Fitting(bs)) \in Nat /\ Len(Fitting(bs)) # 0
      BY <1>1, <1>6
    <3>2. Len(queue') = Len(queue) + Len(Fitting(bs)) /\ Len(queue) \in Nat
      BY <1>2, <1>3, FittingFits DEF KbdIInv
    <3>3. Len(queue') # 0
      BY <3>1, <3>2
    <3>. QED  BY <3>3
  <2>2. event' = (event \/ ~obf) /\ event' \in BOOLEAN
    BY <1>4, <1>6
  <2>3. NoStrandedByte' /\ EventIsUseful'
    <3>1. event' <=> ~obf'
      <4>1. event => ~obf
        BY DEF KbdIInv, EventIsUseful
      <4>2. obf' = obf /\ event' = (event \/ ~obf)
        BY <1>3, <2>2
      <4>3. CASE obf = TRUE
        <5>1. event = FALSE
          BY <1>2, <4>1, <4>3
        <5>. QED  BY <4>2, <4>3, <5>1
      <4>4. CASE obf = FALSE
        <5>1. event' = TRUE
          BY <4>2, <4>4
        <5>. QED  BY <4>2, <4>4, <5>1
      <4>. QED  BY <1>2, <4>3, <4>4
    <3>. QED  BY <2>1, <3>1 DEF NoStrandedByte, EventIsUseful
  <2>. QED  BY <1>1, <1>3, <2>2, <2>3
<1>. QED  BY <1>5, <1>6

(* The byte sequences that the controller and the keyboard queue.          *)
LEMMA AnswersAreBytes ==
    /\ KeyCodes \subseteq Seq(Byte)
    /\ Replies \subseteq Seq(Byte)
    /\ <<Data>> \in Seq(Byte)
<1>1. Ack \in Byte /\ Data \in Byte /\ Codes \subseteq Byte
  BY DEF Byte
<1>2. KeyCodes \subseteq Seq(Byte)
  <2>1. \A a \in Codes : <<a>> \in Seq(Byte)
    BY <1>1
  <2>2. \A a, b \in Codes : <<a, b>> \in Seq(Byte)
    BY <1>1
  <2>3. ASSUME NEW k \in KeyCodes
        PROVE  k \in Seq(Byte)
    <3>1. CASE k \in {<<a>> : a \in Codes}
      BY <2>1, <3>1, Zenon
    <3>2. CASE k \in {<<a, b>> : a, b \in Codes}
      <4>1. PICK a \in Codes, b \in Codes : k = <<a, b>>
        BY <3>2
      <4>. QED  BY <2>2, <4>1
    <3>. QED  BY <2>3, <3>1, <3>2 DEF KeyCodes
  <2>. QED  BY <2>3
<1>3. CommandAnswers \subseteq Seq(Byte)
  BY <1>1 DEF CommandAnswers
<1>4. Replies \subseteq Seq(Byte)
  <2>1. \A b \in Byte : <<b>> \in Seq(Byte)
    OBVIOUS
  <2>2. << >> \in Seq(Byte)
    OBVIOUS
  <2>. QED  BY <1>3, <2>1, <2>2 DEF Replies
<1>. QED  BY <1>1, <1>2, <1>4

(* The reset state, which is also the initial one.                         *)
LEMMA InitInv == KbdInit => KbdIInv
<1>. SUFFICES ASSUME KbdInit PROVE KbdIInv
  OBVIOUS
<1>1. << >> \in Seq(Byte) /\ Len(<< >>) = 0 /\ 0 <= QSize
  BY QSizeAssumption
<1>2. KbdTypeOK
  BY <1>1 DEF KbdInit, KbdTypeOK, Byte, None
<1>3. NoStrandedByte /\ EventIsUseful /\ IrqMeansByte
  BY DEF KbdInit, NoStrandedByte, EventIsUseful, IrqMeansByte
<1>. QED  BY <1>2, <1>3 DEF KbdIInv

(* Every step keeps the invariant.                                         *)
LEMMA NextInv == KbdIInv /\ [KbdNext]_kbdVars => KbdIInv'
<1>. SUFFICES ASSUME KbdIInv, [KbdNext]_kbdVars
              PROVE  KbdIInv'
  OBVIOUS
<1>. USE DEF KbdIInv
<1>1. ASSUME NEW bs \in KeyCodes, PushScancodes(bs)
      PROVE  KbdIInv'
  <2>1. bs \in Seq(Byte) /\ QueueBytes(bs)
    BY <1>1, AnswersAreBytes DEF PushScancodes
  <2>2. UNCHANGED <<out, obf, ctl, irq1, reset_pending>>
    BY <1>1 DEF PushScancodes
  <2>3. /\ queue' \in Seq(Byte) /\ Len(queue') <= QSize
        /\ event' \in BOOLEAN /\ NoStrandedByte' /\ EventIsUseful'
    BY <2>1, <2>2, QueueBytesKeeps
  <2>. QED  BY <2>2, <2>3 DEF KbdTypeOK, IrqMeansByte, ctl
<1>2. ASSUME Deliver
      PROVE  KbdIInv'
  <2>0. ~obf /\ queue # << >> /\ queue \in Seq(Byte)
    BY <1>2 DEF Deliver, EventIsUseful, KbdTypeOK
  <2>1. /\ Head(queue) \in Byte /\ Tail(queue) \in Seq(Byte)
        /\ Len(Tail(queue)) = Len(queue) - 1 /\ Len(queue) \in Nat
    BY <2>0
  <2>2. /\ event' = FALSE /\ out' = Head(queue) /\ queue' = Tail(queue)
        /\ obf' = TRUE /\ irq1' = (irq1 \/ irq_enable)
        /\ UNCHANGED <<ctl, reset_pending>>
    BY <1>2, <2>0 DEF Deliver
  <2>4. irq1' \in BOOLEAN
    BY <2>2
  <2>5. Len(queue') <= QSize
    BY <2>1, <2>2, QSizeAssumption DEF KbdTypeOK
  <2>3. KbdTypeOK'
    BY <2>1, <2>2, <2>4, <2>5 DEF KbdTypeOK, ctl
  <2>. QED  BY <2>2, <2>3 DEF NoStrandedByte, EventIsUseful, IrqMeansByte
<1>3. ASSUME ReadData
      PROVE  KbdIInv'
  BY <1>3 DEF ReadData, KbdTypeOK, NoStrandedByte, EventIsUseful, IrqMeansByte, ctl
<1>4. ASSUME ForgetIrq
      PROVE  KbdIInv'
  BY <1>4 DEF ForgetIrq, KbdTypeOK, NoStrandedByte, EventIsUseful, IrqMeansByte, ctl
<1>5. ASSUME CommandReply
      PROVE  KbdIInv'
  <2>1. QueueBytes(<<Data>>) /\ UNCHANGED <<out, obf, ctl, irq1, reset_pending>>
    BY <1>5 DEF CommandReply
  <2>3. \E bs \in Seq(Byte) : QueueBytes(bs)
    BY <2>1, AnswersAreBytes
  <2>2. /\ queue' \in Seq(Byte) /\ Len(queue') <= QSize
        /\ event' \in BOOLEAN /\ NoStrandedByte' /\ EventIsUseful'
    BY <2>1, <2>3, QueueBytesKeeps
  <2>. QED  BY <2>1, <2>2 DEF KbdTypeOK, IrqMeansByte, ctl
<1>6. ASSUME NEW c \in ControllerCmds, CommandParam(c)
      PROVE  KbdIInv'
  BY <1>6 DEF CommandParam, KbdTypeOK, NoStrandedByte, EventIsUseful, IrqMeansByte
<1>7. ASSUME RequestReset
      PROVE  KbdIInv'
  BY <1>7 DEF RequestReset, KbdTypeOK, NoStrandedByte, EventIsUseful, IrqMeansByte, ctl
<1>8. ASSUME NEW bs \in Replies, DataForController(bs)
      PROVE  KbdIInv'
  <2>1. UNCHANGED <<out, obf, kbd_cmd, irq1>> /\ pending_cmd' = None /\ QueueBytes(bs)
    BY <1>8 DEF DataForController
  <2>2. irq_enable' \in BOOLEAN /\ reset_pending' \in BOOLEAN
    BY <1>8 DEF DataForController, KbdTypeOK
  <2>3. /\ queue' \in Seq(Byte) /\ Len(queue') <= QSize
        /\ event' \in BOOLEAN /\ NoStrandedByte' /\ EventIsUseful'
    BY <1>8, <2>1, AnswersAreBytes, QueueBytesKeeps
  <2>. QED  BY <2>1, <2>2, <2>3 DEF KbdTypeOK, IrqMeansByte
<1>9. ASSUME NEW bs \in Replies, DataForKeyboard(bs)
      PROVE  KbdIInv'
  <2>1. /\ UNCHANGED <<out, obf, irq_enable, pending_cmd, irq1, reset_pending>>
        /\ QueueBytes(bs)
    BY <1>9 DEF DataForKeyboard
  <2>2. kbd_cmd' \in KeyboardCmds \union {None}
    BY <1>9 DEF DataForKeyboard, KbdTypeOK
  <2>3. /\ queue' \in Seq(Byte) /\ Len(queue') <= QSize
        /\ event' \in BOOLEAN /\ NoStrandedByte' /\ EventIsUseful'
    BY <1>9, <2>1, AnswersAreBytes, QueueBytesKeeps
  <2>. QED  BY <2>1, <2>2, <2>3 DEF KbdTypeOK, IrqMeansByte
<1>10. ASSUME Reset
       PROVE  KbdIInv'
  <2>1. << >> \in Seq(Byte) /\ Len(<< >>) = 0 /\ 0 <= QSize
    BY QSizeAssumption
  <2>2. KbdTypeOK'
    BY <1>10, <2>1 DEF Reset, KbdTypeOK, Byte, None
  <2>3. NoStrandedByte' /\ EventIsUseful' /\ IrqMeansByte'
    BY <1>10 DEF Reset, NoStrandedByte, EventIsUseful, IrqMeansByte
  <2>. QED  BY <2>2, <2>3
<1>11. ASSUME UNCHANGED kbdVars
       PROVE  KbdIInv'
  BY <1>11 DEF kbdVars, KbdTypeOK, NoStrandedByte, EventIsUseful, IrqMeansByte, ctl
<1>. QED
  BY <1>1, <1>2, <1>3, <1>4, <1>5, <1>6, <1>7, <1>8, <1>9, <1>10, <1>11 DEF KbdNext

(* Type correctness: in particular the queue never holds more than QSIZE   *)
(* bytes, whatever is pushed and answered in whatever order.               *)
THEOREM KbdTypeCorrect == KbdSpec => []KbdTypeOK
<1>1. KbdIInv => KbdTypeOK
  BY DEF KbdIInv
<1>. QED  BY <1>1, InitInv, NextInv, PTL DEF KbdSpec

(* No byte is stranded: queue_byte, kbd_deliver and rd_60 between them     *)
(* always leave either an unread byte or a running event while bytes wait. *)
THEOREM NothingStranded == KbdSpec => []NoStrandedByte
<1>1. KbdIInv => NoStrandedByte
  BY DEF KbdIInv
<1>. QED  BY <1>1, InitInv, NextInv, PTL DEF KbdSpec

(* An interrupt request stands for an unread byte, and the delivery event  *)
(* runs only when there is something to deliver.                           *)
THEOREM RequestsAreMeant == KbdSpec => [](IrqMeansByte /\ EventIsUseful)
<1>1. KbdIInv => IrqMeansByte /\ EventIsUseful
  BY DEF KbdIInv
<1>. QED  BY <1>1, InitInv, NextInv, PTL DEF KbdSpec

----------------------------------------------------------------------------
(* The controller implements the channel.                                  *)

(* Bytes for the queue are an offer, of which the channel admits what      *)
(* queue_byte lets in.                                                     *)
LEMMA QueueBytesOffers ==
    ASSUME KbdIInv, NEW bs \in Seq(Byte), QueueBytes(bs), UNCHANGED <<out, obf>>, Offers(bs)
    PROVE  Channel!Offer
<1>. DEFINE pre == IF obf THEN <<out>> ELSE << >>
<1>1. /\ Fitting(bs) \in Seq(Byte) /\ queue \in Seq(Byte)
      /\ obf \in BOOLEAN /\ out \in Byte /\ QSize \in Nat
  BY FittingFits, QSizeAssumption DEF KbdIInv, KbdTypeOK
<1>2. pre \in Seq(Byte) /\ (obf => Len(pre) = 1) /\ (~obf => Len(pre) = 0)
  BY <1>1
<1>3. Unread = pre \o queue /\ Unread' = pre \o (queue \o Fitting(bs))
  BY DEF Unread, QueueBytes
<1>. HIDE DEF pre
<1>4. Unread' = Unread \o Fitting(bs)
  BY <1>1, <1>2, <1>3
<1>5. Channel!Room = QSize - Len(queue)
  <2>1. Len(Unread) = Len(pre) + Len(queue) /\ Len(queue) \in Nat
    <3>1. queue \in Seq(Byte) /\ pre \in Seq(Byte)
      BY <1>1, <1>2
    <3>2. Len(queue) \in Nat /\ Len(pre \o queue) = Len(pre) + Len(queue)
      BY <3>1
    <3>. QED  BY <1>3, <3>2
  <2>2. CASE obf
    <3>1. Len(Unread) = 1 + Len(queue) /\ Channel!Room = (QSize + 1) - Len(Unread)
      BY <1>2, <2>1, <2>2 DEF Channel!Room
    <3>. QED  BY <1>1, <2>1, <3>1
  <2>3. CASE ~obf
    <3>1. Len(Unread) = 0 + Len(queue) /\ Channel!Room = QSize - Len(Unread)
      BY <1>2, <2>1, <2>3 DEF Channel!Room
    <3>. QED  BY <1>1, <2>1, <3>1
  <2>. QED  BY <2>2, <2>3
<1>6. Channel!Admitted(bs) = Fitting(bs)
  BY <1>5 DEF Channel!Admitted, Fitting
<1>7. port'.op = "offer" /\ port'.bytes = bs
  BY DEF Offers
<1>. QED  BY <1>4, <1>6, <1>7 DEF Channel!Offer

(* Every step of the controller is a step of the channel: bytes queued are *)
(* offered, a read of port 60h takes the presented byte or none, a reset   *)
(* clears, delivery presents the next byte and no more, and the other      *)
(* steps are silent.                                                       *)
LEMMA StepRefines ==
    KbdIInv /\ [KbdNext]_kbdVars => [Channel!Next]_<<Unread, obf, port>>
<1>. SUFFICES ASSUME KbdIInv, [KbdNext]_kbdVars
              PROVE  Channel!Next \/ UNCHANGED <<Unread, obf, port>>
  OBVIOUS
<1>1. ASSUME NEW bs \in Seq(Byte), QueueBytes(bs), UNCHANGED <<out, obf>>, Offers(bs)
      PROVE  Channel!Next
  BY <1>1, QueueBytesOffers DEF Channel!Next
<1>2. ASSUME UNCHANGED <<queue, out, obf>>
      PROVE  UNCHANGED <<Unread, obf>>
  BY <1>2 DEF Unread
<1>3. CASE Deliver /\ Silent
  <2>1. ~obf /\ queue # << >> /\ queue \in Seq(Byte)
    BY <1>3 DEF Deliver, KbdIInv, EventIsUseful, KbdTypeOK
  <2>2. out' = Head(queue) /\ queue' = Tail(queue) /\ obf' = TRUE
    BY <1>3, <2>1 DEF Deliver
  <2>3. Unread = << >> \o queue /\ Unread' = <<Head(queue)>> \o Tail(queue)
    BY <2>1, <2>2 DEF Unread
  <2>4. Unread' = Unread /\ Unread # << >>
    BY <2>1, <2>3
  <2>5. port'.op = "none"
    BY <1>3 DEF Silent
  <2>. QED  BY <2>1, <2>2, <2>4, <2>5 DEF Channel!Next, Channel!Quiet
<1>4. CASE ReadData /\ Reads
  <2>1. obf' = FALSE /\ UNCHANGED <<queue, out>> /\ queue \in Seq(Byte) /\ out \in Byte
    BY <1>4 DEF ReadData, KbdIInv, KbdTypeOK
  <2>2. Unread' = << >> \o queue
    BY <2>1 DEF Unread
  <2>3. CASE obf
    <3>1. Unread = <<out>> \o queue
      BY <2>3 DEF Unread
    <3>2. Head(Unread) = out /\ Unread' = Tail(Unread)
      BY <2>1, <2>2, <3>1
    <3>3. port' = [op |-> "read", bytes |-> <<Head(Unread)>>]
      BY <1>4, <3>2 DEF Reads
    <3>4. Channel!ReadPresented
      BY <2>1, <2>3, <3>2, <3>3 DEF Channel!ReadPresented
    <3>. QED  BY <3>4 DEF Channel!Next
  <2>4. CASE ~obf
    <3>1. Unread' = Unread
      BY <2>2, <2>4 DEF Unread
    <3>2. port'.op = "read"
      BY <1>4 DEF Reads
    <3>3. obf' = obf
      BY <2>1, <2>4 DEF KbdIInv, KbdTypeOK
    <3>4. Channel!ReadStale
      BY <2>4, <3>1, <3>2, <3>3 DEF Channel!ReadStale
    <3>. QED  BY <3>4 DEF Channel!Next
  <2>. QED  BY <2>3, <2>4
<1>5. CASE Reset /\ Resets
  <2>1. Unread' = << >> \o << >> /\ obf' = FALSE
    BY <1>5 DEF Reset, Unread
  <2>2. Unread' = << >> /\ port'.op = "reset"
    BY <1>5, <2>1 DEF Resets
  <2>. QED  BY <2>1, <2>2 DEF Channel!Next, Channel!Clear
<1>6. CASE \E bs \in KeyCodes : PushScancodes(bs) /\ Offers(bs)
  BY <1>1, <1>6, AnswersAreBytes DEF PushScancodes
<1>7. CASE CommandReply /\ Offers(<<Data>>)
  BY <1>1, <1>7, AnswersAreBytes DEF CommandReply
<1>8. CASE \E bs \in Replies : DataForController(bs) /\ Offers(bs)
  BY <1>1, <1>8, AnswersAreBytes DEF DataForController
<1>9. CASE \E bs \in Replies : DataForKeyboard(bs) /\ Offers(bs)
  BY <1>1, <1>9, AnswersAreBytes DEF DataForKeyboard
<1>10. CASE \/ ForgetIrq /\ Silent
            \/ RequestReset /\ Silent
            \/ \E c \in ControllerCmds : CommandParam(c) /\ Silent
  <2>1. UNCHANGED <<queue, out, obf>>
    BY <1>10 DEF ForgetIrq, RequestReset, CommandParam
  <2>2. UNCHANGED <<Unread, obf>>
    BY <1>2, <2>1
  <2>3. port'.op = "none"
    BY <1>10 DEF Silent
  <2>4. Channel!Quiet
    BY <2>2, <2>3 DEF Channel!Quiet
  <2>. QED  BY <2>4 DEF Channel!Next
<1>11. CASE UNCHANGED kbdVars
  <2>1. UNCHANGED <<queue, out, obf, port>>
    BY <1>11 DEF kbdVars
  <2>. QED  BY <1>2, <2>1
<1>. QED
  BY <1>3, <1>4, <1>5, <1>6, <1>7, <1>8, <1>9, <1>10, <1>11 DEF KbdNext

(* The keyboard controller is a FIFO channel of QSIZE bytes behind the one *)
(* in the output buffer, call by call: whatever the guest and the host do, *)
(* it drops a byte only when the queue is full, and takes one only for a   *)
(* read.                                                                   *)
THEOREM Implements == KbdSpec => ImplementsChannel
<1>1. KbdInit => Channel!Init
  BY DEF KbdInit, Channel!Init, Unread
<1>. QED
  BY <1>1, InitInv, NextInv, StepRefines, PTL DEF KbdSpec, ImplementsChannel, Channel!Spec
=============================================================================
