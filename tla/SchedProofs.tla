----------------------------- MODULE SchedProofs -----------------------------
(***************************************************************************)
(* Proofs about emulated time: for every clock rate, every rate of the     *)
(* timer, all costs, counts and lengths of slices, and any guest.          *)
(***************************************************************************)
EXTENDS Sched, TLAPS

\* While the CPU runs, the clock is behind by the cycles of this piece of the slice.
Ledger ==
    phase = "cpu" => /\ start <= cycles
                     /\ emu_ns * Khz + ns_rem = start * Mega + slept * Khz

\* The anchor is never behind the last piece; after a reset it is ahead.
Anchored == cycles_anchor >= (IF phase = "cpu" THEN start ELSE cycles)

\* While no wait is given up, flag and event belong to the call that waits.
OneWait ==
    /\ asked = NoWait => ~wait_done /\ ~events["wait"].active
    /\ asked # NoWait =>
          IF wait_done THEN ~events["wait"].active /\ since + asked <= emu_ns
                       ELSE events["wait"].active /\ events["wait"].at = since + asked

Waiting == WaitIsTimed /\ (~Abandons => OneWait)

IInv == TypeOK /\ NothingOverdue /\ Waiting /\ TimeIsCycles /\ Ledger /\ Anchored

----------------------------------------------------------------------------
(* Arithmetic: division rounds, and what is greater stays greater.         *)

LEMMA Division ==
    ASSUME NEW a \in Int, NEW b \in Nat \ {0}
    PROVE  /\ a \div b \in Int /\ a % b \in 0..(b - 1)
           /\ a = b * (a \div b) + (a % b)
  OBVIOUS

LEMMA ProductLess ==
    ASSUME NEW a \in Int, NEW c \in Int, NEW b \in Nat \ {0}, a < c
    PROVE  a * b + b <= c * b
  OBVIOUS

LEMMA ProductMonotone ==
    ASSUME NEW a \in Int, NEW c \in Int, NEW b \in Nat \ {0}, a <= c
    PROVE  a * b \in Int /\ c * b \in Int /\ a * b <= c * b
  OBVIOUS

LEMMA DivMonotone ==
    ASSUME NEW a \in Int, NEW c \in Int, NEW b \in Nat \ {0}, a <= c
    PROVE  a \div b <= c \div b
<1> DEFINE p == a \div b
           q == c \div b
<1>1. /\ p \in Int /\ q \in Int /\ a % b \in 0..(b - 1) /\ c % b \in 0..(b - 1)
      /\ a = b * p + (a % b) /\ c = b * q + (c % b)
  BY Division
<1> HIDE DEF p, q
<1>2. SUFFICES ASSUME q < p PROVE FALSE
  BY <1>1 DEF p, q
<1>3. q * b + b <= p * b
  BY <1>1, <1>2, ProductLess
<1>4. b * q + b <= b * p
  BY <1>1, <1>3
<1>. QED  BY <1>1, <1>4

LEMMA DivNat ==
    ASSUME NEW a \in Nat, NEW b \in Nat \ {0}
    PROVE  a \div b \in Nat
<1>1. 0 \div b = 0
  OBVIOUS
<1>. QED  BY <1>1, DivMonotone, Division

LEMMA CDivMonotone ==
    ASSUME NEW a \in Int, NEW c \in Int, NEW b \in Nat \ {0}, a <= c
    PROVE  CDiv(a, b) \in Int /\ CDiv(a, b) <= CDiv(c, b)
<1>1. CASE a >= 0
  <2>1. a \div b <= c \div b /\ a \div b \in Int
    BY DivMonotone, Division
  <2>2. CDiv(a, b) = a \div b /\ CDiv(c, b) = c \div b
    BY <1>1 DEF CDiv
  <2>. QED  BY <2>1, <2>2
<1>2. CASE a < 0 /\ c >= 0
  <2>1. (-a) \in Nat /\ c \in Nat
    BY <1>2
  <2>2. (-a) \div b \in Nat /\ c \div b \in Nat
    BY <2>1, DivNat
  <2>3. CDiv(a, b) = -((-a) \div b) /\ CDiv(c, b) = c \div b
    BY <1>2 DEF CDiv
  <2>. QED  BY <2>2, <2>3
<1>3. CASE a < 0 /\ c < 0
  <2>1. (-c) \in Int /\ (-a) \in Int /\ (-c) <= (-a)
    OBVIOUS
  <2>2. (-c) \div b <= (-a) \div b /\ (-a) \div b \in Int /\ (-c) \div b \in Int
    BY <2>1, DivMonotone, Division
  <2>3. CDiv(a, b) = -((-a) \div b) /\ CDiv(c, b) = -((-c) \div b)
    BY <1>3 DEF CDiv
  <2>. QED  BY <2>2, <2>3
<1>. QED  BY <1>1, <1>2, <1>3

(* The tick after the one at a time does not end before that time: the     *)
(* two conversions round down, and still nothing is lost.                  *)
LEMMA TickIsLater ==
    ASSUME NEW t \in Nat, NEW tick \in Int, tick > ns_to_tick(t)
    PROVE  tick_to_ns(tick) \in Int /\ tick_to_ns(tick) >= t
<1> DEFINE k == (t * PitHz) \div Second
           y == (tick * Second) \div PitHz
<1>1. Second \in Nat \ {0} /\ PitHz \in Nat \ {0}
  BY RatesAssumption
<1>2. t * PitHz \in Nat /\ tick * Second \in Int
  BY <1>1
<1>3. /\ k \in Nat /\ (t * PitHz) % Second \in 0..(Second - 1)
      /\ t * PitHz = Second * k + ((t * PitHz) % Second)
  <2>1. k \in Nat
    BY <1>1, <1>2, DivNat
  <2>2. t * PitHz \in Int
    BY <1>2
  <2>. QED  BY <1>1, <2>1, <2>2, Division
<1>4. ns_to_tick(t) = k
  BY <1>2 DEF ns_to_tick, CDiv
<1>5. k * Second + Second <= tick * Second
  BY <1>1, <1>3, <1>4, ProductLess
<1>6. tick * Second \in Nat
  <2>1. k * Second \in Nat
    BY <1>1, <1>3
  <2>. QED  BY <1>1, <1>2, <1>5, <2>1
<1>7. tick_to_ns(tick) = y
  BY <1>6 DEF tick_to_ns, CDiv
<1>8. /\ y \in Int /\ (tick * Second) % PitHz \in 0..(PitHz - 1)
      /\ tick * Second = PitHz * y + ((tick * Second) % PitHz)
  BY <1>1, <1>2, Division
<1> HIDE DEF k, y
<1>9. ~ y < t
  <2> SUFFICES ASSUME y < t PROVE FALSE
    OBVIOUS
  <2>1. y * PitHz + PitHz <= t * PitHz
    BY <1>1, <1>8, ProductLess
  <2>2. y * PitHz = PitHz * y /\ k * Second = Second * k
    BY <1>1, <1>3, <1>8
  <2>3. t * PitHz < k * Second + Second
    BY <1>1, <1>2, <1>3, <2>2
  <2>4. tick * Second < t * PitHz
    BY <1>1, <1>2, <1>8, <2>1, <2>2
  <2>5. y * PitHz \in Int /\ k * Second \in Int
    BY <1>1, <1>3, <1>8
  <2>. QED  BY <1>1, <1>2, <1>5, <2>3, <2>4, <2>5
<1>. QED  BY <1>7, <1>8, <1>9

LEMMA ExactDivision ==
    ASSUME NEW a \in Int, NEW b \in Nat \ {0}
    PROVE  (a * b) \div b = a /\ CDiv(a * b, b) = a
<1>1. ASSUME NEW d \in Int PROVE (d * b) \div b = d
  <2> DEFINE q == (d * b) \div b
             r == (d * b) % b
  <2>1. q \in Int /\ r \in 0..(b - 1) /\ d * b = b * q + r /\ d * b \in Int
    <3>1. d * b \in Int
      OBVIOUS
    <3>. QED  BY <3>1, Division
  <2> HIDE DEF q, r
  <2>2. ~ q < d
    <3> SUFFICES ASSUME q < d PROVE FALSE
      OBVIOUS
    <3>1. q * b + b <= d * b
      BY <2>1, ProductLess
    <3>2. q * b = b * q /\ q * b \in Int
      BY <2>1
    <3>. QED  BY <2>1, <3>1, <3>2
  <2>3. ~ d < q
    <3> SUFFICES ASSUME d < q PROVE FALSE
      OBVIOUS
    <3>1. d * b + b <= q * b
      BY <2>1, ProductLess
    <3>2. q * b = b * q /\ q * b \in Int
      BY <2>1
    <3>. QED  BY <2>1, <3>1, <3>2
  <2>4. q = d
    BY <2>1, <2>2, <2>3
  <2>. QED  BY <2>4 DEF q
<1>2. CASE a * b >= 0
  BY <1>1, <1>2 DEF CDiv
<1>3. CASE a * b < 0
  <2>1. (-a) \in Int /\ -(a * b) = (-a) * b
    OBVIOUS
  <2>2. CDiv(a * b, b) = -(((-a) * b) \div b)
    BY <1>3, <2>1 DEF CDiv
  <2>3. ((-a) * b) \div b = -a
    BY <1>1, <2>1
  <2>. QED  BY <1>1, <2>2, <2>3
<1>. QED  BY <1>2, <1>3

(* A tick that is not after the tick at a time has ended by that time.     *)
LEMMA TickHasEnded ==
    ASSUME NEW t \in Nat, NEW tick \in Int, tick <= ns_to_tick(t)
    PROVE  tick_to_ns(tick) \in Int /\ tick_to_ns(tick) <= t
<1> DEFINE k == (t * PitHz) \div Second
           a == t * PitHz
<1>1. Second \in Nat \ {0} /\ PitHz \in Nat \ {0}
  BY RatesAssumption
<1>2. a \in Nat /\ tick * Second \in Int
  BY <1>1
<1>3. k \in Nat /\ a = Second * k + (a % Second) /\ a % Second \in 0..(Second - 1)
  <2>1. k \in Nat /\ a \in Int
    BY <1>1, <1>2, DivNat
  <2>. QED  BY <1>1, <2>1, Division
<1>4. tick <= k
  BY <1>2 DEF ns_to_tick, CDiv
<1> HIDE DEF k
<1>5. tick * Second <= k * Second /\ k * Second \in Int
  BY <1>1, <1>3, <1>4, ProductMonotone
<1>6. k * Second = Second * k
  BY <1>1, <1>3
<1>7. tick * Second <= a /\ a \in Int
  BY <1>2, <1>3, <1>5, <1>6
<1>8. CDiv(tick * Second, PitHz) \in Int /\ CDiv(tick * Second, PitHz) <= CDiv(a, PitHz)
  BY <1>1, <1>2, <1>7, CDivMonotone
<1>9. CDiv(a, PitHz) = t
  BY <1>1, ExactDivision
<1>. QED  BY <1>8, <1>9 DEF tick_to_ns

(* A tick is not after the one at its own end: this many are enough.       *)
LEMMA TickOfEnd ==
    ASSUME NEW tick \in Int
    PROVE  tick <= ns_to_tick(tick_to_ns(tick) + 1)
<1> DEFINE a == tick * Second
           y == CDiv(a, PitHz)
           b == (y + 1) * PitHz
<1>1. Second \in Nat \ {0} /\ PitHz \in Nat \ {0}
  BY RatesAssumption
<1>2. a \in Int /\ y \in Int
  BY <1>1, CDivMonotone
<1>3. a <= PitHz * y + (PitHz - 1)
  <2>1. CASE a >= 0
    <3>1. a = PitHz * (a \div PitHz) + (a % PitHz) /\ a % PitHz \in 0..(PitHz - 1)
          /\ a \div PitHz \in Int
      BY <1>1, <1>2, Division
    <3>2. y = a \div PitHz
      BY <2>1 DEF CDiv
    <3>. HIDE DEF a, y
    <3>3. PitHz * y \in Int
      BY <1>1, <1>2
    <3>. QED  BY <1>1, <1>2, <3>1, <3>2, <3>3
  <2>2. CASE a < 0
    <3> DEFINE m == -a
               q == m \div PitHz
    <3>1. m \in Int
      BY <1>2
    <3>2. m = PitHz * q + (m % PitHz) /\ m % PitHz \in 0..(PitHz - 1) /\ q \in Int
      BY <1>1, <3>1, Division
    <3>3. y = -q
      <4>. HIDE DEF a
      <4>. QED  BY <1>2, <2>2 DEF CDiv
    <3>4. a = -m
      BY <1>2
    <3>. HIDE DEF a, y, m, q
    <3>5. PitHz * y = -(PitHz * q) /\ PitHz * q \in Int
      BY <1>1, <3>2, <3>3
    <3>. QED  BY <1>1, <1>2, <3>1, <3>2, <3>4, <3>5
  <2>. QED  BY <1>2, <2>1, <2>2
<1>4. ns_to_tick(tick_to_ns(tick) + 1) = CDiv(b, Second)
  BY DEF ns_to_tick, tick_to_ns
<1>5. CDiv(a, Second) = tick
  BY <1>1, ExactDivision
<1> HIDE DEF a, y
<1>6. b \in Int /\ b = PitHz * y + PitHz /\ PitHz * y \in Int
  BY <1>1, <1>2
<1>7. a <= b
  BY <1>1, <1>2, <1>3, <1>6
<1> HIDE DEF b
<1>8. CDiv(a, Second) <= CDiv(b, Second)
  BY <1>1, <1>2, <1>6, <1>7, CDivMonotone
<1>. QED  BY <1>4, <1>5, <1>8

----------------------------------------------------------------------------
(* The timer.                                                              *)

Timers == [mode : Modes, loaded : BOOLEAN, reload : Reloads \union {0}, load_tick : Int]
Times == [at : Int, active : BOOLEAN]

LEMMA PeriodType ==
    ASSUME NEW c \in Timers
    PROVE  Period(c) \in Nat \ {0} /\ c.load_tick \in Int
<1>1. Full \in Nat \ {0} /\ Reloads \subseteq Nat
  BY RatesAssumption, InputsAssumption
<1>. QED  BY <1>1 DEF Period, Timers

(* The next tick of a periodic count is after now.                         *)
LEMMA NextTickIsLater ==
    ASSUME NEW c \in Timers, NEW now \in Int
    PROVE  NextTick(c, now) \in Int /\ NextTick(c, now) > now
<1> DEFINE elapsed == now - c.load_tick
           q == elapsed \div Period(c)
<1>1. Period(c) \in Nat \ {0} /\ c.load_tick \in Int /\ elapsed \in Int
  BY PeriodType
<1>2. /\ q \in Int /\ elapsed % Period(c) \in 0..(Period(c) - 1)
      /\ elapsed = Period(c) * q + (elapsed % Period(c))
  BY <1>1, Division
<1>3. CASE elapsed < 0
  <2>1. NextTick(c, now) = c.load_tick + 0 * Period(c)
    BY <1>3 DEF NextTick
  <2>2. 0 * Period(c) = 0
    BY <1>1
  <2>. QED  BY <1>1, <1>3, <2>1, <2>2
<1>4. CASE ~ elapsed < 0
  <2>1. NextTick(c, now) = c.load_tick + (q + 1) * Period(c)
    BY <1>4 DEF NextTick
  <2> HIDE DEF q
  <2>2. (q + 1) * Period(c) = Period(c) * q + Period(c) /\ Period(c) * q \in Int
    BY <1>1, <1>2
  <2>3. (q + 1) * Period(c) \in Int /\ (q + 1) * Period(c) > elapsed
    BY <1>1, <1>2, <2>2
  <2>. QED  BY <1>1, <2>1, <2>3
<1>. QED  BY <1>3, <1>4

LEMMA ConversionTypes ==
    ASSUME NEW t \in Int
    PROVE  ns_to_tick(t) \in Int /\ tick_to_ns(t) \in Int
<1>1. Second \in Nat \ {0} /\ PitHz \in Nat \ {0}
  BY RatesAssumption
<1>2. t * PitHz \in Int /\ t * Second \in Int
  BY <1>1
<1>. QED  BY <1>1, <1>2, CDivMonotone DEF ns_to_tick, tick_to_ns

LEMMA ScheduleTypes ==
    ASSUME NEW c \in Timers, NEW t \in Int
    PROVE  schedule_irq0(c, t) \in Times
<1>1. NextTick(c, ns_to_tick(t)) \in Int /\ c.load_tick + Period(c) \in Int
  BY ConversionTypes, NextTickIsLater, PeriodType
<1>. QED  BY <1>1, ConversionTypes DEF schedule_irq0, Off, Armed, Times

(* A periodic count that is armed at a time ends then or later.            *)
LEMMA ScheduleIsLater ==
    ASSUME NEW c \in Timers, NEW t \in Nat, Periodic(c), schedule_irq0(c, t).active
    PROVE  schedule_irq0(c, t).at >= t
<1>1. NextTick(c, ns_to_tick(t)) \in Int /\ NextTick(c, ns_to_tick(t)) > ns_to_tick(t)
  BY ConversionTypes, NextTickIsLater
<1>2. tick_to_ns(NextTick(c, ns_to_tick(t))) >= t
  BY <1>1, TickIsLater
<1>. QED  BY <1>2 DEF schedule_irq0, Off, Armed

(* Where a periodic count's event may stand at time t.                     *)
OnGrid(c, e, t) ==
    /\ e.active
    /\ \E n \in Nat \ {0} :
          /\ e.at = tick_to_ns(c.load_tick + n * Period(c))
          /\ n > 1 => tick_to_ns(c.load_tick + (n - 1) * Period(c)) <= t

LEMMA PeriodsAreTicks ==
    ASSUME NEW c \in Timers, NEW n \in Int
    PROVE  n * Period(c) \in Int /\ c.load_tick + n * Period(c) \in Int
           /\ tick_to_ns(c.load_tick + n * Period(c)) \in Int
<1>1. Period(c) \in Nat \ {0} /\ c.load_tick \in Int
  BY PeriodType
<1>2. n * Period(c) \in Int
  BY <1>1
<1>3. c.load_tick + n * Period(c) \in Int
  BY <1>1, <1>2
<1>. QED  BY <1>2, <1>3, ConversionTypes

LEMMA StaysOnGrid ==
    ASSUME NEW c \in Timers, NEW e, NEW t \in Int, NEW u \in Int, t <= u, OnGrid(c, e, t)
    PROVE  OnGrid(c, e, u)
<1>1. PICK n \in Nat \ {0} :
         /\ e.at = tick_to_ns(c.load_tick + n * Period(c))
         /\ n > 1 => tick_to_ns(c.load_tick + (n - 1) * Period(c)) <= t
  BY DEF OnGrid
<1>2. n - 1 \in Int
  OBVIOUS
<1>3. tick_to_ns(c.load_tick + (n - 1) * Period(c)) \in Int
  BY <1>2, PeriodsAreTicks
<1>4. n > 1 => tick_to_ns(c.load_tick + (n - 1) * Period(c)) <= u
  BY <1>1, <1>3
<1>. QED  BY <1>1, <1>4 DEF OnGrid

(* A count that is armed at or after its load ends with a whole number of  *)
(* periods, the one before the last having passed.                         *)
LEMMA ArmedOnGrid ==
    ASSUME NEW c \in Timers, c.loaded, Periodic(c), NEW t \in Nat, c.load_tick <= ns_to_tick(t)
    PROVE  OnGrid(c, schedule_irq0(c, t), t)
<1> DEFINE now == ns_to_tick(t)
           elapsed == now - c.load_tick
           q == elapsed \div Period(c)
           n == q + 1
<1>1. Period(c) \in Nat \ {0} /\ c.load_tick \in Int /\ now \in Int
  BY PeriodType, ConversionTypes
<1> HIDE DEF now
<1>2. elapsed \in Nat /\ elapsed \in Int
  BY <1>1 DEF now
<1>3. q \in Nat
  BY <1>1, <1>2, DivNat
<1>4. elapsed = Period(c) * q + (elapsed % Period(c)) /\ elapsed % Period(c) \in 0..(Period(c) - 1)
  BY <1>1, <1>2, Division
<1>5. NextTick(c, now) = c.load_tick + n * Period(c)
  BY <1>2 DEF NextTick
<1>6. schedule_irq0(c, t) = Armed(tick_to_ns(c.load_tick + n * Period(c)))
  BY <1>5 DEF schedule_irq0, now
<1> HIDE DEF q
<1>7. n \in Nat \ {0} /\ n - 1 = q
  BY <1>3
<1>8. q * Period(c) = Period(c) * q /\ q * Period(c) \in Int
  BY <1>1, <1>3
<1>9. c.load_tick + q * Period(c) <= now /\ c.load_tick + q * Period(c) \in Int
  BY <1>1, <1>2, <1>4, <1>8
<1>10. tick_to_ns(c.load_tick + q * Period(c)) <= t
  BY <1>9, TickHasEnded DEF now
<1>. HIDE DEF n
<1>. QED  BY <1>6, <1>7, <1>10 DEF OnGrid, Armed

(* A count that is just loaded ends with its first period.                 *)
LEMMA LoadedOnGrid ==
    ASSUME NEW c \in Timers, c.loaded, Periodic(c), NEW t \in Int, c.load_tick = ns_to_tick(t),
           NEW u
    PROVE  OnGrid(c, schedule_irq0(c, t), u)
<1>1. Period(c) \in Nat \ {0} /\ c.load_tick \in Int
  BY PeriodType
<1>2. c.load_tick - c.load_tick = 0 /\ ~(0 < 0) /\ 0 \div Period(c) + 1 = 1
  BY <1>1
<1>3. NextTick(c, c.load_tick) = c.load_tick + 1 * Period(c)
  BY <1>2 DEF NextTick
<1>4. schedule_irq0(c, t) = Armed(tick_to_ns(c.load_tick + 1 * Period(c)))
  BY <1>3 DEF schedule_irq0
<1>. QED  BY <1>4 DEF OnGrid, Armed

(* No more periods than ticks lie between the load and the event.          *)
LEMMA GridIsBounded ==
    ASSUME NEW c \in Timers, NEW e, NEW t, OnGrid(c, e, t)
    PROVE  \E n \in 1..(ns_to_tick(e.at + 1) - c.load_tick) :
              /\ e.at = tick_to_ns(c.load_tick + n * Period(c))
              /\ n > 1 => tick_to_ns(c.load_tick + (n - 1) * Period(c)) <= t
<1>1. PICK n \in Nat \ {0} :
         /\ e.at = tick_to_ns(c.load_tick + n * Period(c))
         /\ n > 1 => tick_to_ns(c.load_tick + (n - 1) * Period(c)) <= t
  BY DEF OnGrid
<1> DEFINE tick == c.load_tick + n * Period(c)
           k == ns_to_tick(e.at + 1)
           p == Period(c)
<1>2. p \in Nat \ {0} /\ c.load_tick \in Int
  BY PeriodType
<1>3. n <= n * p /\ n * p \in Int
  BY <1>2
<1>4. tick \in Int
  BY <1>2, <1>3
<1> HIDE DEF tick
<1>5. e.at = tick_to_ns(tick)
  BY <1>1 DEF tick
<1>6. e.at \in Int /\ tick <= k
  BY <1>4, <1>5, TickOfEnd, ConversionTypes
<1>7. e.at + 1 \in Int
  BY <1>6
<1>8. k \in Int
  BY <1>7, ConversionTypes
<1> HIDE DEF k, p
<1>9. tick = c.load_tick + n * p
  BY DEF tick, p
<1>10. n <= k - c.load_tick
  BY <1>2, <1>3, <1>4, <1>6, <1>8, <1>9
<1>11. n \in 1..(k - c.load_tick)
  BY <1>2, <1>8, <1>10
<1>. QED  BY <1>1, <1>11 DEF k

----------------------------------------------------------------------------
(* Events.                                                                 *)

LEMMA Rates ==
    /\ Mega \in Nat \ {0} /\ Khz \in Nat \ {0} /\ Second \in Nat \ {0} /\ PitHz \in Nat \ {0}
    /\ IntCost \in Nat \ {0} /\ IoCost \in Nat /\ KbdDelay \in Nat
    /\ MaxTicks \in Nat /\ MaxResets \in Nat /\ Waits \subseteq Nat
  BY RatesAssumption, CostsAssumption, InputsAssumption, BoundsAssumption

LEMMA ClockTypes ==
    ASSUME NEW n \in Int, TypeOK
    PROVE  NsOfCycles(n) \in Int /\ CyclesOfNs(n) \in Int /\ NowAt(n) \in Int
<1>1. emu_ns \in Int /\ cycles_anchor \in Int
  BY DEF TypeOK
<1>2. \A k \in Int : k * Mega \in Int /\ k * Khz \in Int
  BY Rates
<1>3. \A k \in Int : CDiv(k * Mega, Khz) \in Int /\ CDiv(k * Khz, Mega) \in Int
  BY <1>2, Rates, CDivMonotone
<1>. QED  BY <1>1, <1>3 DEF NsOfCycles, CyclesOfNs, NowAt

(* The next event is not in the past.                                      *)
LEMMA UpcomingIsAhead ==
    ASSUME TypeOK, NothingOverdue, phase # "cpu", emu_ns < end
    PROVE  Upcoming \in Nat /\ emu_ns <= Upcoming
<1> DEFINE times == {end} \union {events[d].at : d \in {x \in Devices : events[x].active}}
           a == IF events["pit0"].active THEN events["pit0"].at ELSE end
           b == IF events["kbd"].active THEN events["kbd"].at ELSE end
           c == IF events["wait"].active THEN events["wait"].at ELSE end
<1>1. /\ end \in Nat /\ emu_ns \in Nat
      /\ \A d \in Devices : events[d].at \in Int
  BY DEF TypeOK
<1>2. times = {end, a, b, c}
  BY DEF Devices
<1>3. a \in Int /\ b \in Int /\ c \in Int /\ emu_ns <= a /\ emu_ns <= b /\ emu_ns <= c
  BY <1>1 DEF Devices, NothingOverdue
<1> HIDE DEF a, b, c
<1>4. \E t \in {end, a, b, c} : \A u \in {end, a, b, c} : t <= u
  <2>1. PICK x \in {end, a} : x <= end /\ x <= a
    BY <1>1, <1>3
  <2>2. PICK y \in {b, c} : y <= b /\ y <= c
    BY <1>1, <1>3
  <2>3. CASE x <= y
    BY <1>1, <1>3, <2>1, <2>2, <2>3
  <2>4. CASE y <= x
    BY <1>1, <1>3, <2>1, <2>2, <2>4
  <2>. QED  BY <1>1, <1>3, <2>1, <2>2, <2>3, <2>4
<1>5. Upcoming \in {end, a, b, c}
  BY <1>2, <1>4 DEF Upcoming
<1>. QED  BY <1>1, <1>3, <1>5

(* After the due events have fired none is due: those of the keyboard and  *)
(* the wait are off and the timer's is at a later tick.                    *)
LEMMA Fired ==
    ASSUME TypeOK, NEW t \in Nat, fire_due(t)
    PROVE  /\ events' \in [Devices -> Times] /\ pending' \in BOOLEAN /\ ticks' \in 0..MaxTicks
           /\ \A d \in Devices : events'[d].active => events'[d].at >= t
           /\ events'["wait"] = (IF Due("wait", t) THEN Off ELSE events["wait"])
           /\ wait_done' \in BOOLEAN
           /\ Due("wait", t) => wait_done'
           /\ ~Due("wait", t) => wait_done' = wait_done
<1> DEFINE p == IF ~Due("pit0", t) THEN events["pit0"]
                ELSE IF Periodic(ch0) THEN schedule_irq0(ch0, t) ELSE Off
           k == IF Due("kbd", t) THEN Off ELSE events["kbd"]
           w == IF Due("wait", t) THEN Off ELSE events["wait"]
<1>1. /\ \A d \in Devices : events[d] \in Times
      /\ events["pit0"] \in Times /\ events["kbd"] \in Times /\ events["wait"] \in Times
      /\ Off \in Times /\ wait_done \in BOOLEAN
      /\ ch0 \in Timers /\ pending \in BOOLEAN /\ ticks \in 0..MaxTicks
  BY DEF TypeOK, Devices, Times, Timers, Off
<1>2. schedule_irq0(ch0, t) \in Times
  BY <1>1, ScheduleTypes
<1>3. p \in Times /\ k \in Times /\ w \in Times
  BY <1>1, <1>2
<1>4. \A d \in Devices : ~Due(d, t) /\ events[d].active => events[d].at >= t
  BY DEF Due, TypeOK
<1>5. p.active => p.at >= t
  <2>1. CASE ~Due("pit0", t)
    BY <1>4, <2>1 DEF Devices
  <2>2. CASE Due("pit0", t) /\ Periodic(ch0)
    BY <1>1, <2>2, ScheduleIsLater
  <2>3. CASE Due("pit0", t) /\ ~Periodic(ch0)
    BY <2>3 DEF Off
  <2>. QED  BY <2>1, <2>2, <2>3
<1>6. (k.active => k.at >= t) /\ (w.active => w.at >= t)
  BY <1>4 DEF Off, Devices
<1>7. /\ wait_done' \in BOOLEAN
      /\ Due("wait", t) => wait_done'
      /\ ~Due("wait", t) => wait_done' = wait_done
  BY <1>1 DEF fire_due, Due
<1> HIDE DEF p, k, w
<1>8. events' = [pit0 |-> p, kbd |-> k, wait |-> w]
  BY DEF fire_due, p, k, w
<1>9. /\ events' \in [Devices -> Times]
      /\ events'["pit0"] = p /\ events'["kbd"] = k /\ events'["wait"] = w
  BY <1>3, <1>8 DEF Devices
<1>10. pending' \in BOOLEAN
  BY <1>1 DEF fire_due, Due
<1>11. ticks' \in 0..MaxTicks
  BY <1>1, Rates DEF fire_due, Counted
<1>12. events'["wait"] = (IF Due("wait", t) THEN Off ELSE events["wait"])
  BY <1>9 DEF w
<1>. QED  BY <1>5, <1>6, <1>7, <1>9, <1>10, <1>11, <1>12 DEF Devices

(* Arming the keyboard's event.                                            *)
LEMMA ByteQueued ==
    ASSUME TypeOK, QueueByte
    PROVE  /\ events' \in [Devices -> Times]
           /\ \A d \in Devices : events'[d].active =>
                 events'[d].at >= emu_ns \/ (events[d].active /\ events'[d] = events[d])
           /\ events'["wait"] = events["wait"]
<1>1. events \in [Devices -> Times] /\ emu_ns \in Nat /\ emu_ns + KbdDelay \in Nat
  BY Rates DEF TypeOK, Times
<1>2. emu_ns + KbdDelay >= emu_ns
  BY <1>1, Rates
<1>. QED  BY <1>1, <1>2 DEF QueueByte, Armed, Times, Devices

----------------------------------------------------------------------------
(* The wait.                                                               *)

LEMMA WaitTypes ==
    ASSUME TypeOK
    PROVE  /\ asked \in Int /\ since \in Nat /\ emu_ns \in Nat /\ wait_done \in BOOLEAN
           /\ events["wait"] \in Times /\ (asked # NoWait => asked \in Waits /\ asked \in Nat)
           /\ \A ns \in Waits : ns \in Nat /\ ns # NoWait
  BY Rates DEF TypeOK, NoWait, Devices, Times

LEMMA WaitKept ==
    ASSUME IInv, events'["wait"] = events["wait"], UNCHANGED bios, emu_ns' = emu_ns
    PROVE  Waiting'
  BY DEF IInv, Waiting, WaitIsTimed, OneWait, bios

(* Time goes on to t, and what is due fires.                               *)
LEMMA WaitFired ==
    ASSUME IInv, NEW t \in Nat, emu_ns <= t, emu_ns' = t, fire_due(t),
           UNCHANGED <<asked, since>>
    PROVE  Waiting' /\ wait_done' \in BOOLEAN
<1>0. TypeOK /\ WaitIsTimed /\ (~Abandons => OneWait)
  BY DEF IInv, Waiting
<1>1. /\ events'["wait"] = (IF Due("wait", t) THEN Off ELSE events["wait"])
      /\ wait_done' \in BOOLEAN
      /\ Due("wait", t) => wait_done'
      /\ ~Due("wait", t) => wait_done' = wait_done
  BY <1>0, Fired
<1>2. asked \in Int /\ since \in Nat /\ emu_ns \in Nat
  BY <1>0, WaitTypes
<1>3. CASE Due("wait", t)
  <2>1. events["wait"].active /\ events["wait"].at <= t /\ ~events'["wait"].active /\ wait_done'
    BY <1>1, <1>3 DEF Due, Off
  <2>. QED  BY <1>0, <1>2, <2>1 DEF Waiting, WaitIsTimed, OneWait
<1>4. CASE ~Due("wait", t)
  <2>1. /\ events'["wait"] = events["wait"] /\ wait_done' = wait_done
        /\ asked' = asked /\ since' = since
    BY <1>0, <1>1, <1>4, WaitTypes
  <2>2. WaitIsTimed'
    BY <1>0, <2>1 DEF WaitIsTimed
  <2>3. OneWait => OneWait'
    <3> SUFFICES ASSUME OneWait PROVE OneWait'
      OBVIOUS
    <3>1. CASE wait_done
      <4>1. asked # NoWait => ~events["wait"].active /\ since + asked <= emu_ns
        BY <3>1 DEF OneWait
      <4>2. asked # NoWait => since + asked <= emu_ns'
        BY <1>2, <4>1
      <4>. QED  BY <2>1, <3>1, <4>1, <4>2 DEF OneWait
    <3>2. CASE ~wait_done
      <4>1. ~wait_done'
        BY <2>1, <3>2
      <4>2. asked # NoWait => events["wait"].active /\ events["wait"].at = since + asked
        BY <3>2 DEF OneWait
      <4>3. asked = NoWait => ~events["wait"].active
        BY DEF OneWait
      <4>4. asked' # NoWait => events'["wait"].active /\ events'["wait"].at = since' + asked'
        BY <2>1, <4>2
      <4>5. asked' = NoWait => ~events'["wait"].active
        BY <2>1, <4>3
      <4>. QED  BY <4>1, <4>4, <4>5 DEF OneWait
    <3>. QED  BY <3>1, <3>2
  <2>. QED  BY <1>0, <1>1, <2>2, <2>3 DEF Waiting
<1>. QED  BY <1>1, <1>3, <1>4

----------------------------------------------------------------------------
(* The inductive invariant, action by action.                              *)

LEMMA AtFirst ==
    /\ [d \in Devices |-> Off] \in [Devices -> [at : Int, active : BOOLEAN]]
    /\ PitInit \in [mode : Modes, loaded : BOOLEAN, reload : Reloads \union {0}, load_tick : Int]
    /\ 0 \in 0..(Khz - 1) /\ 0 \in 0..MaxTicks /\ 0 \in 0..MaxResets /\ 0 \in Nat
<1>1. Off \in [at : Int, active : BOOLEAN]
  BY DEF Off
<1>2. PitInit \in [mode : Modes, loaded : BOOLEAN, reload : Reloads \union {0}, load_tick : Int]
  BY DEF PitInit, Modes
<1>. QED  BY <1>1, <1>2, Rates

LEMMA InitIInv == Init => IInv
<1> SUFFICES ASSUME Init PROVE IInv
  OBVIOUS
<1>1. TypeOK
  BY AtFirst DEF Init, TypeOK
<1>2. TimeIsCycles /\ Ledger /\ Anchored
  BY Rates DEF Init, TimeIsCycles, Ledger, Anchored
<1>3. NothingOverdue
  BY DEF Init, NothingOverdue, Off
<1>4. Waiting
  BY DEF Init, Waiting, WaitIsTimed, OneWait, Off, Devices
<1>. QED  BY <1>1, <1>2, <1>3, <1>4 DEF IInv

(* A reset starts time anew.                                               *)
LEMMA ResetIInv ==
    ASSUME IInv, machine_reset, phase' = "host", UNCHANGED <<end, start, target>>
    PROVE  IInv'
<1>1. TypeOK'
  <2>1. resets' \in 0..MaxResets
    BY Rates DEF IInv, machine_reset, TypeOK
  <2>. QED  BY <2>1, AtFirst DEF IInv, machine_reset, bios_post_reset, Nobody, TypeOK
<1>2. TimeIsCycles' /\ Ledger' /\ Anchored'
  BY Rates DEF IInv, TypeOK, machine_reset, TimeIsCycles, Ledger, Anchored
<1>3. NothingOverdue'
  BY DEF machine_reset, NothingOverdue, Off
<1>4. Waiting'
  BY DEF machine_reset, bios_post_reset, Nobody, Waiting, WaitIsTimed, OneWait, Off, Devices
<1>. QED  BY <1>1, <1>2, <1>3, <1>4 DEF IInv

NowGoesOn == emu_now_ns' >= emu_now_ns

(* Cycles that pass in cpu_run, whatever else the instruction does.        *)
LEMMA InCpu ==
    ASSUME IInv, phase = "cpu", UNCHANGED <<clock, run, slept, resets>>,
           cycles' \in Nat, cycles' >= cycles,
           events' \in [Devices -> Times], ch0' \in Timers, ticks' \in 0..MaxTicks,
           iflag' \in BOOLEAN, inhibit' \in BOOLEAN, halted' \in BOOLEAN,
           pending' \in BOOLEAN, reset_pending' \in BOOLEAN,
           wait_done' \in BOOLEAN, asked' \in Waits \union {NoWait}, since' \in Nat, Waiting'
    PROVE  IInv' /\ NowGoesOn
<1>0. TypeOK /\ Ledger /\ Anchored
  BY DEF IInv
<1>1. TypeOK'
  BY <1>0 DEF TypeOK, clock, run, Times, Timers
<1>2. start' = start /\ start \in Nat /\ cycles \in Nat /\ cycles_anchor \in Nat
      /\ cycles_anchor' = cycles_anchor /\ phase' = "cpu" /\ emu_ns' = emu_ns /\ emu_ns \in Nat
  BY <1>0 DEF TypeOK, clock, run
<1>3. Ledger'
  BY <1>0, <1>2 DEF Ledger, clock
<1>4. Anchored' /\ NothingOverdue' /\ TimeIsCycles'
  BY <1>0, <1>2 DEF Anchored, NothingOverdue, TimeIsCycles
<1>5. NowGoesOn
  <2> DEFINE a == (cycles - cycles_anchor) * Mega
             b == (cycles' - cycles_anchor) * Mega
  <2>1. a \in Int /\ b \in Int /\ a <= b
    <3> DEFINE c == cycles'
               d == cycles
    <3>1. c \in Int /\ d \in Int /\ d <= c /\ cycles_anchor \in Int
      BY <1>2
    <3> HIDE DEF c, d
    <3>2. /\ d - cycles_anchor \in Int /\ c - cycles_anchor \in Int
          /\ d - cycles_anchor <= c - cycles_anchor
      BY <3>1
    <3>. QED  BY <3>2, Rates, ProductMonotone DEF c, d
  <2>2. CDiv(a, Khz) \in Int /\ CDiv(b, Khz) \in Int /\ CDiv(a, Khz) <= CDiv(b, Khz)
    BY <2>1, Rates, CDivMonotone
  <2>3. emu_now_ns = emu_ns + CDiv(a, Khz) /\ emu_now_ns' = emu_ns + CDiv(b, Khz)
    BY <1>2 DEF emu_now_ns, NowAt, NsOfCycles
  <2> HIDE DEF a, b
  <2>. QED  BY <1>2, <2>2, <2>3 DEF NowGoesOn
<1>. QED  BY <1>1, <1>3, <1>4, <1>5 DEF IInv

(* Between the pieces of a slice the anchor is not behind the cycles, so   *)
(* the fine-grained time is not ahead of emu_ns.                           *)
LEMMA NowBetween ==
    ASSUME IInv, phase # "cpu"
    PROVE  emu_now_ns \in Int /\ emu_now_ns <= emu_ns
<1> DEFINE a == (cycles - cycles_anchor) * Mega
<1>1. cycles \in Nat /\ cycles_anchor \in Nat /\ cycles <= cycles_anchor /\ emu_ns \in Nat
  BY DEF IInv, TypeOK, Anchored
<1>2. a \in Int /\ a <= 0
  BY <1>1, Rates
<1>3. 0 \div Khz = 0
  BY Rates
<1>4. CDiv(a, Khz) \in Int /\ CDiv(a, Khz) <= CDiv(0, Khz) /\ CDiv(0, Khz) = 0
  BY <1>2, <1>3, Rates, CDivMonotone DEF CDiv
<1>5. emu_now_ns = emu_ns + CDiv(a, Khz)
  BY DEF emu_now_ns, NowAt, NsOfCycles
<1> HIDE DEF a
<1>. QED  BY <1>1, <1>4, <1>5

LEMMA NowSettled ==
    ASSUME cycles' \in Nat, cycles_anchor' = cycles', emu_ns' \in Nat
    PROVE  emu_now_ns' = emu_ns'
<1>1. 0 \div Khz = 0
  BY Rates
<1>2. 0 * Mega = 0
  BY Rates
<1> DEFINE c == cycles'
           d == cycles_anchor'
<1>3. c \in Int /\ d = c
  OBVIOUS
<1> HIDE DEF c, d
<1>4. c - d = 0
  BY <1>3
<1>5. cycles' - cycles_anchor' = 0
  BY <1>4 DEF c, d
<1>6. NsOfCycles(cycles' - cycles_anchor') = 0
  BY <1>1, <1>2, <1>5 DEF NsOfCycles, CDiv
<1>. QED  BY <1>6 DEF emu_now_ns, NowAt

LEMMA SleepStep ==
    ASSUME IInv, Sleep
    PROVE  IInv' /\ NowGoesOn
<1>0. /\ TypeOK /\ NothingOverdue /\ TimeIsCycles /\ phase = "loop" /\ emu_ns < end
  BY DEF IInv, Sleep, MoreToRun
<1>1. /\ emu_ns' = Upcoming /\ Upcoming \in Nat /\ emu_ns <= Upcoming /\ emu_ns \in Nat
      /\ slept' = slept + (Upcoming - emu_ns) /\ slept \in Nat
      /\ cycles_anchor' = cycles /\ cycles' = cycles /\ cycles \in Nat
      /\ ns_rem' = ns_rem /\ ns_rem \in Int /\ phase' = "loop" /\ fire_due(Upcoming)
  BY <1>0, UpcomingIsAhead DEF Sleep, TypeOK, run
<1>2. slept' \in Nat
  BY <1>1
<1>3. TypeOK'
  BY <1>0, <1>1, <1>2, Fired DEF Sleep, TypeOK, run, cpu, Times
<1>4. NothingOverdue'
  BY <1>0, <1>1, Fired DEF NothingOverdue
<1>5. TimeIsCycles'
  <2>1. slept' * Khz = slept * Khz + Upcoming * Khz - emu_ns * Khz
    BY <1>1, Rates
  <2>2. /\ slept * Khz \in Int /\ Upcoming * Khz \in Int /\ emu_ns * Khz \in Int
        /\ cycles * Mega \in Int
    BY <1>1, Rates
  <2>3. emu_ns * Khz + ns_rem = cycles * Mega + slept * Khz
    BY <1>0 DEF TimeIsCycles
  <2>. QED  BY <1>1, <2>1, <2>2, <2>3 DEF TimeIsCycles
<1>6. Ledger' /\ Anchored'
  BY <1>1 DEF Ledger, Anchored
<1>7. NowGoesOn
  <2>1. emu_now_ns \in Int /\ emu_now_ns <= emu_ns
    BY <1>0, NowBetween
  <2>2. emu_now_ns' = emu_ns'
    BY <1>1, NowSettled
  <2>. QED  BY <1>1, <2>1, <2>2 DEF NowGoesOn
<1>8. Waiting'
  BY <1>1, WaitFired DEF Sleep
<1>. QED  BY <1>3, <1>4, <1>5, <1>6, <1>7, <1>8 DEF IInv

(* The cycles of a piece become time, to the fraction.                     *)
LEMMA EndCpuStep ==
    ASSUME IInv, EndCpu
    PROVE  IInv' /\ NowGoesOn
<1> DEFINE spent == (cycles - start) * Mega
           q == Total \div Khz
<1>0. TypeOK /\ Ledger /\ Anchored /\ phase = "cpu"
  BY DEF IInv, EndCpu
<1>1. /\ emu_ns \in Nat /\ ns_rem \in 0..(Khz - 1) /\ cycles \in Nat /\ start \in Nat
      /\ start <= cycles /\ cycles_anchor \in Nat /\ cycles_anchor >= start /\ slept \in Nat
      /\ emu_ns * Khz + ns_rem = start * Mega + slept * Khz
  BY <1>0 DEF TypeOK, Ledger, Anchored
<1>2. spent \in Nat /\ spent = cycles * Mega - start * Mega /\ Total = spent + ns_rem
      /\ Total \in Nat
  BY <1>1, Rates DEF Total
<1>3. /\ q \in Nat /\ Total % Khz \in 0..(Khz - 1) /\ Total = Khz * q + (Total % Khz)
  <2>1. q \in Nat
    BY <1>2, Rates, DivNat
  <2>2. Total \in Int
    BY <1>2
  <2>. QED  BY <2>1, <2>2, Rates, Division
<1>4. /\ emu_ns' = emu_ns + q /\ ns_rem' = Total % Khz /\ cycles_anchor' = cycles
      /\ cycles' = cycles /\ slept' = slept /\ phase' = "loop" /\ fire_due(emu_ns')
  BY DEF EndCpu, SettleClock
<1> HIDE DEF q, spent
<1>5. emu_ns' \in Nat
  BY <1>1, <1>3, <1>4
<1>6. TypeOK'
  BY <1>0, <1>1, <1>3, <1>4, <1>5, Fired DEF EndCpu, TypeOK, cpu, Times
<1>7. NothingOverdue'
  BY <1>0, <1>4, <1>5, Fired DEF NothingOverdue
<1>8. TimeIsCycles'
  <2>1. emu_ns' * Khz = emu_ns * Khz + Khz * q
    BY <1>1, <1>3, <1>4, Rates
  <2>2. /\ emu_ns * Khz \in Int /\ Khz * q \in Int /\ start * Mega \in Int
        /\ cycles * Mega \in Int /\ slept * Khz \in Int
    BY <1>1, <1>3, Rates
  <2>3. spent + ns_rem = Khz * q + ns_rem' /\ ns_rem' \in Int /\ ns_rem \in Int
    BY <1>1, <1>2, <1>3, <1>4
  <2>4. emu_ns' * Khz + ns_rem' = cycles * Mega + slept * Khz
    BY <1>1, <1>2, <2>1, <2>2, <2>3
  <2>. QED  BY <1>4, <2>4 DEF TimeIsCycles
<1>9. Ledger' /\ Anchored'
  BY <1>1, <1>4 DEF Ledger, Anchored
<1>10. NowGoesOn
  <2> DEFINE a == (cycles - cycles_anchor) * Mega
  <2>1. a \in Int /\ a <= spent
    BY <1>1, Rates DEF spent
  <2>2. a <= Total /\ Total \in Int
    BY <1>1, <1>2, <2>1
  <2>3. CDiv(Total, Khz) = q
    BY <1>2 DEF CDiv, q
  <2>4. CDiv(a, Khz) \in Int /\ CDiv(a, Khz) <= q
    BY <2>1, <2>2, <2>3, Rates, CDivMonotone
  <2>5. emu_now_ns = emu_ns + CDiv(a, Khz)
    BY DEF emu_now_ns, NowAt, NsOfCycles
  <2>6. emu_now_ns' = emu_ns'
    BY <1>1, <1>4, <1>5, NowSettled
  <2> HIDE DEF a
  <2>. QED  BY <1>1, <1>3, <1>4, <2>4, <2>5, <2>6 DEF NowGoesOn
<1>11. Waiting'
  <2>1. emu_ns <= emu_ns'
    BY <1>1, <1>3, <1>4
  <2>. QED  BY <1>4, <1>5, <2>1, WaitFired DEF EndCpu
<1>. QED  BY <1>6, <1>7, <1>8, <1>9, <1>10, <1>11 DEF IInv

(* The CPU starts a piece: the anchor is where its cycles begin, or ahead. *)
LEMMA StartCpuStep ==
    ASSUME IInv, StartCpu
    PROVE  IInv' /\ NowGoesOn
<1>0. TypeOK /\ NothingOverdue /\ TimeIsCycles /\ Anchored /\ phase = "loop" /\ emu_ns < end
  BY DEF IInv, StartCpu, MoreToRun
<1>1. Upcoming \in Nat /\ emu_ns \in Nat /\ cycles \in Nat /\ Upcoming - emu_ns \in Int
  BY <1>0, UpcomingIsAhead DEF TypeOK
<1>2. CyclesOfNs(Upcoming - emu_ns) \in Int
  BY <1>0, <1>1, ClockTypes
<1>3. Budget(Upcoming) \in Nat
  BY <1>2 DEF Budget
<1>4. /\ cycles' = cycles /\ start' = cycles /\ target' = cycles + Budget(Upcoming)
      /\ halted' = FALSE /\ phase' = "cpu" /\ slept' = slept
      /\ emu_ns' = emu_ns /\ ns_rem' = ns_rem /\ cycles_anchor' = cycles_anchor
  BY DEF StartCpu, clock, ghosts
<1>5. target' \in Nat
  BY <1>1, <1>3, <1>4
<1>6. TypeOK'
  BY <1>0, <1>4, <1>5 DEF StartCpu, TypeOK, bios, ghosts
<1>7. NothingOverdue' /\ TimeIsCycles'
  BY <1>4 DEF NothingOverdue, TimeIsCycles
<1>8. Ledger' /\ Anchored'
  BY <1>0, <1>1, <1>4 DEF Ledger, Anchored, TimeIsCycles
<1>9. NowGoesOn
  <2>1. emu_now_ns' = emu_now_ns
    BY <1>4 DEF emu_now_ns, NowAt
  <2>. QED  BY <1>0, <2>1, NowBetween DEF NowGoesOn
<1>10. Waiting'
  BY <1>4, WaitKept DEF StartCpu
<1>. QED  BY <1>6, <1>7, <1>8, <1>9, <1>10 DEF IInv

(* A step that leaves the clock and the cycles alone, outside cpu_run.     *)
LEMMA HostStep ==
    ASSUME IInv, RunUs \/ HostKey
    PROVE  IInv' /\ NowGoesOn
<1>0. TypeOK /\ NothingOverdue /\ TimeIsCycles /\ Anchored /\ phase = "host"
  BY DEF IInv, RunUs, HostKey
<1>1. /\ cycles' = cycles /\ slept' = slept /\ phase' # "cpu"
      /\ emu_ns' = emu_ns /\ ns_rem' = ns_rem /\ cycles_anchor' = cycles_anchor
  BY <1>0 DEF RunUs, HostKey, clock, run, ghosts
<1>2. TimeIsCycles' /\ Ledger' /\ Anchored'
  BY <1>0, <1>1 DEF TimeIsCycles, Ledger, Anchored
<1>3. NowGoesOn
  <2>1. emu_now_ns' = emu_now_ns
    BY <1>1 DEF emu_now_ns, NowAt
  <2>. QED  BY <1>0, <2>1, NowBetween DEF NowGoesOn
<1>4. CASE RunUs
  <2>1. \A ns \in Slices : emu_ns + ns \in Nat
    BY <1>0, InputsAssumption DEF TypeOK
  <2>2. end' \in Nat
    BY <1>4, <2>1 DEF RunUs
  <2>3. TypeOK'
    BY <1>0, <1>4, <2>2 DEF RunUs, TypeOK, clock, cpu, bios, ghosts
  <2>4. NothingOverdue'
    BY <1>0, <1>1, <1>4 DEF RunUs, NothingOverdue
  <2>5. Waiting'
    BY <1>1, <1>4, WaitKept DEF RunUs
  <2>. QED  BY <1>2, <1>3, <2>3, <2>4, <2>5 DEF IInv
<1>5. CASE HostKey
  <2>1. QueueByte
    BY <1>5 DEF HostKey
  <2>2. TypeOK'
    BY <1>0, <1>5, <2>1, ByteQueued DEF HostKey, TypeOK, clock, cpu, bios, run, ghosts, Times
  <2>3. NothingOverdue'
    BY <1>0, <1>1, <2>1, ByteQueued DEF NothingOverdue
  <2>4. Waiting'
    BY <1>0, <1>1, <1>5, <2>1, ByteQueued, WaitKept DEF HostKey
  <2>. QED  BY <1>2, <1>3, <2>2, <2>3, <2>4 DEF IInv
<1>. QED  BY <1>4, <1>5

(* The end of a slice, and the resets.                                     *)
LEMMA EndSliceStep ==
    ASSUME IInv, EndSlice \/ HostReset
    PROVE  IInv' /\ (resets' = resets => NowGoesOn)
<1>0. TypeOK /\ NothingOverdue /\ TimeIsCycles /\ Anchored /\ phase # "cpu" /\ resets \in Nat
  BY DEF IInv, EndSlice, HostReset, TypeOK
<1>1. phase' = "host" /\ UNCHANGED <<end, start, target>>
  BY DEF EndSlice, HostReset, run
<1>2. CASE machine_reset
  <2>1. resets' = resets + 1
    BY <1>2 DEF machine_reset
  <2>2. resets' # resets
    BY <1>0, <2>1
  <2>. QED  BY <1>1, <1>2, <2>2, ResetIInv
<1>3. CASE UNCHANGED <<clock, cycles, events, ch0, cpu, pending, bios, reset_pending, ghosts>>
  <2>1. /\ cycles' = cycles /\ slept' = slept /\ events' = events
        /\ emu_ns' = emu_ns /\ ns_rem' = ns_rem /\ cycles_anchor' = cycles_anchor
    BY <1>3 DEF clock, ghosts
  <2>2. TypeOK'
    BY <1>0, <1>1, <1>3 DEF TypeOK, clock, cpu, bios, ghosts
  <2>3. NothingOverdue' /\ TimeIsCycles' /\ Ledger' /\ Anchored'
    BY <1>0, <1>1, <2>1 DEF NothingOverdue, TimeIsCycles, Ledger, Anchored
  <2>4. emu_now_ns' = emu_now_ns
    BY <2>1 DEF emu_now_ns, NowAt
  <2>5. Waiting'
    BY <1>3, <2>1, WaitKept
  <2>. QED  BY <1>0, <2>2, <2>3, <2>4, <2>5, NowBetween DEF IInv, NowGoesOn
<1>. QED  BY <1>2, <1>3 DEF EndSlice, HostReset

(* The instructions and the interrupt: cycles pass, and an event is armed. *)
LEMMA CpuStep ==
    ASSUME IInv,
           \/ AcceptInterrupt \/ Plain
           \/ WriteControl \/ WriteCount \/ WriteKbd \/ RequestReset
    PROVE  IInv' /\ NowGoesOn
<1>0. /\ TypeOK /\ phase = "cpu"
      /\ cycles \in Nat /\ cycles + IntCost \in Nat /\ cycles + IntCost >= cycles
      /\ cycles + 1 >= cycles /\ cycles + 1 \in Nat
      /\ cycles + IoCost \in Nat /\ cycles + (IoCost + 1) \in Nat
      /\ cycles + (IoCost + 1) >= cycles
  <2>1. TypeOK /\ phase = "cpu"
    BY DEF IInv, AcceptInterrupt, Plain, WriteControl, WriteCount, WriteKbd, RequestReset,
           Out, Executes, Running
  <2>2. cycles \in Nat
    BY <2>1 DEF TypeOK
  <2>. QED  BY <2>1, <2>2, Rates
<1>1. /\ events \in [Devices -> Times] /\ ch0 \in Timers /\ ticks \in 0..MaxTicks
      /\ iflag \in BOOLEAN /\ inhibit \in BOOLEAN /\ halted \in BOOLEAN
      /\ pending \in BOOLEAN /\ reset_pending \in BOOLEAN
      /\ wait_done \in BOOLEAN /\ asked \in Waits \union {NoWait} /\ since \in Nat
  BY <1>0 DEF TypeOK, Timers, Times
<1>. DEFINE OnlyTicks ==
               UNCHANGED bios /\ emu_ns' = emu_ns /\ events'["wait"] = events["wait"]
<1>10. OnlyTicks => /\ Waiting' /\ wait_done' \in BOOLEAN
                   /\ asked' \in Waits \union {NoWait} /\ since' \in Nat
  BY <1>1, WaitKept DEF bios
<1>2. CASE AcceptInterrupt
  <2>1. OnlyTicks
    BY <1>2 DEF AcceptInterrupt, clock
  <2>. QED  BY <1>0, <1>1, <1>2, <1>10, <2>1, InCpu DEF AcceptInterrupt, ghosts
<1>3. CASE Plain
  <2>1. OnlyTicks
    BY <1>3 DEF Plain, clock
  <2>. QED  BY <1>0, <1>1, <1>3, <1>10, <2>1, InCpu DEF Plain, Executes, ghosts
<1>4. CASE WriteControl
  <2>1. ch0' \in Timers
    BY <1>1, <1>4 DEF WriteControl, Timers
  <2>2. events' \in [Devices -> Times]
    <3>1. events' = [events EXCEPT !["pit0"] = Off]
      BY <1>4 DEF WriteControl
    <3>2. Off \in Times
      BY DEF Off, Times
    <3>. QED  BY <1>1, <3>1, <3>2
  <2>3. OnlyTicks
    BY <1>1, <1>4 DEF WriteControl, Out, clock, Devices
  <2>. QED  BY <1>0, <1>1, <1>4, <1>10, <2>1, <2>2, <2>3, InCpu DEF WriteControl, Out, Executes
<1>5. CASE WriteCount
  <2> DEFINE now == NowAt(cycles + IoCost)
  <2>1. now \in Int
    BY <1>0, ClockTypes
  <2> HIDE DEF now
  <2>2. ns_to_tick(now) \in Int
    BY <2>1, ConversionTypes
  <2>3. /\ \E v \in Reloads : ch0' = [ch0 EXCEPT !.reload = v, !.loaded = TRUE,
                                                !.load_tick = ns_to_tick(now)]
        /\ events' = [events EXCEPT !["pit0"] = schedule_irq0(ch0', now)]
    BY <1>5 DEF WriteCount, now
  <2>4. ch0' \in Timers
    BY <1>1, <2>2, <2>3 DEF Timers
  <2>5. schedule_irq0(ch0', now) \in Times
    BY <2>1, <2>4, ScheduleTypes
  <2>6. events' \in [Devices -> Times]
    BY <1>1, <2>3, <2>5 DEF Devices
  <2>7. ticks' \in 0..MaxTicks
    <3>1. ticks' = 0
      BY <1>5 DEF WriteCount
    <3>. QED  BY <3>1, Rates
  <2>8. OnlyTicks
    BY <1>1, <1>5, <2>3 DEF WriteCount, Out, clock, Devices
  <2>. QED  BY <1>0, <1>1, <1>5, <1>10, <2>4, <2>6, <2>7, <2>8, InCpu DEF WriteCount, Out, Executes
<1>6. CASE WriteKbd
  <2>1. QueueByte
    BY <1>6 DEF WriteKbd
  <2>2. events' \in [Devices -> Times]
    BY <1>0, <2>1, ByteQueued
  <2>3. OnlyTicks
    BY <1>0, <1>6, <2>1, ByteQueued DEF WriteKbd, Out, clock
  <2>. QED  BY <1>0, <1>1, <1>6, <1>10, <2>2, <2>3, InCpu DEF WriteKbd, Out, Executes
<1>7. CASE RequestReset
  <2>1. OnlyTicks
    BY <1>7 DEF RequestReset, Out, clock
  <2>. QED  BY <1>0, <1>1, <1>7, <1>10, <2>1, InCpu DEF RequestReset, Out, Executes
<1>. QED  BY <1>2, <1>3, <1>4, <1>5, <1>6, <1>7

(* A call that the flag ends was the only one, and a call that waits on    *)
(* finds its own event or arms it.                                         *)
LEMMA WaitStep ==
    ASSUME IInv, CallWait \/ RetryWait
    PROVE  IInv' /\ NowGoesOn
<1>0. TypeOK /\ WaitIsTimed /\ (~Abandons => OneWait) /\ phase = "cpu"
  BY DEF IInv, Waiting, CallWait, RetryWait, Wait86, Executes, Running
<1>1. /\ events \in [Devices -> Times] /\ ch0 \in Timers /\ ticks \in 0..MaxTicks
      /\ pending \in BOOLEAN /\ reset_pending \in BOOLEAN /\ wait_done \in BOOLEAN
      /\ halted \in BOOLEAN /\ cycles \in Nat /\ emu_ns \in Nat
      /\ cycles + 1 \in Nat /\ cycles + 1 >= cycles
  BY <1>0 DEF TypeOK, Timers, Times
<1>2. PICK ns, t : /\ ns \in Waits /\ t \in Nat /\ Wait86(ns, t)
                   /\ asked = NoWait => t = emu_ns
                   /\ asked = NoWait \/ Abandons \/ (ns = asked /\ t = since)
  BY <1>0, <1>1, WaitTypes DEF CallWait, RetryWait
<1>3. ns \in Nat /\ ns # NoWait /\ emu_ns + ns \in Nat
  BY <1>0, <1>1, <1>2, WaitTypes
<1>4. /\ cycles' = cycles + 1 /\ inhibit' = FALSE /\ iflag' \in BOOLEAN /\ emu_ns' = emu_ns
      /\ UNCHANGED <<clock, ch0, pending, run, reset_pending, slept, ticks, resets>>
  BY <1>2 DEF Wait86, Executes, clock, ghosts
<1>5. CASE wait_done
  <2>1. wait_done' = FALSE /\ asked' = NoWait /\ since' = 0 /\ events' = events /\ halted' = halted
    BY <1>2, <1>5 DEF Wait86, Nobody
  <2>2. Waiting'
    BY <1>0, <1>1, <1>5, <2>1 DEF Waiting, WaitIsTimed, OneWait
  <2>. QED  BY <1>0, <1>1, <1>4, <2>1, <2>2, InCpu DEF Wait86
<1>6. CASE ~wait_done
  <2>1. /\ events' = IF events["wait"].active THEN events
                     ELSE [events EXCEPT !["wait"] = Armed(emu_ns + ns)]
        /\ asked' = ns /\ since' = t /\ halted' = TRUE /\ wait_done' = wait_done
    BY <1>2, <1>6 DEF Wait86
  <2>2. Armed(emu_ns + ns) \in Times
    BY <1>3 DEF Armed, Times
  <2>3. events' \in [Devices -> Times] /\ events'["wait"].active
    BY <1>1, <2>1, <2>2 DEF Devices, Armed
  <2>4. ~Abandons => events'["wait"].at = since' + asked'
    <3>1. CASE events["wait"].active
      BY <1>0, <1>2, <1>6, <2>1, <3>1 DEF OneWait
    <3>2. CASE ~events["wait"].active /\ ~Abandons
      <4>1. asked = NoWait
        BY <1>0, <1>6, <3>2 DEF WaitIsTimed
      <4>2. events'["wait"].at = emu_ns + ns
        BY <1>1, <2>1, <3>2 DEF Devices, Armed
      <4>. QED  BY <1>2, <2>1, <4>1, <4>2
    <3>. QED  BY <3>1, <3>2
  <2>5. Waiting'
    BY <1>3, <1>6, <2>1, <2>3, <2>4 DEF Waiting, WaitIsTimed, OneWait
  <2>. QED  BY <1>0, <1>1, <1>2, <1>4, <2>1, <2>3, <2>5, InCpu
<1>. QED  BY <1>5, <1>6

LEMMA StepIInv == IInv /\ [Next]_vars => IInv' /\ (resets' = resets => NowGoesOn)
<1> SUFFICES ASSUME IInv, [Next]_vars
             PROVE  IInv' /\ (resets' = resets => NowGoesOn)
  OBVIOUS
<1>1. CASE Sleep
  BY <1>1, SleepStep
<1>2. CASE StartCpu
  BY <1>2, StartCpuStep
<1>3. CASE EndCpu
  BY <1>3, EndCpuStep
<1>4. CASE EndSlice \/ HostReset
  BY <1>4, EndSliceStep
<1>5. CASE RunUs \/ HostKey
  BY <1>5, HostStep
<1>6. CASE AcceptInterrupt \/ Plain \/ WriteControl \/ WriteCount \/ WriteKbd \/ RequestReset
  BY <1>6, CpuStep
<1>7. CASE CallWait \/ RetryWait
  BY <1>7, WaitStep
<1>8. CASE UNCHANGED vars
  <2>1. IInv'
    BY <1>8 DEF vars, clock, cpu, bios, run, ghosts, IInv, TypeOK, NothingOverdue, Waiting,
                WaitIsTimed, OneWait, TimeIsCycles, Ledger, Anchored
  <2>2. emu_now_ns' = emu_now_ns
    BY <1>8 DEF vars, clock, emu_now_ns, NowAt
  <2>3. emu_now_ns \in Int
    <3>1. TypeOK /\ cycles - cycles_anchor \in Int
      BY DEF IInv, TypeOK
    <3>. QED  BY <3>1, ClockTypes DEF emu_now_ns, NowAt, TypeOK
  <2>. QED  BY <2>1, <2>2, <2>3 DEF NowGoesOn
<1>. QED  BY <1>1, <1>2, <1>3, <1>4, <1>5, <1>6, <1>7, <1>8 DEF Next, Emulate

----------------------------------------------------------------------------
(* The timer's grid.                                                       *)

\* No count was loaded later than now.
LoadIsPast == ch0.loaded => ch0.load_tick <= ns_to_tick(emu_now_ns)

Grid == ch0.loaded /\ Periodic(ch0) => OnGrid(ch0, events["pit0"], emu_ns)

GInv == IInv /\ LoadIsPast /\ Grid

LEMMA NowType ==
    ASSUME IInv
    PROVE  emu_now_ns \in Int
<1>1. TypeOK
  BY DEF IInv
<1>2. cycles \in Int
  BY <1>1 DEF TypeOK
<1>. QED  BY <1>1, <1>2, ClockTypes DEF emu_now_ns

LEMMA NowTypeNext ==
    ASSUME IInv'
    PROVE  emu_now_ns' \in Int
<1> DEFINE e == emu_ns'
           n == cycles'
           a == cycles_anchor'
<1>1. e \in Int /\ n \in Int /\ a \in Int
  BY DEF IInv, TypeOK
<1>2. emu_now_ns' = e + CDiv((n - a) * Mega, Khz)
  BY DEF emu_now_ns, NowAt, NsOfCycles
<1> HIDE DEF e, n, a
<1>3. n - a \in Int
  BY <1>1
<1>4. (n - a) * Mega \in Int
  BY <1>3, Rates
<1>5. CDiv((n - a) * Mega, Khz) \in Int
  BY <1>4, Rates, CDivMonotone
<1>. QED  BY <1>1, <1>2, <1>5

LEMMA TickMonotone ==
    ASSUME NEW t \in Int, NEW u \in Int, t <= u
    PROVE  ns_to_tick(t) \in Int /\ ns_to_tick(u) \in Int /\ ns_to_tick(t) <= ns_to_tick(u)
<1> DEFINE a == t * PitHz
           b == u * PitHz
<1>1. Second \in Nat \ {0} /\ PitHz \in Nat \ {0}
  BY RatesAssumption
<1>2. a \in Int /\ b \in Int /\ a <= b
  BY <1>1, ProductMonotone
<1>3. ns_to_tick(t) = CDiv(a, Second) /\ ns_to_tick(u) = CDiv(b, Second)
  BY DEF ns_to_tick
<1> HIDE DEF a, b
<1>4. CDiv(a, Second) \in Int /\ CDiv(b, Second) \in Int /\ CDiv(a, Second) <= CDiv(b, Second)
  BY <1>1, <1>2, CDivMonotone
<1>. QED  BY <1>3, <1>4

(* A load that is past stays so while time goes on.                        *)
LEMMA LoadStaysPast ==
    ASSUME IInv, IInv', NowGoesOn, LoadIsPast, ch0' = ch0
    PROVE  /\ LoadIsPast'
           /\ ch0.loaded => ch0.load_tick <= ns_to_tick(emu_now_ns')
<1> DEFINE t == emu_now_ns
           u == emu_now_ns'
<1>1. t \in Int /\ u \in Int /\ t <= u
  BY NowType, NowTypeNext DEF NowGoesOn
<1> HIDE DEF t, u
<1>2. ns_to_tick(t) \in Int /\ ns_to_tick(u) \in Int /\ ns_to_tick(t) <= ns_to_tick(u)
  BY <1>1, TickMonotone
<1>3. ch0 \in Timers /\ ch0.load_tick \in Int
  BY DEF IInv, TypeOK, Timers
<1>4. ch0.loaded => ch0.load_tick <= ns_to_tick(t)
  BY DEF LoadIsPast, t
<1>5. ch0.loaded => ch0.load_tick <= ns_to_tick(u)
  BY <1>2, <1>3, <1>4
<1>. QED  BY <1>5 DEF LoadIsPast, u

(* A step that leaves the timer alone.                                     *)
LEMMA GridKept ==
    ASSUME GInv, IInv', NowGoesOn, ch0' = ch0, events'["pit0"] = events["pit0"], emu_ns' = emu_ns
    PROVE  GInv'
<1>1. LoadIsPast'
  BY LoadStaysPast DEF GInv
<1>. QED  BY <1>1 DEF GInv, Grid

(* Time goes on to t, and what is due fires.                               *)
LEMMA GridFired ==
    ASSUME GInv, IInv', NowGoesOn, ch0' = ch0,
           NEW t \in Nat, emu_ns <= t, emu_ns' = t, emu_now_ns' = t, fire_due(t)
    PROVE  GInv'
<1>1. LoadIsPast' /\ (ch0.loaded => ch0.load_tick <= ns_to_tick(t))
  BY LoadStaysPast DEF GInv
<1>2. ch0 \in Timers /\ emu_ns \in Int
  BY DEF GInv, IInv, TypeOK, Timers
<1>3. events'["pit0"] = IF ~Due("pit0", t) THEN events["pit0"]
                        ELSE IF Periodic(ch0) THEN schedule_irq0(ch0, t) ELSE Off
  BY DEF fire_due
<1>4. ASSUME ch0.loaded, Periodic(ch0) PROVE OnGrid(ch0, events'["pit0"], t)
  <2>1. CASE Due("pit0", t)
    <3>1. events'["pit0"] = schedule_irq0(ch0, t)
      BY <1>3, <1>4, <2>1
    <3>2. OnGrid(ch0, schedule_irq0(ch0, t), t)
      BY <1>1, <1>2, <1>4, ArmedOnGrid
    <3>. QED  BY <3>1, <3>2
  <2>2. CASE ~Due("pit0", t)
    <3>1. OnGrid(ch0, events["pit0"], emu_ns)
      BY <1>4 DEF GInv, Grid
    <3>2. OnGrid(ch0, events["pit0"], t)
      BY <1>2, <3>1, StaysOnGrid
    <3>3. events'["pit0"] = events["pit0"]
      BY <1>3, <2>2
    <3>. QED  BY <3>2, <3>3
  <2>. QED  BY <2>1, <2>2
<1>5. Grid'
  BY <1>4 DEF Grid
<1>. QED  BY <1>1, <1>5 DEF GInv

LEMMA GridSleep ==
    ASSUME GInv, Sleep
    PROVE  GInv'
<1>1. IInv' /\ NowGoesOn
  BY SleepStep DEF GInv
<1>2. /\ Upcoming \in Nat /\ emu_ns <= Upcoming /\ emu_ns' = Upcoming /\ ch0' = ch0
      /\ fire_due(Upcoming) /\ cycles' \in Nat /\ cycles_anchor' = cycles'
  BY UpcomingIsAhead DEF GInv, IInv, Sleep, MoreToRun, TypeOK
<1>3. emu_now_ns' = Upcoming
  <2>1. emu_ns' \in Nat
    BY <1>2
  <2>. QED  BY <1>2, <2>1, NowSettled
<1>. QED  BY <1>1, <1>2, <1>3, GridFired

LEMMA GridEndCpu ==
    ASSUME GInv, EndCpu
    PROVE  GInv'
<1> DEFINE q == Total \div Khz
           t == emu_ns'
<1>1. IInv' /\ NowGoesOn /\ TypeOK /\ Ledger
  BY EndCpuStep DEF GInv, IInv
<1>2. /\ emu_ns' = emu_ns + q /\ ch0' = ch0 /\ fire_due(emu_ns') /\ cycles' = cycles
      /\ cycles_anchor' = cycles /\ emu_ns \in Nat /\ cycles \in Nat /\ start \in Nat
      /\ ns_rem \in Nat /\ start <= cycles
  BY <1>1, Rates DEF EndCpu, SettleClock, TypeOK, Ledger
<1>3. Total \in Nat
  <2>1. (cycles - start) \in Nat
    BY <1>2
  <2>2. (cycles - start) * Mega \in Nat
    BY <2>1, Rates
  <2>. QED  BY <1>2, <2>2 DEF Total
<1>4. q \in Nat
  BY <1>3, Rates, DivNat
<1> HIDE DEF q
<1>5. t \in Nat /\ emu_ns <= t
  BY <1>2, <1>4
<1>6. emu_now_ns' = t
  BY <1>2, <1>5, NowSettled
<1>7. fire_due(t) /\ emu_ns' = t
  BY <1>2
<1> HIDE DEF t
<1>. QED  BY <1>1, <1>2, <1>5, <1>6, <1>7, GridFired

(* The count is loaded before the instruction's last cycle.                *)
LEMMA GridWriteCount ==
    ASSUME GInv, WriteCount
    PROVE  GInv'
<1> DEFINE t == NowAt(cycles + IoCost)
           u == emu_now_ns'
<1>1. IInv' /\ NowGoesOn /\ TypeOK
  BY CpuStep DEF GInv, IInv
<1>2. cycles \in Nat /\ cycles_anchor \in Nat /\ emu_ns \in Nat /\ IoCost \in Nat
  BY <1>1, Rates DEF TypeOK
<1>3. cycles' = cycles + (IoCost + 1) /\ emu_ns' = emu_ns /\ cycles_anchor' = cycles_anchor
  BY DEF WriteCount, Out, Executes, clock
<1>4. t \in Int /\ u \in Int
  BY <1>1, <1>2, ClockTypes, NowTypeNext
<1>5. t <= u
  <2> DEFINE a == (cycles + IoCost) - cycles_anchor
             b == (cycles + (IoCost + 1)) - cycles_anchor
  <2>1. a \in Int /\ b \in Int /\ a <= b
    BY <1>2
  <2>2. t = emu_ns + CDiv(a * Mega, Khz) /\ u = emu_ns + CDiv(b * Mega, Khz)
    BY <1>3 DEF emu_now_ns, NowAt, NsOfCycles
  <2> HIDE DEF a, b, t, u
  <2>3. a * Mega \in Int /\ b * Mega \in Int /\ a * Mega <= b * Mega
    BY <2>1, Rates, ProductMonotone
  <2>4. /\ CDiv(a * Mega, Khz) \in Int /\ CDiv(b * Mega, Khz) \in Int
        /\ CDiv(a * Mega, Khz) <= CDiv(b * Mega, Khz)
    BY <2>3, Rates, CDivMonotone
  <2>. QED  BY <1>2, <2>2, <2>4
<1>6. ns_to_tick(t) <= ns_to_tick(u) /\ ns_to_tick(t) \in Int
  <2>. HIDE DEF t, u
  <2>. QED  BY <1>4, <1>5, TickMonotone
<1>7. PICK v \in Reloads :
         ch0' = [ch0 EXCEPT !.reload = v, !.loaded = TRUE, !.load_tick = ns_to_tick(t)]
  BY DEF WriteCount
<1>8. events' = [events EXCEPT !["pit0"] = schedule_irq0(ch0', t)]
  BY DEF WriteCount
<1>9. /\ ch0 \in Timers /\ events \in [Devices -> Times]
  BY <1>1 DEF TypeOK, Timers, Times
<1> DEFINE c == ch0'
<1> HIDE DEF t
<1>10. c \in Timers /\ c.loaded /\ c.load_tick = ns_to_tick(t)
  BY <1>6, <1>7, <1>9 DEF Timers
<1>11. events'["pit0"] = schedule_irq0(c, t)
  BY <1>8, <1>9 DEF Devices
<1>12. LoadIsPast'
  BY <1>6, <1>10 DEF LoadIsPast
<1> HIDE DEF c
<1>13. Periodic(c) => OnGrid(c, schedule_irq0(c, t), emu_ns')
  BY <1>4, <1>10, LoadedOnGrid
<1>14. Grid'
  BY <1>11, <1>13 DEF Grid, c
<1>. QED  BY <1>1, <1>12, <1>14 DEF GInv

LEMMA InitGInv == Init => GInv
<1> SUFFICES ASSUME Init PROVE GInv
  OBVIOUS
<1>1. ~ch0.loaded
  BY DEF Init, PitInit
<1>. QED  BY <1>1, InitIInv DEF GInv, LoadIsPast, Grid

LEMMA StepGInv == GInv /\ [Next]_vars => GInv'
<1> SUFFICES ASSUME GInv, [Next]_vars PROVE GInv'
  OBVIOUS
<1>0. IInv /\ TypeOK /\ IInv' /\ (resets' = resets => NowGoesOn)
  BY StepIInv DEF GInv, IInv
<1>1. CASE Sleep
  BY <1>1, GridSleep
<1>2. CASE EndCpu
  BY <1>2, GridEndCpu
<1>3. CASE WriteCount
  BY <1>3, GridWriteCount
<1>4. ASSUME machine_reset PROVE GInv'
  <2>1. ~ch0'.loaded
    BY <1>4 DEF machine_reset, PitInit
  <2>. QED  BY <1>0, <2>1 DEF GInv, LoadIsPast, Grid
<1>5. CASE WriteControl
  <2>1. ch0 \in Timers
    BY <1>0 DEF TypeOK, Timers
  <2>2. ~ch0'.loaded
    BY <1>5, <2>1 DEF WriteControl, Timers
  <2>. QED  BY <1>0, <2>2 DEF GInv, LoadIsPast, Grid
<1>6. ASSUME UNCHANGED <<emu_ns, ch0, resets>>, events'["pit0"] = events["pit0"] PROVE GInv'
  BY <1>0, <1>6, GridKept
<1>7. CASE HostKey \/ WriteKbd
  <2>1. events \in [Devices -> Times]
    BY <1>0 DEF TypeOK, Times
  <2>2. events'["pit0"] = events["pit0"]
    BY <1>7, <2>1 DEF HostKey, WriteKbd, QueueByte, Devices
  <2>. QED  BY <1>6, <1>7, <2>2 DEF HostKey, WriteKbd, Out, clock, ghosts
<1>8. CASE CallWait \/ RetryWait
  <2>1. events \in [Devices -> Times]
    BY <1>0 DEF TypeOK, Times
  <2>2. PICK ns, t : Wait86(ns, t)
    BY <1>8 DEF CallWait, RetryWait
  <2>3. events'["pit0"] = events["pit0"]
    BY <2>1, <2>2 DEF Wait86, Devices
  <2>. QED  BY <1>6, <2>2, <2>3 DEF Wait86, clock, ghosts
<1>9. CASE StartCpu \/ RunUs \/ AcceptInterrupt \/ Plain \/ RequestReset \/ UNCHANGED vars
  BY <1>6, <1>9 DEF StartCpu, RunUs, AcceptInterrupt, Plain, RequestReset, Out, vars, clock, ghosts
<1>10. CASE EndSlice \/ HostReset
  BY <1>4, <1>6, <1>10 DEF EndSlice, HostReset, clock, ghosts
<1>. QED  BY <1>1, <1>2, <1>3, <1>5, <1>7, <1>8, <1>9, <1>10 DEF Next, Emulate

----------------------------------------------------------------------------
(* Theorems.                                                               *)

LEMMA Invariance == Spec => []IInv
<1>1. IInv /\ [Next]_vars => IInv'
  BY StepIInv
<1>. QED  BY <1>1, InitIInv, PTL DEF Spec

\* Types hold and no event is overdue when the loop looks for the next one:
\* the timer's two roundings never re-arm it in the past (pit.c), so a halted
\* CPU never takes time back (sched_run_ns).
THEOREM LoopIsSound == Spec => []Consistent
<1>1. IInv => Consistent
  BY DEF IInv, Waiting, Consistent
<1>. QED  BY <1>1, Invariance, PTL

\* sched_run_ns neither loses nor double-counts a cycle, over any number of
\* pieces, slices and resets.
THEOREM CyclesAreTime == Spec => []TimeIsCycles
<1>1. IInv => TimeIsCycles
  BY DEF IInv
<1>. QED  BY <1>1, Invariance, PTL

\* What emu_now_ns returns never runs back between resets.
THEOREM TimeGoesOn == Spec => NowNeverRunsBack
<1>1. IInv /\ [Next]_vars => [resets' = resets => emu_now_ns' >= emu_now_ns]_vars
  BY StepIInv DEF NowGoesOn
<1>. QED  BY <1>1, Invariance, PTL DEF Spec, NowNeverRunsBack

\* While no wait is given up, INT 15h's flag is set only for the call that waits, when
\* its time has passed, whatever interrupts, resets and slices come between.
THEOREM WaitsAreFull == ~Abandons => (Spec => []WaitsInFull)
<1> SUFFICES ASSUME ~Abandons PROVE Spec => []WaitsInFull
  OBVIOUS
<1>1. IInv => WaitsInFull
  BY DEF IInv, Waiting, OneWait, WaitsInFull
<1>. QED  BY <1>1, Invariance, PTL

\* A loaded periodic count always has its next tick armed, a whole number of periods
\* after the load and not beyond the first that has not passed (pit.c, next_tick and
\* the handler that re-arms itself): for every rate, count and cost, late delivery
\* neither drifts nor loses the timer.
THEOREM TimerKeepsItsGrid == Spec => []TicksOnGrid
<1>1. GInv => TicksOnGrid
  <2> SUFFICES ASSUME GInv, ch0.loaded, Periodic(ch0)
               PROVE  /\ events["pit0"].active
                      /\ \E n \in 1..(ns_to_tick(events["pit0"].at + 1) - ch0.load_tick) :
                            /\ events["pit0"].at = tick_to_ns(ch0.load_tick + n * Period(ch0))
                            /\ n > 1 => tick_to_ns(ch0.load_tick + (n - 1) * Period(ch0)) <= emu_ns
    BY DEF TicksOnGrid
  <2>1. ch0 \in Timers /\ OnGrid(ch0, events["pit0"], emu_ns)
    BY DEF GInv, IInv, TypeOK, Timers, Grid
  <2>. QED  BY <2>1, GridIsBounded DEF OnGrid
<1>2. GInv /\ [Next]_vars => GInv'
  BY StepGInv
<1>. QED  BY <1>1, <1>2, InitGInv, PTL DEF Spec
=============================================================================
