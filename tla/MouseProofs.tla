----------------------------- MODULE MouseProofs -----------------------------
(***************************************************************************)
(* Proofs about the mouse driver: for every set of buttons, motions and    *)
(* modes, every size of the queue, and calls and events in every order.    *)
(***************************************************************************)
EXTENDS Mouse, PicProofs, WellFoundedInduction

\* While the queue has room, what will be seen when it is empty is what was sent.
Remembered == ~sent.dropped => LastQueued = sent.buttons

\* Only the last handler on the stack is more than its IRET; the master serves the
\* cascade until that handler has sent its last EOI.
Nesting == \A i \in 1..(Len(frames) - 1) : frames[i] = "iret"
Served == frames # << >> /\ Top # "iret" => CascadeLine \in pics["master"].isr

\* Nothing but the cascade interrupts.
OnlyCascade == pics["master"].irr \subseteq {CascadeLine} /\ ~pics["master"].auto_eoi

IInv ==
    /\ TypeOK /\ InRange /\ NoneStranded /\ Remembered
    /\ Nesting /\ Served /\ OnlyCascade

----------------------------------------------------------------------------
(* Counts and positions.                                                   *)

LEMMA NothingType == Nothing \in Tallies
  BY DEF Nothing, Tally, None, Tallies

LEMMA PlusType ==
    ASSUME NEW s \in Tallies, NEW t \in Tallies
    PROVE  Plus(s, t) \in Tallies
  BY DEF Plus, Tally, Tallies

LEMMA PlusLaws ==
    ASSUME NEW s \in Tallies, NEW t \in Tallies, NEW u \in Tallies
    PROVE  /\ Plus(s, t) = Plus(t, s)
           /\ Plus(Plus(s, t), u) = Plus(s, Plus(t, u))
           /\ Plus(s, Nothing) = s /\ Plus(Nothing, s) = s
<1>1. /\ s = [press |-> s.press, release |-> s.release, mick |-> s.mick]
      /\ s.press = [b \in Buttons |-> s.press[b]] /\ s.release = [b \in Buttons |-> s.release[b]]
      /\ s.mick \in Int /\ t.mick \in Int /\ u.mick \in Int
  BY DEF Tallies
<1>2. \A b \in Buttons : /\ s.press[b] \in Nat /\ t.press[b] \in Nat /\ u.press[b] \in Nat
                         /\ s.release[b] \in Nat /\ t.release[b] \in Nat /\ u.release[b] \in Nat
  BY DEF Tallies
<1>3. Plus(s, t) = Plus(t, s)
  BY <1>1, <1>2 DEF Plus, Tally
<1>4. Plus(Plus(s, t), u) = Plus(s, Plus(t, u))
  BY <1>1, <1>2 DEF Plus, Tally
<1>5. Plus(s, Nothing) = s /\ Plus(Nothing, s) = s
  BY <1>1, <1>2 DEF Plus, Tally, Nothing, None
<1>. QED  BY <1>3, <1>4, <1>5

LEMMA EffectType ==
    ASSUME NEW buttons \in SUBSET Buttons, NEW e \in Events
    PROVE  Effect(buttons, e) \in Tallies
  BY RangeAssumption DEF Effect, Tally, Tallies, Events

LEMMA TextMode == TextMax \in Modes /\ TextMax \in Nat
  BY RangeAssumption DEF TextMax

\* A state of the driver whose position is within its range.
Within(m) == m \in DriverStates /\ m.min <= m.x /\ m.x <= m.max

(* Moving the position into a range that is not empty.                     *)
LEMMA ClampedWithin ==
    ASSUME NEW m \in DriverStates, m.min <= m.max
    PROVE  /\ Within(Clamped(m)) /\ Clamped(m).buttons = m.buttons
           /\ Clamped(m).tally = m.tally
<1>1. m.x \in Int /\ m.min \in Int /\ m.max \in Int
  BY DEF DriverStates
<1>2. Greatest(m.min, Least(m.max, m.x)) \in m.min..m.max
  BY <1>1 DEF Greatest, Least
<1>. QED  BY <1>1, <1>2 DEF Clamped, Within, DriverStates

LEMMA DefaultsWithin ==
    ASSUME NEW m, Within(m)
    PROVE  /\ Within(Defaults(m)) /\ Defaults(m).buttons = m.buttons
           /\ Defaults(m).tally = Nothing
<1>1. m.min \in Nat /\ m.max \in Nat /\ m.min <= m.max
  BY DEF Within, DriverStates
<1> DEFINE mid == (m.min + m.max + 1) \div 2
<1>2. mid \in Int /\ m.min <= mid /\ mid <= m.max
  BY <1>1
<1>3. Defaults(m) = [m EXCEPT !.x = mid, !.tally = Nothing, !.mask = {}]
  BY DEF Defaults
<1> HIDE DEF mid
<1>. QED  BY <1>2, <1>3, NothingType DEF Within, DriverStates

LEMMA ModeChangedWithin ==
    ASSUME NEW m \in DriverStates, NEW max \in Nat
    PROVE  /\ Within(ModeChanged(m, max)) /\ ModeChanged(m, max).buttons = m.buttons
           /\ ModeChanged(m, max).tally = m.tally
<1> DEFINE mid == (max + 1) \div 2
<1>1. mid \in Int /\ 0 <= mid /\ mid <= max
  OBVIOUS
<1>2. ModeChanged(m, max) = [m EXCEPT !.min = 0, !.max = max, !.x = mid]
  BY DEF ModeChanged
<1>3. mid \in Int /\ max \in Nat /\ 0 \in Nat
  BY <1>1
<1> HIDE DEF mid
<1>4. ModeChanged(m, max).buttons = m.buttons /\ ModeChanged(m, max).tally = m.tally
  BY <1>2 DEF DriverStates
<1>5. ModeChanged(m, max) \in DriverStates
  BY <1>2, <1>3 DEF DriverStates
<1>6. /\ ModeChanged(m, max).min = 0 /\ ModeChanged(m, max).max = max
      /\ ModeChanged(m, max).x = mid
  BY <1>2 DEF DriverStates
<1>. QED  BY <1>1, <1>4, <1>5, <1>6 DEF Within

(* Applying an event keeps the position within its range.                  *)
LEMMA AppliedWithin ==
    ASSUME NEW m, Within(m), NEW e \in Events
    PROVE  /\ Within(Applied(m, e)) /\ Applied(m, e).buttons = e.buttons
           /\ Applied(m, e).tally = Plus(m.tally, Effect(m.buttons, e))
<1> DEFINE moved == [m EXCEPT !.x = @ + e.dx]
<1>0. e.dx \in Int /\ e.buttons \in SUBSET Buttons
  BY RangeAssumption DEF Events
<1>1. m \in DriverStates /\ m.min <= m.max
  BY DEF Within, DriverStates
<1>2. moved \in DriverStates /\ moved.min <= moved.max /\ moved.tally = m.tally
  BY <1>0, <1>1 DEF DriverStates
<1>3. Within(Clamped(moved)) /\ Clamped(moved).tally = m.tally
  BY <1>2, ClampedWithin
<1>4. Plus(m.tally, Effect(m.buttons, e)) \in Tallies
  BY <1>1, PlusType, EffectType DEF DriverStates
<1>5. Applied(m, e) = [Clamped(moved) EXCEPT
                          !.buttons = e.buttons,
                          !.tally = Plus(Clamped(moved).tally, Effect(m.buttons, e))]
  BY DEF Applied
<1> HIDE DEF moved
<1>. QED  BY <1>0, <1>3, <1>4, <1>5 DEF Within, DriverStates

(* Whatever the program calls, the driver's state stays within its range,  *)
(* the buttons are what they were, and each count is kept or told.         *)
Answers(m, heard) ==
    /\ Within(m) /\ m.buttons = ms.buttons
    /\ heard \in Tallies /\ Plus(heard, m.tally) = ms.tally

LEMMA TellOne ==
    ASSUME Within(ms), NEW b \in Buttons
    PROVE  /\ Answers([ms EXCEPT !.tally.press[b] = 0],
                      [Nothing EXCEPT !.press[b] = ms.tally.press[b]])
           /\ Answers([ms EXCEPT !.tally.release[b] = 0],
                      [Nothing EXCEPT !.release[b] = ms.tally.release[b]])
<1> DEFINE rest(p) == [p EXCEPT ![b] = 0]
           one(p) == [None EXCEPT ![b] = p[b]]
<1>0. /\ ms \in DriverStates /\ ms.tally \in Tallies
      /\ ms.tally.press \in [Buttons -> Nat] /\ ms.tally.release \in [Buttons -> Nat]
  BY DEF Within, DriverStates, Tallies
<1>1. ASSUME NEW p \in [Buttons -> Nat]
      PROVE  /\ rest(p) \in [Buttons -> Nat] /\ one(p) \in [Buttons -> Nat]
             /\ [c \in Buttons |-> one(p)[c] + rest(p)[c]] = p
             /\ [c \in Buttons |-> None[c] + p[c]] = p
  BY <1>1 DEF None
<1>2. /\ [Nothing EXCEPT !.press[b] = ms.tally.press[b]] = Tally(one(ms.tally.press), None, 0)
      /\ [Nothing EXCEPT !.release[b] = ms.tally.release[b]] = Tally(None, one(ms.tally.release), 0)
  BY DEF Nothing, Tally
<1>3. /\ [ms EXCEPT !.tally.press[b] = 0]
             = [ms EXCEPT !.tally = [@ EXCEPT !.press = rest(ms.tally.press)]]
      /\ [ms EXCEPT !.tally.release[b] = 0]
             = [ms EXCEPT !.tally = [@ EXCEPT !.release = rest(ms.tally.release)]]
  BY <1>0 DEF DriverStates, Tallies
<1>4. None \in [Buttons -> Nat]
  BY DEF None
<1> HIDE DEF rest, one
<1>5. ASSUME NEW t \in Tallies
      PROVE  LET m == [ms EXCEPT !.tally = t]
             IN  Within(m) /\ m.buttons = ms.buttons /\ m.tally = t
  BY <1>0 DEF Within, DriverStates
<1>6. ASSUME NEW p \in [Buttons -> Nat]
      PROVE  /\ [ms.tally EXCEPT !.press = p] = Tally(p, ms.tally.release, ms.tally.mick)
             /\ [ms.tally EXCEPT !.release = p] = Tally(ms.tally.press, p, ms.tally.mick)
             /\ ms.tally = Tally(ms.tally.press, ms.tally.release, ms.tally.mick)
             /\ Tally(p, ms.tally.release, ms.tally.mick) \in Tallies
             /\ Tally(ms.tally.press, p, ms.tally.mick) \in Tallies
             /\ Tally(p, None, 0) \in Tallies /\ Tally(None, p, 0) \in Tallies
  BY <1>0, <1>4 DEF Tally, Tallies
<1>7. /\ Plus(Tally(one(ms.tally.press), None, 0),
              Tally(rest(ms.tally.press), ms.tally.release, ms.tally.mick)) = ms.tally
      /\ Plus(Tally(None, one(ms.tally.release), 0),
              Tally(ms.tally.press, rest(ms.tally.release), ms.tally.mick)) = ms.tally
  <2>1. ms.tally.mick \in Int /\ 0 + ms.tally.mick = ms.tally.mick
    BY <1>0 DEF Tallies
  <2>2. ASSUME NEW p1, NEW r1, NEW m1, NEW p2, NEW r2, NEW m2, NEW p, NEW r,
               [c \in Buttons |-> p1[c] + p2[c]] = p, [c \in Buttons |-> r1[c] + r2[c]] = r
        PROVE  Plus(Tally(p1, r1, m1), Tally(p2, r2, m2)) = Tally(p, r, m1 + m2)
    BY <2>2 DEF Plus, Tally
  <2>3. ms.tally = Tally(ms.tally.press, ms.tally.release, ms.tally.mick)
    BY <1>0 DEF Tally, Tallies
  <2>4. /\ [c \in Buttons |-> one(ms.tally.press)[c] + rest(ms.tally.press)[c]] = ms.tally.press
        /\ [c \in Buttons |-> one(ms.tally.release)[c] + rest(ms.tally.release)[c]]
              = ms.tally.release
        /\ [c \in Buttons |-> None[c] + ms.tally.press[c]] = ms.tally.press
        /\ [c \in Buttons |-> None[c] + ms.tally.release[c]] = ms.tally.release
    BY <1>0, <1>1, Zenon
  <2>5. Plus(Tally(one(ms.tally.press), None, 0),
             Tally(rest(ms.tally.press), ms.tally.release, ms.tally.mick))
           = Tally(ms.tally.press, ms.tally.release, 0 + ms.tally.mick)
    BY <2>2, <2>4
  <2>6. Plus(Tally(None, one(ms.tally.release), 0),
             Tally(ms.tally.press, rest(ms.tally.release), ms.tally.mick))
           = Tally(ms.tally.press, ms.tally.release, 0 + ms.tally.mick)
    BY <2>2, <2>4
  <2>. QED  BY <2>1, <2>3, <2>5, <2>6, Zenon
<1>8. /\ rest(ms.tally.press) \in [Buttons -> Nat] /\ one(ms.tally.press) \in [Buttons -> Nat]
      /\ rest(ms.tally.release) \in [Buttons -> Nat] /\ one(ms.tally.release) \in [Buttons -> Nat]
  BY <1>0, <1>1
<1> DEFINE pressed == Tally(rest(ms.tally.press), ms.tally.release, ms.tally.mick)
           released == Tally(ms.tally.press, rest(ms.tally.release), ms.tally.mick)
<1>9. /\ [ms EXCEPT !.tally.press[b] = 0] = [ms EXCEPT !.tally = pressed]
      /\ [ms EXCEPT !.tally.release[b] = 0] = [ms EXCEPT !.tally = released]
      /\ pressed \in Tallies /\ released \in Tallies
  BY <1>3, <1>6, <1>8
<1>10. /\ Tally(one(ms.tally.press), None, 0) \in Tallies
       /\ Tally(None, one(ms.tally.release), 0) \in Tallies
  BY <1>6, <1>8
<1>11. ASSUME NEW t \in Tallies, NEW heard \in Tallies, Plus(heard, t) = ms.tally
       PROVE  Answers([ms EXCEPT !.tally = t], heard)
  BY <1>5, <1>11 DEF Answers
<1> HIDE DEF pressed, released
<1>. QED  BY <1>2, <1>7, <1>9, <1>10, <1>11 DEF pressed, released

LEMMA ProgramCalls ==
    ASSUME TypeOK, InRange, Program
    PROVE  \E m, heard : Calls(m, heard) /\ Answers(m, heard)
<1>1. Within(ms) /\ ms \in DriverStates /\ ms.tally \in Tallies
  BY DEF TypeOK, InRange, Within, DriverStates
<1>2. /\ \A m : Within(m) /\ m.buttons = ms.buttons /\ m.tally = Nothing => Answers(m, ms.tally)
      /\ \A m : Within(m) /\ m.buttons = ms.buttons /\ m.tally = ms.tally => Answers(m, Nothing)
  BY <1>1, NothingType, PlusLaws DEF Answers
<1>3. CASE ResetDriver
  <2>1. Within(ModeChanged(ms, TextMax)) /\ ModeChanged(ms, TextMax).buttons = ms.buttons
    BY <1>1, TextMode, ModeChangedWithin
  <2>. QED  BY <1>2, <1>3, <2>1, DefaultsWithin DEF ResetDriver
<1>4. CASE SoftwareReset
  BY <1>1, <1>2, <1>4, DefaultsWithin DEF SoftwareReset
<1>5. CASE ReadMotion
  <2> DEFINE m == [ms EXCEPT !.tally.mick = 0]
             heard == [Nothing EXCEPT !.mick = ms.tally.mick]
  <2>1. /\ Within(m) /\ m.buttons = ms.buttons
        /\ m.tally = Tally(ms.tally.press, ms.tally.release, 0)
    BY <1>1 DEF Within, DriverStates, Tallies, Tally
  <2>2. heard = Tally(None, None, ms.tally.mick) /\ heard \in Tallies
    BY <1>1, NothingType DEF Tallies, Nothing, Tally
  <2>3. Plus(heard, m.tally) = ms.tally
    <3>1. /\ ms.tally = Tally(ms.tally.press, ms.tally.release, ms.tally.mick)
          /\ [b \in Buttons |-> None[b] + ms.tally.press[b]] = ms.tally.press
          /\ [b \in Buttons |-> None[b] + ms.tally.release[b]] = ms.tally.release
          /\ ms.tally.mick + 0 = ms.tally.mick
      BY <1>1 DEF Tallies, Tally, None
    <3> HIDE DEF m, heard
    <3>. QED  BY <2>1, <2>2, <3>1 DEF Plus, Tally
  <2>4. Calls(m, heard)
    BY <1>5 DEF ReadMotion
  <2> HIDE DEF m, heard
  <2>. QED  BY <2>1, <2>2, <2>3, <2>4 DEF Answers
<1>6. ASSUME NEW max \in Modes, SetMode(max)
      PROVE  \E m, heard : Calls(m, heard) /\ Answers(m, heard)
  <2>1. max \in Nat
    BY RangeAssumption
  <2>. QED  BY <1>1, <1>2, <1>6, <2>1, ModeChangedWithin DEF SetMode
<1>7. ASSUME NEW x \in Positions, NEW y \in Positions, SetPosition(x) \/ SetRange(x, y)
      PROVE  \E m, heard : Calls(m, heard) /\ Answers(m, heard)
  <2> DEFINE placed == [ms EXCEPT !.x = x]
             ranged == [ms EXCEPT !.min = Least(x, y), !.max = Greatest(x, y)]
  <2>1. x \in Nat /\ y \in Nat
    BY TextMode DEF Positions
  <2>2. Least(x, y) \in Nat /\ Greatest(x, y) \in Nat /\ Least(x, y) <= Greatest(x, y)
    BY <2>1 DEF Least, Greatest
  <2>3. /\ placed \in DriverStates /\ placed.min <= placed.max
        /\ placed.buttons = ms.buttons /\ placed.tally = ms.tally
    BY <1>1, <2>1 DEF Within, DriverStates
  <2>4. /\ ranged \in DriverStates /\ ranged.min <= ranged.max
        /\ ranged.buttons = ms.buttons /\ ranged.tally = ms.tally
    BY <1>1, <2>2 DEF DriverStates
  <2>5. (SetPosition(x) => Calls(Clamped(placed), Nothing))
        /\ (SetRange(x, y) => Calls(Clamped(ranged), Nothing))
    BY DEF SetPosition, SetRange
  <2> HIDE DEF placed, ranged
  <2>6. Answers(Clamped(placed), Nothing) /\ Answers(Clamped(ranged), Nothing)
    BY <1>2, <2>3, <2>4, ClampedWithin
  <2>. QED  BY <1>7, <2>5, <2>6
<1>8. ASSUME NEW b \in Buttons, PressInfo(b) \/ ReleaseInfo(b)
      PROVE  \E m, heard : Calls(m, heard) /\ Answers(m, heard)
  BY <1>1, <1>8, TellOne DEF PressInfo, ReleaseInfo
<1>9. ASSUME NEW mask \in Masks, SetHandler(mask)
      PROVE  \E m, heard : Calls(m, heard) /\ Answers(m, heard)
  <2> DEFINE m == [ms EXCEPT !.mask = mask]
  <2>1. Within(m) /\ m.buttons = ms.buttons /\ m.tally = ms.tally
    BY <1>1 DEF Within, DriverStates, Masks
  <2>2. Calls(m, Nothing)
    BY <1>9 DEF SetHandler
  <2> HIDE DEF m
  <2>. QED  BY <1>2, <2>1, <2>2
<1>. QED  BY <1>3, <1>4, <1>5, <1>6, <1>7, <1>8, <1>9 DEF Program

----------------------------------------------------------------------------
(* Sums of effects.                                                        *)

(* Numbers are counted up from the first.                                  *)
LEMMA FirstOfMany ==
    ASSUME NEW T \in SUBSET Nat, T # {}
    PROVE  \E x \in T : \A y \in T : x <= y
<1>1. PICK x \in T : \A y \in T : <<y, x>> \notin OpToRel(<, Nat)
  BY WFMin, NatLessThanWellFounded
<1>2. \A y \in T : ~(y < x)
  BY <1>1 DEF OpToRel
<1>. QED  BY <1>2

\* f holds the sums of the first entries of E.
Adds(f, n, E) == f[0] = Nothing /\ \A i \in 1..n : f[i] = Plus(f[i - 1], E[i])
Sums(f, n, E) == f \in [0..n -> Tallies] /\ Adds(f, n, E)

(* There are such sums.                                                    *)
LEMMA SumsExist ==
    ASSUME NEW N \in Nat, NEW E \in [1..N -> Tallies]
    PROVE  \E f : Sums(f, N, E)
<1> DEFINE Has(n) == \E f : Sums(f, n, E)
           T == {n \in 0..N : ~Has(n)}
<1>0. SUFFICES ASSUME T # {} PROVE FALSE
  <2>1. T = {} => Has(N)
    <3>1. N \in 0..N
      OBVIOUS
    <3> HIDE DEF Has
    <3>. QED  BY <3>1
  <2>. QED  BY <2>1
<1>1. PICK n \in T : \A k \in T : n <= k
  <2>1. T \in SUBSET Nat
    OBVIOUS
  <2>. QED  BY <1>0, <2>1, FirstOfMany
<1>2. n \in 0..N /\ ~Has(n)
  OBVIOUS
<1>3. n # 0
  <2> DEFINE f == [i \in 0..0 |-> Nothing]
  <2>1. Sums(f, 0, E)
    BY NothingType DEF Sums, Adds
  <2>. QED  BY <1>2, <2>1
<1>4. n - 1 \in 0..N /\ n - 1 \notin T
  BY <1>1, <1>2, <1>3
<1>5. PICK g : Sums(g, n - 1, E)
  BY <1>4
<1> DEFINE f == [i \in 0..n |-> IF i = n THEN Plus(g[n - 1], E[n]) ELSE g[i]]
<1>6. Plus(g[n - 1], E[n]) \in Tallies
  BY <1>2, <1>3, <1>4, <1>5, PlusType DEF Sums, Adds
<1>7. f \in [0..n -> Tallies] /\ f[0] = Nothing
  BY <1>2, <1>3, <1>5, <1>6 DEF Sums, Adds
<1>8. ASSUME NEW i \in 1..n PROVE f[i] = Plus(f[i - 1], E[i])
  BY <1>2, <1>3, <1>5 DEF Sums, Adds
<1>9. Sums(f, n, E)
  BY <1>7, <1>8 DEF Sums, Adds
<1>. QED  BY <1>2, <1>9

(* They are determined by the entries.                                     *)
LEMMA SumsAgree ==
    ASSUME NEW n \in Nat, NEW E, NEW f, NEW g, Adds(f, n, E), Adds(g, n, E)
    PROVE  \A i \in 0..n : f[i] = g[i]
<1> DEFINE T == {i \in 0..n : f[i] # g[i]}
<1> SUFFICES ASSUME T # {} PROVE FALSE
  OBVIOUS
<1>1. PICK i \in T : \A k \in T : i <= k
  <2>1. T \in SUBSET Nat
    OBVIOUS
  <2>. QED  BY <2>1, FirstOfMany
<1>2. i \in 1..n /\ i - 1 \in 0..n /\ i - 1 \notin T
  BY <1>1 DEF Adds
<1>3. f[i - 1] = g[i - 1]
  BY <1>2
<1>. QED  BY <1>1, <1>2, <1>3 DEF Adds

(* Without the first entry each sum is less by that entry.                 *)
LEMMA SumsShift ==
    ASSUME NEW n \in Nat, NEW E \in [1..(n + 1) -> Tallies], NEW D, NEW f, NEW g,
           Sums(f, n + 1, E), Sums(g, n, D),
           \A i \in 1..n : D[i] = E[i + 1]
    PROVE  f[n + 1] = Plus(E[1], g[n])
<1> DEFINE T == {i \in 0..n : f[i + 1] # Plus(E[1], g[i])}
<1> SUFFICES ASSUME T # {} PROVE FALSE
  OBVIOUS
<1>1. PICK i \in T : \A k \in T : i <= k
  <2>1. T \in SUBSET Nat
    OBVIOUS
  <2>. QED  BY <2>1, FirstOfMany
<1>2. E[1] \in Tallies
  OBVIOUS
<1>3. i # 0
  <2>1. f[1] = Plus(f[0], E[1]) /\ f[0] = Nothing /\ g[0] = Nothing
    BY DEF Sums, Adds
  <2>2. f[1] = Plus(E[1], g[0])
    BY <1>2, <2>1, PlusLaws
  <2>. QED  BY <2>2
<1>4. i \in 1..n /\ i - 1 \in 0..n /\ i - 1 \notin T /\ i + 1 \in 1..(n + 1)
  BY <1>1, <1>3
<1>5. f[i] = Plus(E[1], g[i - 1])
  BY <1>4
<1>6. f[i + 1] = Plus(f[i], E[i + 1]) /\ g[i] = Plus(g[i - 1], E[i + 1])
  BY <1>4 DEF Sums, Adds
<1>7. g[i - 1] \in Tallies /\ E[i + 1] \in Tallies
  BY <1>4 DEF Sums, Adds
<1>8. f[i + 1] = Plus(E[1], g[i])
  BY <1>2, <1>5, <1>6, <1>7, PlusLaws
<1>. QED  BY <1>1, <1>8

\* What each event of a queue adds, when the buttons are these at first.
Effects(q, first) ==
    [i \in 1..Len(q) |-> Effect(IF i = 1 THEN first ELSE q[i - 1].buttons, q[i])]

\* Coming, of a queue and the buttons.
Sum(q, first) ==
    LET upto[i \in 0..Len(q)] ==
            IF i = 0 THEN Nothing
            ELSE Plus(upto[i - 1], Effect(IF i = 1 THEN first ELSE q[i - 1].buttons, q[i]))
    IN  upto[Len(q)]

LEMMA EffectsType ==
    ASSUME NEW q \in Seq(Events), NEW first \in SUBSET Buttons
    PROVE  Effects(q, first) \in [1..Len(q) -> Tallies]
<1> SUFFICES ASSUME NEW i \in 1..Len(q)
             PROVE  Effect(IF i = 1 THEN first ELSE q[i - 1].buttons, q[i]) \in Tallies
  BY DEF Effects
<1>1. Len(q) \in Nat
  BY LenProperties
<1>2. q[i] \in Events
  BY ElementOfSeq
<1>3. (IF i = 1 THEN first ELSE q[i - 1].buttons) \in SUBSET Buttons
  <2>1. CASE i # 1
    <3>1. q[i - 1] \in Events
      BY <1>1, <2>1, ElementOfSeq
    <3>. QED  BY <2>1, <3>1 DEF Events
  <2>. QED  BY <2>1
<1>. QED  BY <1>2, <1>3, EffectType

(* What is to come is the last of the sums of the events' effects.         *)
LEMMA SumIsLast ==
    ASSUME NEW q \in Seq(Events), NEW first \in SUBSET Buttons
    PROVE  \E f : Sums(f, Len(q), Effects(q, first)) /\ Sum(q, first) = f[Len(q)]
<1> DEFINE n == Len(q)
           E == Effects(q, first)
           Step(g) == [i \in 0..n |->
                         IF i = 0 THEN Nothing
                         ELSE Plus(g[i - 1], Effect(IF i = 1 THEN first ELSE q[i - 1].buttons, q[i]))]
           h == CHOOSE g : g = Step(g)
<1>0. n \in Nat
  BY LenProperties
<1>1. PICK f : Sums(f, n, E)
  BY <1>0, EffectsType, SumsExist
<1>2. \A i \in 1..n : E[i] = Effect(IF i = 1 THEN first ELSE q[i - 1].buttons, q[i])
  BY DEF Effects
<1>3. f = Step(f)
  <2>1. f = [i \in 0..n |-> f[i]]
    BY <1>1 DEF Sums, Adds
  <2>2. \A i \in 0..n : f[i] = Step(f)[i]
    BY <1>0, <1>1, <1>2 DEF Sums, Adds
  <2>. QED  BY <2>1, <2>2
<1>4. h = Step(h)
  BY <1>3
<1>5. Adds(h, n, E)
  <2> HIDE DEF h, n, E
  <2>1. ASSUME NEW i \in 0..n PROVE h[i] = Step(h)[i]
    BY <1>4, Zenon
  <2>2. Step(h)[0] = Nothing
    BY <1>0
  <2>3. ASSUME NEW i \in 1..n PROVE Step(h)[i] = Plus(h[i - 1], E[i])
    <3>1. i \in 0..n /\ i # 0
      BY <1>0
    <3>. QED  BY <1>2, <3>1
  <2>4. 0 \in 0..n /\ \A i \in 1..n : i \in 0..n
    BY <1>0
  <2> HIDE DEF Step
  <2>. QED  BY <2>1, <2>2, <2>3, <2>4 DEF Adds
<1>6. \A i \in 0..n : f[i] = h[i]
  <2>1. Adds(f, n, E)
    BY <1>1 DEF Sums
  <2> HIDE DEF h, n, E
  <2>. QED  BY <1>0, <1>5, <2>1, SumsAgree
<1>7. Sum(q, first) = h[n]
  BY DEF Sum
<1>. QED  BY <1>0, <1>1, <1>6, <1>7

(* An event is added at the end.                                           *)
LEMMA SumAppended ==
    ASSUME NEW q \in Seq(Events), NEW first \in SUBSET Buttons, NEW e \in Events
    PROVE  LET buttons == IF q = << >> THEN first ELSE Last(q).buttons
           IN  /\ Effect(buttons, e) \in Tallies /\ Sum(q, first) \in Tallies
               /\ Sum(Append(q, e), first) = Plus(Sum(q, first), Effect(buttons, e))
<1> DEFINE n == Len(q)
           r == Append(q, e)
           E == Effects(q, first)
           D == Effects(r, first)
           buttons == IF q = << >> THEN first ELSE Last(q).buttons
<1>0. /\ n \in Nat /\ r \in Seq(Events) /\ Len(r) = n + 1 /\ r[n + 1] = e
      /\ \A i \in 1..n : r[i] = q[i]
  BY LenProperties, AppendProperties
<1>1. PICK f : Sums(f, n, E) /\ Sum(q, first) = f[n]
  BY SumIsLast
<1>2. PICK g : Sums(g, n + 1, D) /\ Sum(r, first) = g[n + 1]
  BY <1>0, SumIsLast
<1>3. D \in [1..(n + 1) -> Tallies]
  BY <1>0, EffectsType
<1>4. \A i \in 1..n : D[i] = E[i]
  <2> HIDE DEF r
  <2>. QED  BY <1>0 DEF Effects
<1>5. D[n + 1] = Effect(buttons, e)
  <2>1. q = << >> <=> n + 1 = 1
    BY <1>0, EmptySeq
  <2>2. buttons = IF n + 1 = 1 THEN first ELSE q[n].buttons
    BY <2>1 DEF Last
  <2>3. n + 1 # 1 => r[n + 1 - 1] = q[n]
    BY <1>0
  <2>4. D[n + 1] = Effect(IF n + 1 = 1 THEN first ELSE r[n + 1 - 1].buttons, r[n + 1])
    <3> HIDE DEF r
    <3>. QED  BY <1>0 DEF Effects
  <2> HIDE DEF n, r, D
  <2>. QED  BY <1>0, <2>2, <2>3, <2>4
<1> HIDE DEF n, r, E, D, buttons
<1>6. g[n] = f[n]
  <2>1. Adds(f, n, E) /\ Adds(g, n, E)
    BY <1>0, <1>1, <1>2, <1>4 DEF Sums, Adds
  <2>2. \A i \in 0..n : f[i] = g[i]
    BY <1>0, <2>1, SumsAgree
  <2>. QED  BY <1>0, <2>2
<1>7. g[n + 1] = Plus(g[n], D[n + 1])
  BY <1>0, <1>2 DEF Sums, Adds
<1>8. f[n] \in Tallies /\ D[n + 1] \in Tallies
  BY <1>0, <1>1, <1>3 DEF Sums, Adds
<1>9. /\ Effect(buttons, e) \in Tallies /\ Sum(q, first) \in Tallies
      /\ Sum(r, first) = Plus(Sum(q, first), Effect(buttons, e))
  BY <1>1, <1>2, <1>5, <1>6, <1>7, <1>8
<1>. QED  BY <1>9 DEF r, buttons

(* The first event of a queue is applied.                                  *)
LEMMA SumApplied ==
    ASSUME NEW q \in Seq(Events), NEW first \in SUBSET Buttons, q # << >>
    PROVE  /\ Effect(first, Head(q)) \in Tallies
           /\ Sum(Tail(q), Head(q).buttons) \in Tallies
           /\ Sum(q, first) = Plus(Effect(first, Head(q)), Sum(Tail(q), Head(q).buttons))
<1> DEFINE n == Len(q) - 1
           r == Tail(q)
           then == Head(q).buttons
           E == Effects(q, first)
           D == Effects(r, then)
<1>0. /\ n \in Nat /\ n + 1 = Len(q) /\ r \in Seq(Events) /\ Len(r) = n
      /\ \A i \in 1..n : r[i] = q[i + 1]
      /\ Head(q) = q[1] /\ Head(q) \in Events /\ then \in SUBSET Buttons
  <2>1. Len(q) \in Nat /\ Len(q) # 0
    BY LenProperties, EmptySeq
  <2>2. /\ Tail(q) \in Seq(Events) /\ Len(Tail(q)) = Len(q) - 1
        /\ \A i \in 1..(Len(q) - 1) : Tail(q)[i] = q[i + 1]
        /\ Head(q) \in Events
    BY <2>1, HeadTailProperties
  <2>. QED  BY <2>1, <2>2 DEF Events
<1>1. PICK f : Sums(f, n + 1, E) /\ Sum(q, first) = f[n + 1]
  BY <1>0, SumIsLast
<1>2. PICK g : Sums(g, n, D) /\ Sum(r, then) = g[n]
  <2> HIDE DEF r, then, n
  <2>. QED  BY <1>0, SumIsLast
<1>3. E \in [1..(n + 1) -> Tallies]
  BY <1>0, EffectsType
<1>4. E[1] = Effect(first, Head(q))
  BY <1>0 DEF Effects
<1>5. ASSUME NEW i \in 1..n PROVE D[i] = E[i + 1]
  <2>1. r[i] = q[i + 1] /\ (i # 1 => r[i - 1] = q[i])
    BY <1>0
  <2>2. (IF i = 1 THEN then ELSE r[i - 1].buttons) = q[i].buttons
    BY <1>0, <2>1
  <2>3. i + 1 \in 1..Len(q) /\ i + 1 # 1 /\ i + 1 - 1 = i
    BY <1>0
  <2>4. E[i + 1] = Effect(q[i].buttons, q[i + 1])
    BY <2>3 DEF Effects
  <2>5. D[i] = Effect(IF i = 1 THEN then ELSE r[i - 1].buttons, r[i])
    <3> HIDE DEF r, then, n
    <3>. QED  BY <1>0 DEF Effects
  <2>. QED  BY <2>1, <2>2, <2>4, <2>5
<1> HIDE DEF n, r, then, E, D
<1>6. f[n + 1] = Plus(E[1], g[n])
  BY <1>0, <1>1, <1>2, <1>3, <1>5, SumsShift
<1>7. E[1] \in Tallies /\ g[n] \in Tallies
  BY <1>0, <1>2, <1>3 DEF Sums, Adds
<1>. QED  BY <1>1, <1>2, <1>4, <1>6, <1>7 DEF r, then

----------------------------------------------------------------------------
(* The stack of handlers and the controllers.                              *)

(* A handler goes on to its next stage; those below it stay where they are.*)
LEMMA NextStage ==
    ASSUME frames \in Seq(Stages), frames # << >>, NEW stage \in Stages, GoTo(stage)
    PROVE  /\ frames' \in Seq(Stages) /\ Len(frames') = Len(frames)
           /\ Len(frames) \in Nat /\ Len(frames) >= 1
           /\ frames'[Len(frames)] = stage
           /\ \A i \in 1..(Len(frames) - 1) : frames'[i] = frames[i]
BY OthersStay, AppendProperties DEF GoTo, Front

(* The mouse's request.                                                    *)
LEMMA MouseRequest ==
    ASSUME NEW ps \in [Chips -> PicState]
    PROVE  LET q == pic_raise_irq(ps, IRQ)
           IN  /\ q \in [Chips -> PicState] /\ q["master"] = ps["master"]
               /\ IRQ - 8 \in q["slave"].irr
<1>1. IRQ % 8 = 4 /\ IRQ - 8 = 4 /\ ChipOf(IRQ) = "slave"
  BY DEF IRQ, ChipOf
<1>. QED  BY <1>1 DEF pic_raise_irq, Chips, PicState

(* The CPU takes an interrupt only when the master does not serve the      *)
(* cascade, which it does from then on.                                    *)
LEMMA CascadeTaken ==
    ASSUME TypeOK, OnlyCascade, pic_has_pending(pics)
    PROVE  /\ CascadeLine \notin pics["master"].isr
           /\ CascadeLine \in AckState(pics)["master"].isr
           /\ AckState(pics)["master"].irr \subseteq {CascadeLine}
           /\ ~AckState(pics)["master"].auto_eoi
<1> DEFINE q == update_cascade(pics)
           m == pic_highest(q["master"])
           s == pic_highest(q["slave"])
           r == [q EXCEPT !["slave"] = Accept(@, s),
                          !["master"].isr = IF q["master"].auto_eoi
                                            THEN @ ELSE @ \union {CascadeLine}]
<1>0. pics \in [Chips -> PicState]
  BY DEF TypeOK
<1>1. /\ q \in [Chips -> PicState] /\ q["slave"] = pics["slave"]
      /\ q["master"].isr = pics["master"].isr /\ ~q["master"].auto_eoi
      /\ q["master"].irr \subseteq {CascadeLine}
      /\ CascadeLine \in q["master"].irr <=> Deliverable(pics["slave"]) # {}
  BY <1>0, CascadeRefresh DEF OnlyCascade
<1>2. q["master"] \in PicState /\ q["slave"] \in PicState
  BY <1>1 DEF Chips
<1>3. m # NoLine
  BY DEF pic_has_pending
<1>4. m = CascadeLine /\ CascadeLine \notin pics["master"].isr
  <2>1. m \in Deliverable(q["master"])
    BY <1>2, <1>3, HighestLine
  <2>. QED  BY <1>1, <2>1 DEF Deliverable, CascadeLine
<1>5. s # NoLine
  <2>1. CascadeLine \in q["master"].irr
    BY <1>2, <1>3, <1>4, HighestLine DEF Deliverable
  <2>. QED  BY <1>1, <1>2, <2>1, HighestLine
<1>6. s \in 0..7
  BY <1>2, <1>5, HighestLine
<1>7. /\ r \in [Chips -> PicState] /\ ~r["master"].auto_eoi
      /\ CascadeLine \in r["master"].isr /\ r["master"].irr \subseteq {CascadeLine}
  <2>1. Accept(q["slave"], s) \in PicState
    BY <1>2, <1>6 DEF Accept, PicState
  <2>2. CascadeLine \in 0..7
    BY DEF CascadeLine
  <2>. QED  BY <1>1, <1>2, <2>1, <2>2 DEF Chips, PicState
<1>8. AckState(pics) = update_cascade(r)
  BY <1>3, <1>4, <1>5 DEF AckState
<1> HIDE DEF r
<1>9. /\ update_cascade(r)["master"].isr = r["master"].isr
      /\ update_cascade(r)["master"].auto_eoi = r["master"].auto_eoi
      /\ update_cascade(r)["master"].irr \subseteq {CascadeLine}
  BY <1>7, CascadeRefresh
<1>. QED  BY <1>4, <1>7, <1>8, <1>9

----------------------------------------------------------------------------
(* The inductive invariant, action by action.                              *)

LEMMA InitIInv == Init => IInv
<1> SUFFICES ASSUME Init PROVE IInv
  OBVIOUS
<1>1. pics \in [Chips -> PicState] /\ OnlyCascade
  BY Programmed DEF Init, PostPics, Chips, OnlyCascade
<1>2. Started \in DriverStates
  BY NothingType DEF Started, DriverStates
<1>3. Within(ms)
  BY <1>2, TextMode, ModeChangedWithin, DefaultsWithin DEF Init
<1>4. ms.buttons = {}
  <2>1. ModeChanged(Started, TextMax).buttons = Started.buttons /\ Within(ModeChanged(Started, TextMax))
    BY <1>2, TextMode, ModeChangedWithin
  <2>2. ms.buttons = ModeChanged(Started, TextMax).buttons
    BY <2>1, DefaultsWithin DEF Init
  <2>. QED  BY <2>1, <2>2 DEF Started
<1>5. mq = << >> /\ mq \in Seq(Events) /\ Len(mq) = 0 /\ frames = << >>
      /\ frames \in Seq(Stages) /\ Len(frames) = 0
  BY EmptySeq DEF Init
<1>6. TypeOK
  BY <1>1, <1>3, <1>5, NothingType, QueueAssumption, BoundsAssumption
     DEF Init, TypeOK, Within
<1>7. Remembered
  BY <1>4, <1>5 DEF Init, Remembered, LastQueued
<1>. QED
  BY <1>1, <1>3, <1>5, <1>6, <1>7 DEF IInv, InRange, Within, NoneStranded, Nesting, Served

(* An event that is queued is the last one, and has its request.           *)
LEMMA Queued ==
    ASSUME IInv, NEW dx \in Moves, NEW buttons \in SUBSET Buttons, HostEvent(dx, buttons)
    PROVE  /\ mq' \in Seq(Events) /\ Len(mq') <= MQ
           /\ pics' \in [Chips -> PicState] /\ pics'["master"] = pics["master"]
           /\ sent' \in [buttons : SUBSET Buttons, dropped : BOOLEAN] /\ total' \in Tallies
           /\ sent'.dropped \/ LastQueued' = sent'.buttons
           /\ \/ IRQ - 8 \in pics'["slave"].irr
              \/ mq' = mq /\ pics' = pics
<1> DEFINE e == [dx |-> dx, buttons |-> buttons]
<1>0. /\ pics \in [Chips -> PicState] /\ mq \in Seq(Events) /\ Len(mq) <= MQ
      /\ ms \in DriverStates /\ total \in Tallies /\ MQ \in Nat /\ Len(mq) \in Nat
  BY QueueAssumption, LenProperties DEF IInv, TypeOK
<1>1. e \in Events
  BY DEF Events
<1>2. CASE Len(mq) >= MQ
  <2>1. /\ sent' = [buttons |-> buttons, dropped |-> TRUE]
        /\ mq' = mq /\ pics' = pics /\ total' = total
    BY <1>2 DEF HostEvent
  <2>. QED  BY <1>0, <2>1
<1>3. CASE ~ Len(mq) >= MQ
  <2>1. /\ mq' = Append(mq, e) /\ pics' = pic_raise_irq(pics, IRQ)
        /\ sent' = [buttons |-> buttons, dropped |-> FALSE]
        /\ total' = Plus(total, Effect(LastQueued, e))
    BY <1>3 DEF HostEvent
  <2>2. /\ mq' \in Seq(Events) /\ mq' # << >> /\ Len(mq') = Len(mq) + 1
        /\ mq'[Len(mq')] = e
    BY <1>0, <1>1, <2>1, AppendProperties
  <2>3. LastQueued' = buttons
    BY <2>2 DEF LastQueued, Last
  <2>4. LastQueued \in SUBSET Buttons
    <3>1. CASE mq = << >>
      BY <1>0, <3>1 DEF LastQueued, DriverStates
    <3>2. CASE mq # << >>
      <4>1. mq[Len(mq)] \in Events
        BY <1>0, <3>2, LenProperties, ElementOfSeq
      <4>. QED  BY <3>2, <4>1 DEF LastQueued, Last, Events
    <3>. QED  BY <3>1, <3>2
  <2>5. total' \in Tallies
    BY <1>0, <1>1, <2>1, <2>4, PlusType, EffectType
  <2>6. /\ pics' \in [Chips -> PicState] /\ pics'["master"] = pics["master"]
        /\ IRQ - 8 \in pics'["slave"].irr
    BY <1>0, <2>1, MouseRequest
  <2>7. Len(mq') <= MQ
    BY <1>0, <1>3, <2>2
  <2>. QED  BY <2>1, <2>2, <2>3, <2>5, <2>6, <2>7
<1>. QED  BY <1>2, <1>3

(* The handler applies the oldest event: the state it leaves is within the *)
(* range, what the last event showed is remembered, and the events that    *)
(* are left have a request.                                                *)
LEMMA OneApplied ==
    ASSUME IInv, Hle
    PROVE  /\ \E stage \in {"handler", "eoi_slave"} : GoTo(stage)
           /\ mq' \in Seq(Events) /\ Len(mq') <= MQ /\ Within(ms')
           /\ pics' \in [Chips -> PicState] /\ pics'["master"] = pics["master"]
           /\ mq' # << >> => IRQ - 8 \in pics'["slave"].irr
           /\ LastQueued' = LastQueued
<1>0. /\ pics \in [Chips -> PicState] /\ mq \in Seq(Events) /\ Len(mq) <= MQ
      /\ Within(ms) /\ MQ \in Nat /\ Len(mq) \in Nat
  BY QueueAssumption, LenProperties DEF IInv, TypeOK, InRange, Within
<1>1. CASE mq = << >>
  BY <1>0, <1>1 DEF Hle, LastQueued
<1>2. CASE mq # << >>
  <2>1. /\ mq' = Tail(mq) /\ ms' = Applied(ms, Head(mq)) /\ pics' = Raised(pics, Tail(mq))
        /\ \E stage \in {"handler", "eoi_slave"} : GoTo(stage)
    BY <1>2 DEF Hle
  <2>2. /\ Head(mq) \in Events /\ Tail(mq) \in Seq(Events) /\ Len(Tail(mq)) = Len(mq) - 1
        /\ \A i \in 1..Len(Tail(mq)) : Tail(mq)[i] = mq[i + 1]
    BY <1>0, <1>2, HeadTailProperties
  <2>3. Within(ms') /\ ms'.buttons = Head(mq).buttons
    BY <1>0, <2>1, <2>2, AppliedWithin
  <2>4. /\ pics' \in [Chips -> PicState] /\ pics'["master"] = pics["master"]
        /\ Tail(mq) # << >> => IRQ - 8 \in pics'["slave"].irr
    BY <1>0, <2>1, MouseRequest DEF Raised
  <2>5. LastQueued' = LastQueued
    <3>1. LastQueued = mq[Len(mq)].buttons
      BY <1>2 DEF LastQueued, Last
    <3>2. CASE Tail(mq) = << >>
      <4>1. Len(mq) = 1
        <5>1. Len(Tail(mq)) = 0
          BY <3>2, EmptySeq
        <5>2. Len(mq) - 1 = 0
          BY <2>2, <5>1, Zenon
        <5>3. \A n \in Nat : n - 1 = 0 => n = 1
          OBVIOUS
        <5>. QED  BY <1>0, <5>2, <5>3, Zenon
      <4>2. Head(mq) = mq[1]
        BY <1>0, <1>2
      <4>3. LastQueued' = ms'.buttons
        BY <2>1, <3>2 DEF LastQueued
      <4>. QED  BY <2>3, <3>1, <4>1, <4>2, <4>3
    <3>3. CASE Tail(mq) # << >>
      <4>1. Len(mq) - 1 \in 1..Len(Tail(mq)) /\ Len(mq) - 1 + 1 = Len(mq)
        BY <1>0, <2>2, <3>3, LenProperties
      <4>2. Tail(mq)[Len(Tail(mq))] = mq[Len(mq)]
        BY <2>2, <4>1
      <4>3. LastQueued' = Tail(mq)[Len(Tail(mq))].buttons
        BY <2>1, <3>3 DEF LastQueued, Last
      <4>. QED  BY <3>1, <4>2, <4>3
    <3>. QED  BY <3>2, <3>3
  <2>6. Len(mq') <= MQ
    BY <1>0, <2>1, <2>2
  <2>. QED  BY <2>1, <2>2, <2>3, <2>4, <2>5, <2>6
<1>. QED  BY <1>1, <1>2

(* The stubs' other steps: what they do to the stack and the controllers.  *)
Quiet == UNCHANGED <<mq, ms, sent, total>>

LEMMA StubSteps ==
    ASSUME IInv, HandlerReturns \/ EoiSlave \/ EoiMaster
    PROVE  /\ Quiet /\ UNCHANGED <<told, count, iflag>>
           /\ frames # << >> /\ Top # "hle"
           /\ \E stage \in Stages \ {"hle", "handler"} :
                 /\ GoTo(stage)
                 /\ stage = "iret" \/ (pics'["master"].isr = pics["master"].isr /\ Top # "iret")
           /\ pics' \in [Chips -> PicState]
           /\ pics'["master"].irr = pics["master"].irr
           /\ pics'["master"].auto_eoi = pics["master"].auto_eoi
           /\ pics'["slave"].irr = pics["slave"].irr
<1>0. pics \in [Chips -> PicState] /\ \A c \in Chips : EoiNonSpecific(pics[c]) \in PicState
  BY EoiType DEF IInv, TypeOK
<1>1. \A c \in Chips : /\ EoiNonSpecific(pics[c]).irr = pics[c].irr
                       /\ EoiNonSpecific(pics[c]).auto_eoi = pics[c].auto_eoi
  BY <1>0 DEF EoiNonSpecific, PicState
<1>2. CASE HandlerReturns
  BY <1>0, <1>2 DEF HandlerReturns, At, Quiet, Stages
<1>3. CASE EoiSlave
  <2>1. pics' = [pics EXCEPT !["slave"] = EoiNonSpecific(pics["slave"])]
    BY <1>3 DEF EoiSlave
  <2>2. /\ pics' \in [Chips -> PicState] /\ pics'["master"] = pics["master"]
        /\ pics'["slave"].irr = pics["slave"].irr
    BY <1>0, <1>1, <2>1 DEF Chips
  <2>. QED  BY <1>3, <2>2 DEF EoiSlave, At, Quiet, Stages
<1>4. CASE EoiMaster
  <2>1. pics' = [pics EXCEPT !["master"] = EoiNonSpecific(pics["master"])]
    BY <1>4 DEF EoiMaster
  <2>2. /\ pics' \in [Chips -> PicState] /\ pics'["slave"] = pics["slave"]
        /\ pics'["master"].irr = pics["master"].irr
        /\ pics'["master"].auto_eoi = pics["master"].auto_eoi
    BY <1>0, <1>1, <2>1 DEF Chips
  <2>. QED  BY <1>4, <2>2 DEF EoiMaster, At, Quiet, Stages
<1>. QED  BY <1>2, <1>3, <1>4

(* The types.                                                              *)
LEMMA StepTypeOK == IInv /\ [Next]_vars => TypeOK'
<1> SUFFICES ASSUME IInv, [Next]_vars PROVE TypeOK'
  OBVIOUS
<1>0. TypeOK
  BY DEF IInv
<1>1. ASSUME NEW dx \in Moves, NEW buttons \in SUBSET Buttons, HostEvent(dx, buttons)
      PROVE  TypeOK'
  <2>1. count' \in [events : 0..MaxEvents, calls : 0..MaxCalls]
    BY <1>0, <1>1, BoundsAssumption DEF HostEvent, TypeOK
  <2>. QED  BY <1>0, <1>1, <2>1, Queued DEF HostEvent, TypeOK
<1>2. CASE Enter
  BY <1>0, <1>2, AckType, AppendProperties DEF Enter, TypeOK, Stages
<1>3. CASE Hle
  <2>1. frames' \in Seq(Stages)
    BY <1>0, <1>3, OneApplied, NextStage DEF Hle, At, TypeOK, Stages
  <2>. QED  BY <1>0, <1>3, <2>1, OneApplied DEF Hle, TypeOK, Within
<1>4. CASE HandlerReturns \/ EoiSlave \/ EoiMaster
  BY <1>0, <1>4, StubSteps, NextStage DEF TypeOK, Quiet
<1>5. CASE HandlerSti
  BY <1>0, <1>5 DEF HandlerSti, TypeOK
<1>6. CASE Iret
  BY <1>0, <1>6, OthersStay DEF Iret, At, Front, TypeOK
<1>7. CASE Program
  <2>1. PICK m, heard : Calls(m, heard) /\ Within(m) /\ heard \in Tallies
    BY <1>0, <1>7, ProgramCalls DEF IInv, Answers
  <2>2. told' \in Tallies
    BY <1>0, <2>1, PlusType DEF Calls, TypeOK
  <2>3. count' \in [events : 0..MaxEvents, calls : 0..MaxCalls]
    BY <1>0, <2>1, BoundsAssumption DEF Calls, TypeOK
  <2>. QED  BY <1>0, <2>1, <2>2, <2>3 DEF Calls, TypeOK, Within
<1>8. CASE UNCHANGED vars
  BY <1>0, <1>8 DEF vars, TypeOK
<1>. QED  BY <1>1, <1>2, <1>3, <1>4, <1>5, <1>6, <1>7, <1>8 DEF Next, Stub

(* The position, and what the program sees once the queue is empty.        *)
LEMMA StepSeen == IInv /\ [Next]_vars => InRange' /\ Remembered'
<1> SUFFICES ASSUME IInv, [Next]_vars PROVE InRange' /\ Remembered'
  OBVIOUS
<1>0. InRange /\ Remembered /\ TypeOK
  BY DEF IInv
<1>1. CASE UNCHANGED <<ms, mq, sent>>
  BY <1>0, <1>1 DEF InRange, Remembered, LastQueued
<1>2. ASSUME NEW dx \in Moves, NEW buttons \in SUBSET Buttons, HostEvent(dx, buttons)
      PROVE  InRange' /\ Remembered'
  BY <1>0, <1>2, Queued DEF HostEvent, InRange, Remembered
<1>3. CASE Hle
  BY <1>0, <1>3, OneApplied DEF Hle, InRange, Remembered, Within
<1>4. CASE Program
  <2>1. PICK m, heard : Calls(m, heard) /\ Within(m) /\ m.buttons = ms.buttons
    BY <1>0, <1>4, ProgramCalls DEF Answers
  <2>2. ms' = m /\ mq' = mq /\ sent' = sent
    BY <2>1 DEF Calls
  <2>. QED  BY <1>0, <2>1, <2>2 DEF InRange, Remembered, LastQueued, Within
<1>. QED
  BY <1>1, <1>2, <1>3, <1>4
     DEF Next, Stub, vars, Enter, HandlerReturns, EoiSlave, EoiMaster, Iret, HandlerSti

(* What is told, what is kept and what is to come make up what was sent.   *)
LEMMA StepCounted == IInv /\ EachCountedOnce /\ [Next]_vars => EachCountedOnce'
<1> SUFFICES ASSUME IInv, EachCountedOnce, [Next]_vars PROVE EachCountedOnce'
  OBVIOUS
<1>0. /\ TypeOK /\ mq \in Seq(Events)
      /\ told \in Tallies /\ total \in Tallies /\ ms.tally \in Tallies
      /\ ms.buttons \in SUBSET Buttons /\ Plus(told, ms.tally) \in Tallies
  BY PlusType DEF IInv, TypeOK, DriverStates
<1>1. Coming = Sum(mq, ms.buttons) /\ Coming' = Sum(mq', ms'.buttons)
  BY DEF Coming, Sum
<1>2. CASE UNCHANGED <<ms, mq, told, total>>
  BY <1>1, <1>2 DEF EachCountedOnce
<1>3. ASSUME NEW dx \in Moves, NEW buttons \in SUBSET Buttons, HostEvent(dx, buttons)
      PROVE  EachCountedOnce'
  <2> DEFINE e == [dx |-> dx, buttons |-> buttons]
  <2>1. CASE Len(mq) >= MQ
    BY <1>2, <1>3, <2>1 DEF HostEvent
  <2>2. CASE ~ Len(mq) >= MQ
    <3>1. /\ mq' = Append(mq, e) /\ ms' = ms /\ told' = told /\ e \in Events
          /\ total' = Plus(total, Effect(LastQueued, e))
      BY <1>3, <2>2 DEF HostEvent, Events
    <3> HIDE DEF e
    <3>2. /\ Coming' = Plus(Coming, Effect(LastQueued, e))
          /\ Coming \in Tallies /\ Effect(LastQueued, e) \in Tallies
      BY <1>0, <1>1, <3>1, SumAppended DEF LastQueued
    <3>3. Plus(Plus(told, ms.tally), Plus(Coming, Effect(LastQueued, e)))
             = Plus(Plus(Plus(told, ms.tally), Coming), Effect(LastQueued, e))
      BY <1>0, <3>2, PlusLaws
    <3>. QED  BY <3>1, <3>2, <3>3 DEF EachCountedOnce
  <2>. QED  BY <2>1, <2>2
<1>4. CASE Hle
  <2>1. CASE mq = << >>
    BY <1>2, <1>4, <2>1 DEF Hle
  <2>2. CASE mq # << >>
    <3> DEFINE first == Effect(ms.buttons, Head(mq))
    <3>1. mq' = Tail(mq) /\ ms' = Applied(ms, Head(mq)) /\ told' = told /\ total' = total
      BY <1>4, <2>2 DEF Hle
    <3>2. Head(mq) \in Events
      BY <1>0, <2>2, HeadTailProperties
    <3>3. ms'.tally = Plus(ms.tally, first) /\ ms'.buttons = Head(mq).buttons
      BY <3>1, <3>2, AppliedWithin DEF IInv, TypeOK, InRange, Within
    <3>4. first \in Tallies /\ Coming' \in Tallies /\ Coming = Plus(first, Coming')
      BY <1>0, <1>1, <2>2, <3>1, <3>3, SumApplied
    <3> HIDE DEF first
    <3>5. Plus(told, Plus(ms.tally, first)) = Plus(Plus(told, ms.tally), first)
      BY <1>0, <3>4, PlusLaws
    <3>6. Plus(Plus(Plus(told, ms.tally), first), Coming')
             = Plus(Plus(told, ms.tally), Plus(first, Coming'))
      BY <1>0, <3>4, PlusLaws
    <3>. QED  BY <3>1, <3>3, <3>4, <3>5, <3>6 DEF EachCountedOnce
  <2>. QED  BY <2>1, <2>2
<1>5. CASE Program
  <2>1. PICK m, heard : Calls(m, heard) /\ Answers(m, heard)
    BY <1>5, ProgramCalls DEF IInv
  <2>2. ms' = m /\ told' = Plus(told, heard) /\ mq' = mq /\ total' = total
    BY <2>1 DEF Calls
  <2>3. /\ heard \in Tallies /\ m.tally \in Tallies /\ m.buttons = ms.buttons
        /\ Plus(heard, m.tally) = ms.tally
    BY <2>1 DEF Answers, Within, DriverStates
  <2>4. Plus(Plus(told, heard), m.tally) = Plus(told, ms.tally)
    BY <1>0, <2>3, PlusLaws
  <2>5. Coming' = Coming
    BY <1>1, <2>2, <2>3
  <2>. QED  BY <2>2, <2>4, <2>5 DEF EachCountedOnce
<1>. QED
  BY <1>2, <1>3, <1>4, <1>5
     DEF Next, Stub, vars, Enter, HandlerReturns, EoiSlave, EoiMaster, Iret, HandlerSti

(* A waiting event keeps its request, or the handler that will look at the *)
(* queue.                                                                  *)
LEMMA StepNoneStranded == IInv /\ [Next]_vars => NoneStranded'
<1> SUFFICES ASSUME IInv, [Next]_vars, mq' # << >>
             PROVE  \/ IRQ - 8 \in pics'["slave"].irr
                    \/ \E i \in DOMAIN frames' : frames'[i] = "hle"
  BY DEF NoneStranded
<1> DEFINE Waits == \/ IRQ - 8 \in pics'["slave"].irr
                    \/ \E i \in DOMAIN frames' : frames'[i] = "hle"
<1>0. /\ TypeOK /\ NoneStranded
      /\ frames \in Seq(Stages) /\ Len(frames) \in Nat /\ DOMAIN frames = 1..Len(frames)
  BY LenProperties DEF IInv, TypeOK
<1>1. CASE mq' = mq /\ pics' = pics /\ frames' = frames
  BY <1>0, <1>1 DEF NoneStranded
<1>2. ASSUME NEW dx \in Moves, NEW buttons \in SUBSET Buttons, HostEvent(dx, buttons)
      PROVE  Waits
  <2>1. frames' = frames
    BY <1>2 DEF HostEvent
  <2>. QED  BY <1>1, <1>2, <2>1, Queued
<1>3. CASE Enter
  <2>1. frames' = Append(frames, "hle") /\ "hle" \in Stages
    BY <1>3 DEF Enter, Stages
  <2>2. Len(frames') = Len(frames) + 1 /\ frames'[Len(frames) + 1] = "hle"
        /\ frames' \in Seq(Stages)
    BY <1>0, <2>1, AppendProperties
  <2>3. DOMAIN frames' = 1..(Len(frames) + 1)
    BY <2>2, LenProperties
  <2>. QED  BY <1>0, <2>2, <2>3
<1>4. CASE Hle
  BY <1>4, OneApplied
<1>5. ASSUME frames # << >>, Top # "hle", mq' = mq, pics'["slave"].irr = pics["slave"].irr,
             frames' \in Seq(Stages), Len(frames') >= Len(frames) - 1, Len(frames') \in Nat,
             \A i \in 1..(Len(frames) - 1) : frames'[i] = frames[i]
      PROVE  Waits
  <2>1. CASE IRQ - 8 \in pics["slave"].irr
    BY <1>5, <2>1
  <2>2. ASSUME NEW i \in DOMAIN frames, frames[i] = "hle"
        PROVE  Waits
    <3>1. i \in 1..(Len(frames) - 1)
      BY <1>0, <1>5, <2>2 DEF Top, Last
    <3>2. DOMAIN frames' = 1..Len(frames')
      BY <1>5, LenProperties
    <3>. QED  BY <1>0, <1>5, <2>2, <3>1, <3>2
  <2>. QED  BY <1>0, <1>5, <2>1, <2>2 DEF NoneStranded
<1>6. CASE HandlerReturns \/ EoiSlave \/ EoiMaster
  <2>1. PICK stage \in Stages : GoTo(stage)
    BY <1>6, StubSteps
  <2>2. /\ frames # << >> /\ Top # "hle" /\ mq' = mq
        /\ pics'["slave"].irr = pics["slave"].irr
    BY <1>6, StubSteps DEF Quiet
  <2>3. /\ frames' \in Seq(Stages) /\ Len(frames') = Len(frames)
        /\ \A i \in 1..(Len(frames) - 1) : frames'[i] = frames[i]
    BY <1>0, <2>1, <2>2, NextStage
  <2>. QED  BY <1>0, <1>5, <2>2, <2>3
<1>7. CASE Iret
  <2>1. /\ frames # << >> /\ Top # "hle" /\ mq' = mq /\ pics' = pics
        /\ frames' = Front(frames)
    BY <1>7 DEF Iret, At
  <2>2. /\ frames' \in Seq(Stages) /\ Len(frames') = Len(frames) - 1 /\ Len(frames) >= 1
        /\ \A i \in 1..(Len(frames) - 1) : frames'[i] = frames[i]
    BY <1>0, <2>1, OthersStay DEF Front
  <2>3. Len(frames') \in Nat /\ Len(frames') >= Len(frames) - 1
    BY <1>0, <2>2
  <2>. QED  BY <1>5, <2>1, <2>2, <2>3
<1>8. CASE Program
  <2>1. mq' = mq /\ pics' = pics /\ frames' = frames
    <3>1. PICK m, heard : Calls(m, heard)
      BY <1>8, ProgramCalls DEF IInv
    <3>. QED  BY <3>1 DEF Calls
  <2>. QED  BY <1>1, <2>1
<1>9. CASE HandlerSti \/ UNCHANGED vars
  BY <1>1, <1>9 DEF HandlerSti, vars
<1>. QED  BY <1>2, <1>3, <1>4, <1>6, <1>7, <1>8, <1>9 DEF Next, Stub

(* The stack of handlers and the master agree.                             *)
LEMMA StepStack == IInv /\ [Next]_vars => Nesting' /\ Served' /\ OnlyCascade'
<1> SUFFICES ASSUME IInv, [Next]_vars PROVE Nesting' /\ Served' /\ OnlyCascade'
  OBVIOUS
<1>0. /\ Nesting /\ Served /\ OnlyCascade /\ TypeOK
      /\ frames \in Seq(Stages) /\ Len(frames) \in Nat
  BY LenProperties DEF IInv, TypeOK
<1>1. CASE frames' = frames /\ pics'["master"] = pics["master"]
  BY <1>0, <1>1 DEF Nesting, Served, OnlyCascade, Top, Last
<1>2. ASSUME NEW dx \in Moves, NEW buttons \in SUBSET Buttons, HostEvent(dx, buttons)
      PROVE  Nesting' /\ Served' /\ OnlyCascade'
  BY <1>1, <1>2, Queued DEF HostEvent
<1>3. CASE Enter
  <2>1. /\ frames' = Append(frames, "hle") /\ "hle" \in Stages
        /\ pics' = AckState(pics) /\ pic_has_pending(pics)
    BY <1>3 DEF Enter, Stages
  <2>2. CascadeLine \notin pics["master"].isr
    BY <1>0, <2>1, CascadeTaken
  <2>3. OnlyCascade' /\ Served'
    BY <1>0, <2>1, CascadeTaken DEF OnlyCascade, Served
  <2>4. /\ Len(frames') = Len(frames) + 1
        /\ \A i \in 1..Len(frames) : frames'[i] = frames[i]
    BY <1>0, <2>1, AppendProperties
  <2>5. \A i \in 1..Len(frames) : frames[i] = "iret"
    <3>1. frames = << >> \/ frames[Len(frames)] = "iret"
      BY <1>0, <2>2 DEF Served, Top, Last
    <3>2. frames = << >> => Len(frames) = 0
      BY EmptySeq
    <3>. QED  BY <1>0, <3>1, <3>2 DEF Nesting
  <2>6. Nesting'
    BY <1>0, <2>4, <2>5 DEF Nesting
  <2>. QED  BY <2>3, <2>6
<1>4. ASSUME frames # << >>, NEW stage \in Stages, GoTo(stage)
      PROVE  Nesting' /\ frames' # << >> /\ Top' = stage
  <2>1. /\ frames' \in Seq(Stages) /\ Len(frames') = Len(frames) /\ Len(frames) >= 1
        /\ frames'[Len(frames)] = stage
        /\ \A i \in 1..(Len(frames) - 1) : frames'[i] = frames[i]
    BY <1>0, <1>4, NextStage
  <2>2. frames' # << >>
    BY <2>1, EmptySeq
  <2>. QED  BY <1>0, <2>1, <2>2 DEF Nesting, Top, Last
<1>5. CASE Hle
  <2>1. PICK stage \in {"handler", "eoi_slave"} : GoTo(stage)
    BY <1>5, OneApplied
  <2>2. frames # << >> /\ Top = "hle" /\ pics'["master"] = pics["master"]
    BY <1>5, OneApplied DEF Hle, At
  <2>3. Nesting'
    BY <1>4, <2>1, <2>2 DEF Stages
  <2>. QED  BY <1>0, <2>2, <2>3 DEF Served, OnlyCascade
<1>6. CASE HandlerReturns \/ EoiSlave \/ EoiMaster
  <2>1. PICK stage \in Stages :
               /\ GoTo(stage)
               /\ stage = "iret" \/ (pics'["master"].isr = pics["master"].isr /\ Top # "iret")
    BY <1>6, StubSteps
  <2>2. /\ frames # << >> /\ pics'["master"].irr = pics["master"].irr
        /\ pics'["master"].auto_eoi = pics["master"].auto_eoi
    BY <1>6, StubSteps
  <2>3. Nesting' /\ frames' # << >> /\ Top' = stage
    BY <1>4, <2>1, <2>2
  <2>4. Served'
    BY <1>0, <2>1, <2>2, <2>3 DEF Served
  <2>. QED  BY <1>0, <2>2, <2>3, <2>4 DEF OnlyCascade
<1>7. CASE Iret
  <2>1. frames # << >> /\ frames' = Front(frames) /\ pics' = pics
    BY <1>7 DEF Iret, At
  <2>2. /\ frames' \in Seq(Stages) /\ Len(frames') = Len(frames) - 1 /\ Len(frames) >= 1
        /\ \A i \in 1..(Len(frames) - 1) : frames'[i] = frames[i]
    BY <1>0, <2>1, OthersStay DEF Front
  <2>3. \A i \in 1..Len(frames') : frames'[i] = "iret"
    BY <1>0, <2>2 DEF Nesting
  <2>4. Nesting'
    BY <1>0, <2>2, <2>3 DEF Nesting
  <2>5. frames' # << >> => Top' = "iret"
    <3>1. frames' # << >> => Len(frames') \in 1..Len(frames')
      BY <2>2, LenProperties
    <3>. QED  BY <2>3, <3>1 DEF Top, Last
  <2>. QED  BY <1>0, <2>1, <2>4, <2>5 DEF Served, OnlyCascade
<1>8. CASE Program
  <2>1. PICK m, heard : Calls(m, heard)
    BY <1>8, ProgramCalls DEF IInv
  <2>. QED  BY <1>1, <2>1 DEF Calls
<1>9. CASE HandlerSti \/ UNCHANGED vars
  BY <1>1, <1>9 DEF HandlerSti, vars
<1>. QED  BY <1>2, <1>3, <1>5, <1>6, <1>7, <1>8, <1>9 DEF Next, Stub

----------------------------------------------------------------------------
LEMMA Invariant == Spec => []IInv
<1>1. IInv /\ [Next]_vars => IInv'
  BY StepTypeOK, StepSeen, StepNoneStranded, StepStack DEF IInv
<1>. QED  BY <1>1, InitIInv, PTL DEF Spec

(* Driver, queue, stub and controllers agree: the types, the position is   *)
(* within its range (mouse_set_xrange, reset, mode changes), an event that *)
(* arrives while mouse_hle_irq runs has an interrupt to come, and the      *)
(* program's handler is not entered again before it returned.              *)
THEOREM DriverConsistent == Spec => []Consistent
<1>1. IInv => Consistent
  <2> SUFFICES ASSUME IInv PROVE HandlerNotReentered
    BY DEF IInv, Consistent
  <2>1. frames \in Seq(Stages) /\ Len(frames) \in Nat /\ DOMAIN frames = 1..Len(frames)
    BY LenProperties DEF IInv, TypeOK
  <2>. QED  BY <2>1 DEF IInv, Nesting, HandlerNotReentered
<1>. QED  BY <1>1, Invariant, PTL

(* With the queue empty the buttons are those that the host sent last,     *)
(* unless mouse_host_event dropped that event.                             *)
THEOREM NoStuckButton == Spec => []StuckOnlyIfDropped
<1>1. IInv => StuckOnlyIfDropped
  BY DEF IInv, Remembered, LastQueued, StuckOnlyIfDropped
<1>. QED  BY <1>1, Invariant, PTL

(* Each press, release and mickey of the events that mouse_host_event      *)
(* queued is told to the program once: through INT 33h's counts, which are *)
(* zero after they are asked for, and its resets.                          *)
THEOREM CountedOnce == Spec => []EachCountedOnce
<1>1. Init => EachCountedOnce
  <2> SUFFICES ASSUME Init PROVE EachCountedOnce
    OBVIOUS
  <2>1. /\ mq \in Seq(Events) /\ Len(mq) = 0 /\ ms.buttons \in SUBSET Buttons
        /\ told = Nothing /\ total = Nothing
    BY InitIInv, EmptySeq DEF IInv, TypeOK, DriverStates, Init
  <2>2. Coming = Nothing
    <3>1. PICK f : Sums(f, 0, Effects(mq, ms.buttons)) /\ Sum(mq, ms.buttons) = f[0]
      BY <2>1, SumIsLast
    <3>2. Coming = Sum(mq, ms.buttons)
      BY DEF Coming, Sum
    <3>. QED  BY <3>1, <3>2 DEF Sums, Adds
  <2>3. ms.tally = Nothing
    <3>1. Within(ModeChanged(Started, TextMax))
      BY NothingType, TextMode, ModeChangedWithin DEF Started, DriverStates
    <3>. QED  BY <3>1, DefaultsWithin DEF Init
  <2>. QED  BY <2>1, <2>2, <2>3, NothingType, PlusLaws DEF EachCountedOnce
<1>2. IInv /\ EachCountedOnce /\ [Next]_vars => EachCountedOnce'
  BY StepCounted
<1>. QED  BY <1>1, <1>2, Invariant, PTL DEF Spec
=============================================================================
