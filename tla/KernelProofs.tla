---------------------------- MODULE KernelProofs ----------------------------
(***************************************************************************)
(* Proofs about the kernel's modules, which share no state: KernelClock    *)
(* for every length of the day, TimeUnits for every word length and every  *)
(* set of frequencies, DeviceInit for every list of init entries, every    *)
(* set of results and any number of resets, and Pmp for every number of    *)
(* entries and every size of memory.                                       *)
(***************************************************************************)
EXTENDS KernelClock, TimeUnits, DeviceInit, Pmp, SequenceLemmas

-----------------------------------------------------------------------------
(* Division and remainder.                                                 *)

LEMMA DivIs ==
  ASSUME NEW a \in Nat, NEW b \in Nat \ {0}
  PROVE  /\ a \div b \in Nat
         /\ b * (a \div b) =< a /\ a < b * (a \div b) + b
OBVIOUS

LEMMA ModIs ==
  ASSUME NEW a \in Nat, NEW b \in Nat \ {0}
  PROVE  a % b \in 0 .. b - 1 /\ a = b * (a \div b) + (a % b)
OBVIOUS

LEMMA MulLe ==
  ASSUME NEW a \in Int, NEW b \in Int, NEW c \in Nat, a =< b
  PROVE  c * a =< c * b
OBVIOUS

-----------------------------------------------------------------------------
(* The busy wait.                                                          *)

\* What the conversion of k_busy_wait rounds off, and what it is bounded by.
LEMMA CyclesAre ==
  /\ CyclesOf(0) = 0 /\ MaxGap < Day
  /\ \A u \in 0 .. MaxUsec :
       /\ CyclesOf(u) \in Nat /\ CyclesOf(u) + MaxGap < Day
       /\ UsecPerSec * CyclesOf(u) <= u * CyclesPerSec
       /\ u * CyclesPerSec < UsecPerSec * CyclesOf(u) + UsecPerSec
<1> USE RtcAssumption, WaitAssumption
<1>1. ASSUME NEW u \in Nat
      PROVE  /\ u * CyclesPerSec \in Nat /\ CyclesOf(u) \in Nat
             /\ UsecPerSec * CyclesOf(u) <= u * CyclesPerSec
             /\ u * CyclesPerSec < UsecPerSec * CyclesOf(u) + UsecPerSec
  <2>1. u * CyclesPerSec \in Nat
    OBVIOUS
  <2>2. QED BY <2>1, DivIs DEF CyclesOf
<1>2. CyclesOf(0) = 0
  BY DEF CyclesOf
<1>3. ASSUME NEW u \in 0 .. MaxUsec
      PROVE  CyclesOf(u) <= CyclesOf(MaxUsec)
  <2>1. PICK c \in Nat : c = CyclesOf(u)
    BY <1>1
  <2>2. PICK m \in Nat : m = CyclesOf(MaxUsec)
    BY <1>1
  <2>3. u * CyclesPerSec <= MaxUsec * CyclesPerSec
    BY MulLe
  <2>4. UsecPerSec * c < UsecPerSec * m + UsecPerSec
    <3>1. PICK x \in Nat : x = u * CyclesPerSec
      BY <1>1
    <3>2. PICK y \in Nat : y = MaxUsec * CyclesPerSec
      BY <1>1
    <3>3. UsecPerSec * c <= x /\ y < UsecPerSec * m + UsecPerSec
      BY <1>1, <2>1, <2>2, <3>1, <3>2
    <3>4. UsecPerSec * c \in Nat /\ UsecPerSec * m \in Nat
      OBVIOUS
    <3>5. QED BY <2>3, <3>1, <3>2, <3>3, <3>4
  <2>5. ~(m + 1 <= c)
    <3> SUFFICES ASSUME m + 1 <= c PROVE FALSE
      OBVIOUS
    <3>1. UsecPerSec * (m + 1) <= UsecPerSec * c
      BY MulLe
    <3>2. UsecPerSec * (m + 1) = UsecPerSec * m + UsecPerSec
      OBVIOUS
    <3>3. UsecPerSec * c \in Nat /\ UsecPerSec * m \in Nat
      OBVIOUS
    <3>4. QED BY <2>4, <3>1, <3>2, <3>3
  <2>6. QED BY <2>1, <2>2, <2>5
<1>4. CyclesOf(MaxUsec) \in Nat
  BY <1>1
<1>5. MaxGap < Day
  BY <1>4
<1>6. ASSUME NEW u \in 0 .. MaxUsec
      PROVE  /\ CyclesOf(u) \in Nat /\ CyclesOf(u) + MaxGap < Day
             /\ UsecPerSec * CyclesOf(u) <= u * CyclesPerSec
             /\ u * CyclesPerSec < UsecPerSec * CyclesOf(u) + UsecPerSec
  <2>1. u \in Nat
    OBVIOUS
  <2>2. CyclesOf(u) + MaxGap < Day
    BY <1>1, <1>3, <1>4, <2>1
  <2>3. QED BY <1>1, <2>1, <2>2
<1>7. QED
  BY <1>2, <1>5, <1>6, Zenon

\* The initial state: nobody waits, the counter and last_count are 0.
LEMMA WaitInit == Init => WaitInv
<1> SUFFICES ASSUME Init PROVE WaitInv
  OBVIOUS
<1> USE RtcAssumption, WaitAssumption
<1>0. CyclesOf(0) = 0 /\ MaxGap < Day
  BY CyclesAre
<1>1. /\ pending \in BOOLEAN /\ waiting \in BOOLEAN /\ crossed \in BOOLEAN
      /\ newday \in BOOLEAN /\ ~waiting
  BY Zenon DEF Init, RtcInit
<1> QED
  BY <1>0, <1>1 DEF Init, RtcInit, WaitInv, TypeOK, RtcTypeOK, Cnt, WaitCycles

\* Every step of the wait, the alarm, its handler and the clock.
LEMMA WaitStep == WaitInv /\ [Next]_vars => WaitInv'
<1> SUFFICES ASSUME WaitInv, [Next]_vars PROVE WaitInv'
  OBVIOUS
<1> USE RtcAssumption, WaitAssumption
<1>1. ASSUME NEW u \in 0 .. MaxUsec, k_busy_wait(u) PROVE WaitInv'
  <2>0. CyclesOf(u) \in Nat /\ CyclesOf(u) + MaxGap < Day
    BY CyclesAre
  <2>1. waiting' /\ ~crossed' /\ waiting' \in BOOLEAN /\ crossed' \in BOOLEAN
    BY <1>1, Zenon DEF k_busy_wait
  <2> QED
    BY <1>1, <2>0, <2>1 DEF k_busy_wait, WaitInv, TypeOK, RtcTypeOK, Cnt,
                      WaitCycles, rtcVars
<1>2. CASE Poll
  <2>1. waiting => TimeIsUp \/ waited < cycles_to_wait
    BY DEF WaitInv, TypeOK, RtcTypeOK, Cnt, TimeIsUp, Sub32, WaitCycles
  <2>2. ~crossed /\ waiting /\ TimeIsUp => waited >= cycles_to_wait
    BY DEF WaitInv, TypeOK, RtcTypeOK, Cnt, TimeIsUp, Sub32
  <2>3. waiting' \in BOOLEAN
    BY <1>2, Zenon DEF Poll
  <2>4. (waiting' <=> ~TimeIsUp) /\ waiting
    BY <1>2, Zenon DEF Poll
  <2> QED
    BY <1>2, <2>1, <2>2, <2>3, <2>4
       DEF Poll, WaitInv, TypeOK, RtcTypeOK, Cnt, WaitCycles, rtcVars
<1>3. ASSUME NEW t \in 0 .. Word - 1, SetAlarm(t) PROVE WaitInv'
  BY <1>3 DEF SetAlarm, sys_clock_set_ticks, TrigValue, WaitInv, TypeOK,
              RtcTypeOK, Cnt, WaitCycles, waitVars
<1>4. CASE Isr
  <2>1. pending' \in BOOLEAN /\ newday' \in BOOLEAN
    BY <1>4, Zenon DEF Isr, RTC_IRQHandler
  <2> QED
    BY <1>4, <2>1 DEF Isr, RTC_IRQHandler, WaitInv, TypeOK, RtcTypeOK, Cnt,
                      WaitCycles, waitVars
<1>5. CASE Tick
  <2>1. cnt' = NextCnt /\ UNCHANGED <<trig, last_count>>
    BY <1>5 DEF Tick, RtcTick
  <2>2. pending' \in BOOLEAN
    BY <1>5, Zenon DEF Tick, RtcTick
  <2>3. newday' \in BOOLEAN /\ (newday' <=> newday \/ cnt' = 0)
    BY <1>5, Zenon DEF Tick
  <2>4. crossed' \in BOOLEAN
        /\ (crossed' <=> crossed \/ (waiting /\ cnt' = 0))
    <3>1. CASE waiting
      BY <1>5, <3>1, Zenon DEF Tick
    <3>2. CASE ~waiting
      BY <1>5, <3>2, Zenon DEF Tick, WaitInv, TypeOK
    <3> QED
      BY <3>1, <3>2
  <2>5. ~newday' => cnt' = last_count' + since' /\ since' < Day
    BY <1>5, <2>1, <2>3
       DEF Tick, NextCnt, WaitInv, TypeOK, RtcTypeOK, Cnt
  <2>6. CASE waiting
    <3>1. /\ gap < MaxGap /\ gap' = gap + 1 /\ UNCHANGED waiting
          /\ UNCHANGED <<start_cycles, cycles_to_wait, usec_to_wait>>
      BY <1>5, <2>6 DEF Tick
    <3>2. waited' = waited + 1
      BY <1>5, <2>6 DEF Tick, WaitInv, TypeOK, WaitCycles
    <3>3. waited' <= cycles_to_wait' + gap'
      BY <2>6, <3>1, <3>2 DEF WaitInv, TypeOK
    <3>4. WaitCycles'
      BY <2>6, <3>1, <3>2, <3>3 DEF WaitInv, TypeOK, WaitCycles
    <3>5. ~crossed' => cnt' = start_cycles' + waited'
      BY <2>1, <2>4, <2>6, <3>1, <3>2
         DEF NextCnt, WaitInv, TypeOK, RtcTypeOK, Cnt
    <3>6. crossed' => cnt' + Day = start_cycles' + waited'
      BY <2>1, <2>4, <2>6, <3>1, <3>2
         DEF NextCnt, WaitInv, TypeOK, RtcTypeOK, Cnt, WaitCycles
    <3> QED
      BY <1>5, <2>1, <2>2, <2>3, <2>4, <2>5, <3>1, <3>2, <3>3, <3>4, <3>5,
         <3>6
         DEF Tick, NextCnt, WaitInv, TypeOK, RtcTypeOK, Cnt, WaitCycles
  <2>7. CASE ~waiting
    BY <1>5, <2>1, <2>2, <2>3, <2>4, <2>5, <2>7
       DEF Tick, NextCnt, WaitInv, TypeOK, RtcTypeOK, Cnt, WaitCycles
  <2> QED
    BY <2>6, <2>7
<1>6. CASE UNCHANGED vars
  BY <1>6 DEF vars, rtcVars, waitVars, WaitInv, TypeOK, RtcTypeOK, Cnt,
              WaitCycles
<1> QED
  BY <1>1, <1>2, <1>3, <1>4, <1>5, <1>6 DEF Next

\* From cycles to microseconds.
LEMMA CyclesInTime == WaitInv => WaitInTime
<1> SUFFICES ASSUME WaitInv PROVE WaitInTime
  OBVIOUS
<1>1. PICK w, c, u : w = waited /\ c = cycles_to_wait /\ u = usec_to_wait
  OBVIOUS
<1>2. w \in Nat /\ c \in Nat /\ u \in 0 .. MaxUsec
  BY <1>1, RtcAssumption DEF WaitInv, TypeOK
<1>3. c = CyclesOf(u)
  BY <1>1 DEF WaitInv
<1>4. UsecPerSec \in Nat /\ CyclesPerSec \in Nat /\ MaxGap \in Nat /\ MaxUsec \in Nat
  BY WaitAssumption
<1>5. PICK x \in Nat : x = u * CyclesPerSec
  BY <1>2, <1>4
<1>6. UsecPerSec * c <= x /\ x < UsecPerSec * c + UsecPerSec
  BY <1>2, <1>3, <1>5, CyclesAre
<1>7. ASSUME w >= c PROVE (w + 1) * UsecPerSec > x
  <2>1. UsecPerSec * c <= UsecPerSec * w
    BY <1>2, <1>4, <1>7, MulLe
  <2>2. (w + 1) * UsecPerSec = UsecPerSec * w + UsecPerSec
    BY <1>2, <1>4
  <2>3. UsecPerSec * c \in Nat /\ UsecPerSec * w \in Nat
    BY <1>2, <1>4
  <2>4. QED BY <1>4, <1>5, <1>6, <2>1, <2>2, <2>3
<1>8. ASSUME w <= c + MaxGap PROVE w * UsecPerSec <= x + MaxGap * UsecPerSec
  <2>1. UsecPerSec * w <= UsecPerSec * (c + MaxGap)
    BY <1>2, <1>4, <1>8, MulLe
  <2>2. UsecPerSec * (c + MaxGap) = UsecPerSec * c + MaxGap * UsecPerSec
    BY <1>2, <1>4
  <2>3. UsecPerSec * c \in Nat /\ w * UsecPerSec = UsecPerSec * w
        /\ UsecPerSec * w \in Nat /\ MaxGap * UsecPerSec \in Nat
    BY <1>2, <1>4
  <2>4. QED BY <1>5, <1>6, <2>1, <2>2, <2>3
<1>9. QED
  BY <1>1, <1>5, <1>7, <1>8 DEF WaitInv, WaitCycles, WaitInTime

(***************************************************************************)
(* For every length of the day and every clock rate: a busy wait           *)
(* (kernel/timeout.c:12-39) within one day is short of the microseconds    *)
(* asked for by less than one cycle, the part that its conversion rounds   *)
(* off, and no busy wait is late by more than the gap between two polls.   *)
(***************************************************************************)
THEOREM BusyWaitInTime == Spec => []WaitInTime
BY CyclesInTime, WaitInit, WaitStep, PTL DEF Spec

(***************************************************************************)
(* For every length of the day: until the day ends, sys_clock_elapsed      *)
(* (rtc_timer.c:53-65) is the time since the alarm was last served.        *)
(***************************************************************************)
THEOREM ElapsedExact == Spec => []ElapsedInDay
<1>1. WaitInv => ElapsedInDay
  BY RtcAssumption
     DEF WaitInv, ElapsedInDay, sys_clock_elapsed, Sub32, TypeOK, RtcTypeOK,
         Cnt
<1> QED
  BY <1>1, WaitInit, WaitStep, PTL DEF Spec
-----------------------------------------------------------------------------
(* Quotients.                                                              *)

\* The quotient is the only number with its bounds.
LEMMA DivUnique ==
  ASSUME NEW a \in Nat, NEW b \in Nat \ {0}, NEW q \in Nat,
         b * q =< a, a < b * q + b
  PROVE  a \div b = q
<1> DEFINE d == a \div b
<1>1. d \in Nat /\ b * d =< a /\ a < b * d + b
  BY DivIs
<1> HIDE DEF d
<1>2. ~(d + 1 =< q)
  <2> SUFFICES ASSUME d + 1 =< q PROVE FALSE
    OBVIOUS
  <2>1. b * (d + 1) =< b * q
    BY <1>1, MulLe
  <2>2. b * (d + 1) = b * d + b
    BY <1>1
  <2>3. b * d \in Int /\ b * q \in Int
    BY <1>1
  <2>4. QED BY <1>1, <2>1, <2>2, <2>3
<1>3. ~(q + 1 =< d)
  <2> SUFFICES ASSUME q + 1 =< d PROVE FALSE
    OBVIOUS
  <2>1. b * (q + 1) =< b * d
    BY <1>1, MulLe
  <2>2. b * (q + 1) = b * q + b
    BY <1>1
  <2>3. b * d \in Int /\ b * q \in Int
    BY <1>1
  <2>4. QED BY <1>1, <2>1, <2>2, <2>3
<1>4. d = q
  BY <1>1, <1>2, <1>3
<1>5. QED BY <1>4 DEF d

LEMMA ModSmall ==
  ASSUME NEW a \in Nat, NEW b \in Nat \ {0}, a < b
  PROVE  a % b = a
<1>1. a \div b = 0
  BY DivUnique
<1>2. QED BY <1>1, ModIs

LEMMA ModTwice ==
  ASSUME NEW a \in Nat, NEW b \in Nat \ {0}
  PROVE  a % b \in Nat /\ (a % b) % b = a % b
<1>1. a % b \in Nat /\ a % b < b
  BY ModIs
<1>2. QED BY <1>1, ModSmall

\* Dividing behind an exact part.
LEMMA DivSplit ==
  ASSUME NEW a \in Nat, NEW b \in Nat \ {0}, NEW c \in Nat
  PROVE  (b * c + a) \div b = c + a \div b
<1> DEFINE d == a \div b
<1>1. d \in Nat /\ b * d =< a /\ a < b * d + b
  BY DivIs
<1> HIDE DEF d
<1>2. b * (c + d) = b * c + b * d /\ b * c \in Nat /\ b * d \in Nat
  BY <1>1
<1>3. b * (c + d) =< b * c + a /\ b * c + a < b * (c + d) + b
  BY <1>1, <1>2
<1>4. (b * c + a) \div b = c + d
  BY <1>1, <1>2, <1>3, DivUnique
<1>5. QED BY <1>4 DEF d

LEMMA OffIs ==
  ASSUME NEW f \in Nat \ {0}, NEW round \in Round
  PROVE  /\ Off(round, f) \in 0 .. f - 1
         /\ round = "floor" => Off(round, f) = 0
         /\ round = "ceil" => Off(round, f) = f - 1
         /\ round = "near" => f - 1 =< 2 * Off(round, f) /\ 2 * Off(round, f) =< f
BY DEF Off, Round

\* n * f is what was to be divided, up to what the rounding allows.
Near(diff, f, round) ==
  CASE round = "floor" -> -f < diff /\ diff =< 0
    [] round = "near" -> -f =< 2 * diff /\ 2 * diff =< f
    [] round = "ceil" -> 0 =< diff /\ diff < f

\* Adding the offset of z_tmcvt before the division rounds as asked.
LEMMA OffRounds ==
  ASSUME NEW x \in Nat, NEW f \in Nat \ {0}, NEW round \in Round, NEW n,
         n = (x + Off(round, f)) \div f
  PROVE  /\ n \in Nat /\ Near(n * f - x, f, round)
         /\ n \in {x \div f, x \div f + 1}
<1> DEFINE off == Off(round, f)
           e == x \div f
<1>1. /\ off \in Nat /\ off =< f - 1
      /\ round = "floor" => off = 0
      /\ round = "ceil" => off = f - 1
      /\ round = "near" => f - 1 =< 2 * off /\ 2 * off =< f
  BY OffIs
<1>2. e \in Nat /\ f * e =< x /\ x < f * e + f
  BY DivIs
<1>3. n = (x + off) \div f
  OBVIOUS
<1> HIDE DEF off, e
<1>4. x + off \in Nat
  BY <1>1
<1>5. n \in Nat /\ f * n =< x + off /\ x + off < f * n + f
  BY <1>3, <1>4, DivIs
<1>6. Near(n * f - x, f, round)
  <2> DEFINE p == n * f
  <2>1. p = f * n /\ p \in Nat
    BY <1>5
  <2> HIDE DEF p
  <2>2. Near(p - x, f, round)
    <3>1. CASE round = "floor"
      BY <1>1, <1>5, <2>1, <3>1 DEF Near
    <3>2. CASE round = "near"
      <4>1. 2 * p =< 2 * x + 2 * off /\ 2 * x + 2 * off < 2 * p + 2 * f
        BY <1>1, <1>5, <2>1
      <4>2. -f =< 2 * (p - x) /\ 2 * (p - x) =< f
        BY <1>1, <2>1, <3>2, <4>1
      <4>3. QED BY <3>2, <4>2 DEF Near
    <3>3. CASE round = "ceil"
      BY <1>1, <1>5, <2>1, <3>3 DEF Near
    <3>4. QED BY <3>1, <3>2, <3>3 DEF Round
  <2>3. QED BY <2>2 DEF p
<1>7. n \in {e, e + 1}
  <2>1. /\ f * (e + 1) = f * e + f /\ f * e \in Nat
        /\ e + 1 \in Nat
    BY <1>2
  <2>2. CASE x + off < f * e + f
    <3>1. f * e =< x + off
      BY <1>1, <1>2, <2>1
    <3>2. (x + off) \div f = e
      BY <1>2, <1>4, <2>2, <3>1, DivUnique
    <3>3. QED BY <1>3, <3>2
  <2>3. CASE ~(x + off < f * e + f)
    <3>1. f * (e + 1) =< x + off /\ x + off < f * (e + 1) + f
      BY <1>1, <1>2, <2>1, <2>3
    <3>2. (x + off) \div f = e + 1
      BY <1>4, <2>1, <3>1, DivUnique
    <3>3. QED BY <1>3, <3>2
  <2>4. QED BY <2>2, <2>3
<1>8. QED BY <1>5, <1>6, <1>7 DEF e

\* n is a right result of converting t from f to g.
Exact(n, t, f, g, round) ==
  /\ n \in Nat
  /\ IsRounded(n, t, f, g, round)
  /\ n \in {(t * g) \div f, (t * g) \div f + 1}

LEMMA NearIsRounded ==
  ASSUME NEW n \in Nat, NEW t \in Nat, NEW f \in Nat, NEW g \in Nat,
         NEW round, Near(n * f - t * g, f, round)
  PROVE  IsRounded(n, t, f, g, round)
BY DEF Near, IsRounded

\* The general formula.
LEMMA FullExact ==
  ASSUME NEW t \in Nat, NEW f \in Nat \ {0}, NEW g \in Nat \ {0},
         NEW round \in Round
  PROVE  Exact((t * g + Off(round, f)) \div f, t, f, g, round)
<1> DEFINE x == t * g
           n == (x + Off(round, f)) \div f
<1>1. x \in Nat
  OBVIOUS
<1> HIDE DEF x
<1>2. n \in Nat /\ Near(n * f - x, f, round) /\ n \in {x \div f, x \div f + 1}
  BY <1>1, OffRounds
<1> HIDE DEF n
<1>3. IsRounded(n, t, f, g, round)
  BY <1>2, NearIsRounded DEF x
<1>4. Exact(n, t, f, g, round)
  BY <1>2, <1>3 DEF Exact, x
<1>5. QED BY <1>4 DEF n, x

\* The frequency of the source is a multiple of the target's.
LEMMA DivRatioExact ==
  ASSUME NEW t \in Nat, NEW r \in Nat \ {0}, NEW g \in Nat \ {0}, NEW f,
         f = g * r, NEW round \in Round
  PROVE  Exact((t + Off(round, r)) \div r, t, f, g, round)
<1> DEFINE n == (t + Off(round, r)) \div r
           e == t \div r
<1>1. n \in Nat /\ Near(n * r - t, r, round) /\ n \in {e, e + 1}
  BY OffRounds
<1>2. e \in Nat /\ r * e =< t /\ t < r * e + r
  BY DivIs
<1> HIDE DEF n, e
<1>3. f \in Nat \ {0}
  OBVIOUS
<1>4. Near(n * f - t * g, f, round)
  <2> DEFINE d == n * r - t
             gd == g * d
             m == n * f - t * g
  <2>1. d \in Int
    BY <1>1
  <2>2. m = gd
    <3>1. n * (g * r) - t * g = g * (n * r - t)
      BY <1>1
    <3>2. QED BY <3>1
  <2>3. /\ d =< 0 => gd =< 0
        /\ 0 =< d => 0 =< gd
        /\ -r < d => -f < gd
        /\ d < r => gd < f
        /\ -r =< 2 * d => -f =< 2 * gd
        /\ 2 * d =< r => 2 * gd =< f
    BY <2>1
  <2> gd \in Int
    BY <2>1
  <2> HIDE DEF gd, m
  <2>4. Near(d, r, round)
    BY <1>1
  <2> HIDE DEF d
  <2>5. Near(gd, f, round)
    BY <2>1, <2>3, <2>4, <1>3 DEF Near, Round
  <2>6. QED BY <2>2, <2>5 DEF m
<1>5. IsRounded(n, t, f, g, round)
  BY <1>1, <1>3, <1>4, NearIsRounded
<1>6. (t * g) \div f = e
  <2>1. g * (r * e) =< g * t /\ g * t < g * (r * e) + g * r
    BY <1>2
  <2>2. g * (r * e) = f * e /\ g * t = t * g
    BY <1>2
  <2>3. f * e =< t * g /\ t * g < f * e + f /\ t * g \in Nat
    BY <2>1, <2>2
  <2>4. QED BY <1>2, <1>3, <2>3, DivUnique
<1>7. Exact(n, t, f, g, round)
  BY <1>1, <1>5, <1>6 DEF Exact
<1>8. QED BY <1>7 DEF n

\* The frequency of the target is a multiple of the source's.
LEMMA MulRatioExact ==
  ASSUME NEW t \in Nat, NEW q \in Nat \ {0}, NEW f \in Nat \ {0}, NEW g,
         g = f * q, NEW round \in Round
  PROVE  Exact(t * q, t, f, g, round)
<1> DEFINE n == t * q
<1>1. n \in Nat /\ t * g = f * n
  <2>1. t * (f * q) = f * (t * q)
    OBVIOUS
  <2>2. QED BY <2>1
<1> HIDE DEF n
<1>2. f * n \in Nat /\ n * f = f * n
  BY <1>1
<1>3. (t * g) \div f = n
  <2>1. f * n =< t * g /\ t * g < f * n + f /\ t * g \in Nat
    BY <1>1, <1>2
  <2>2. QED BY <1>1, <2>1, DivUnique
<1>4. n * f - t * g = 0
  BY <1>1, <1>2
<1>5. Near(0, f, round)
  <2>1. CASE round = "floor"
    BY <2>1 DEF Near
  <2>2. CASE round = "near"
    BY <2>2 DEF Near
  <2>3. CASE round = "ceil"
    BY <2>3 DEF Near
  <2>4. QED BY <2>1, <2>2, <2>3 DEF Round
<1>6. IsRounded(n, t, f, g, round)
  BY <1>1, <1>4, <1>5, NearIsRounded
<1>7. Exact(n, t, f, g, round)
  BY <1>1, <1>3, <1>6 DEF Exact
<1>8. QED BY <1>7 DEF n

\* The frequencies a unit may have.
Hz == {HzMs, HzUs, HzNs} \cup ChipHz

\* What InRange says of a 64-bit argument.
ProductFits(t, f, g) ==
  /\ t * g < (W64 - 1) * f
  /\ \/ t =< MaxTimeout * f
     \/ t + f < W64 /\ ~UseFastAlgo(f, g)

LEMMA HzIs ==
  /\ W32 \in Nat \ {0, 1} /\ MaxTimeout \in Nat
  /\ W64 = W32 * W32 /\ W64 \in Nat \ {0}
  /\ \A f \in Hz : /\ f \in Nat \ {0} /\ f =< W32 - 1
                   /\ (MaxTimeout + 1) * f < W64
<1>1. W32 \in Nat \ {0, 1} /\ MaxTimeout \in Nat
  BY UnitsAssumption
<1>2. W64 = W32 * W32 /\ W64 \in Nat \ {0}
  BY <1>1 DEF W64
<1>3. \A f \in Hz : f \in 1 .. W32 - 1
  BY UnitsAssumption DEF Hz
<1>4. QED BY <1>1, <1>2, <1>3, TimeoutAssumption DEF Hz

\* No argument in range overflows 64 bits when an offset is added to it.
LEMMA SumFits ==
  ASSUME NEW f \in Hz, NEW g \in Hz, NEW t \in Nat, t < W32 \/ ProductFits(t, f, g)
  PROVE  t + (f - 1) < W64
<1>1. CASE t < W32
  <2>1. t + (f - 1) =< W32 + W32 - 3 /\ W32 + W32 =< W32 * W32
    BY <1>1, HzIs
  <2>2. QED BY <2>1, HzIs
<1>2. CASE ProductFits(t, f, g)
  <2>1. CASE t =< MaxTimeout * f
    <3>1. MaxTimeout * f + f = (MaxTimeout + 1) * f /\ MaxTimeout * f \in Nat
      BY HzIs
    <3>2. QED BY <2>1, <3>1, HzIs
  <2>2. CASE t + f < W64
    BY <2>2, HzIs
  <2>3. QED BY <1>2, <2>1, <2>2 DEF ProductFits
<1>3. QED BY <1>1, <1>2

\* Up to the longest timeout the product of the fast algorithm fits.
LEMMA FastFits ==
  ASSUME NEW f \in Hz, NEW g \in Hz, NEW t \in Nat,
         t < W32 \/ (UseFastAlgo(f, g) /\ t =< MaxTimeout * f)
  PROVE  t * g + (f - 1) < W64 /\ t * g \in Nat
<1> DEFINE m == W32 - 1
<1>1. /\ m \in Nat \ {0} /\ f \in Nat \ {0} /\ g \in Nat \ {0}
      /\ f =< m /\ g =< m /\ MaxTimeout \in Nat
      /\ W64 = (m + 1) * (m + 1)
  BY HzIs
<1>2. t * g =< m * m
  <2>1. CASE t < W32
    <3>1. t =< m
      BY <2>1, HzIs
    <3>2. t * g =< m * g /\ m * g =< m * m
      BY <1>1, <3>1
    <3>3. t * g \in Nat /\ m * g \in Nat /\ m * m \in Nat
      BY <1>1
    <3>4. QED BY <3>2, <3>3
  <2>2. CASE UseFastAlgo(f, g) /\ t =< MaxTimeout * f
    <3> DEFINE x == MaxTimeout * f
               c == (x + m - 1) \div m
    <3>1. x \in Nat
      BY <1>1
    <3>2. c * g =< m
      BY <2>2 DEF UseFastAlgo, CeilDiv
    <3>3. t =< x
      BY <2>2
    <3> HIDE DEF m
    <3>4. c \in Nat /\ x + m - 1 < m * c + m
      <4> HIDE DEF x
      <4>1. x + m - 1 \in Nat
        BY <1>1, <3>1
      <4>2. QED BY <1>1, <4>1, DivIs
    <3> HIDE DEF x, c
    <3>5. m * c \in Nat /\ x =< m * c
      BY <1>1, <3>1, <3>4
    <3>6. t * g =< (m * c) * g
      <4>1. t =< m * c
        BY <3>1, <3>3, <3>5
      <4>2. g * t =< g * (m * c)
        BY <1>1, <3>5, <4>1, MulLe
      <4>3. QED BY <1>1, <3>5, <4>2
    <3>7. (m * c) * g = m * (c * g) /\ c * g \in Nat
      BY <1>1, <3>4
    <3>8. m * (c * g) =< m * m
      BY <1>1, <3>2, <3>7, MulLe
    <3>9. t * g \in Nat /\ (m * c) * g \in Nat /\ m * m \in Nat
      BY <1>1, <3>5
    <3>10. QED BY <3>6, <3>7, <3>8, <3>9
  <2>3. QED BY <2>1, <2>2
<1> HIDE DEF m
<1>3. (m + 1) * (m + 1) = m * m + 2 * m + 1 /\ m * m \in Nat /\ t * g \in Nat
  BY <1>1
<1>4. QED BY <1>1, <1>2, <1>3

\* What the split division returns.
LEMMA SlowIsFull ==
  ASSUME NEW f \in Nat \ {0}, NEW g \in Nat \ {0}, NEW t \in Nat, NEW off \in Nat
  PROVE  (t \div f) * g + ((t % f) * g + off) \div f = (t * g + off) \div f
<1> DEFINE a == t \div f
           b == t % f
<1>1. a \in Nat /\ b \in Nat /\ t = f * a + b
  BY DivIs, ModIs
<1> HIDE DEF a, b
<1>2. t * g + off = f * (a * g) + (b * g + off)
  <2>1. (f * a + b) * g = f * (a * g) + b * g
    BY <1>1
  <2>2. f * (a * g) \in Nat /\ b * g \in Nat
    BY <1>1
  <2>3. QED BY <1>1, <2>1, <2>2
<1>3. a * g \in Nat /\ b * g + off \in Nat
  BY <1>1
<1>4. (f * (a * g) + (b * g + off)) \div f = a * g + (b * g + off) \div f
  BY <1>3, DivSplit
<1>5. QED BY <1>2, <1>4 DEF a, b

\* The formulas of z_tmcvt, by the conditions it tests.
DivRatio(f, g, const_hz) == const_hz /\ f > g /\ f % g = 0
MulRatio(f, g, const_hz) == const_hz /\ g > f /\ g % f = 0

LEMMA TmcvtIs ==
  ASSUME NEW f \in Hz, NEW g \in Hz, NEW t \in Nat, NEW const_hz \in BOOLEAN,
         NEW result32 \in BOOLEAN, NEW round \in Round, NEW z,
         z = z_tmcvt(t, f, g, const_hz, result32, round)
  PROVE  LET full == U64(U64(t * g) + Off(round, f)) \div f
         IN  /\ f = g => z = IF result32 THEN U32(t) ELSE t
             /\ DivRatio(f, g, const_hz) =>
                  z = U64(t + Off(round, f \div g)) \div (f \div g)
             /\ MulRatio(f, g, const_hz) =>
                  z = IF result32 THEN U32(U32(t) * (g \div f))
                      ELSE U64(t * (g \div f))
             /\ f # g /\ ~DivRatio(f, g, const_hz) /\ ~MulRatio(f, g, const_hz) =>
                  z = IF result32 THEN U32(full)
                      ELSE IF const_hz /\ UseFastAlgo(f, g) THEN full
                      ELSE SlowAlgo(t, f, g, Off(round, f))
<1>1. f \in Int /\ g \in Int
  BY HzIs
<1>2. CASE f = g
  <2>1. ~(f > g) /\ ~(g > f)
    BY <1>1, <1>2
  <2>2. QED BY <1>2, <2>1, Zenon DEF z_tmcvt, DivRatio, MulRatio
<1>3. CASE DivRatio(f, g, const_hz)
  <2>1. f # g /\ ~(g > f)
    BY <1>1, <1>3 DEF DivRatio
  <2>2. QED BY <1>3, <2>1, Zenon DEF z_tmcvt, DivRatio, MulRatio
<1>4. CASE MulRatio(f, g, const_hz)
  <2>1. f # g /\ ~(f > g)
    BY <1>1, <1>4 DEF MulRatio
  <2>2. QED BY <1>4, <2>1, Zenon DEF z_tmcvt, DivRatio, MulRatio
<1>5. CASE f # g /\ ~DivRatio(f, g, const_hz) /\ ~MulRatio(f, g, const_hz)
  BY <1>5, Zenon DEF z_tmcvt, DivRatio, MulRatio
<1>6. QED BY <1>2, <1>3, <1>4, <1>5

\* A ratio of frequencies.
LEMMA RatioIs ==
  ASSUME NEW f \in Hz, NEW g \in Hz, f % g = 0
  PROVE  /\ f \div g \in Nat \ {0} /\ f = g * (f \div g)
         /\ f \div g =< f
<1>1. f \in Nat \ {0} /\ g \in Nat \ {0}
  BY HzIs
<1> DEFINE q == f \div g
<1>2. q \in Nat /\ f = g * q + (f % g)
  BY <1>1, DivIs, ModIs
<1> HIDE DEF q
<1>3. f = g * q
  BY <1>1, <1>2
<1>4. q # 0
  BY <1>1, <1>3
<1>5. q =< f
  BY <1>1, <1>2, <1>3
<1>6. QED BY <1>2, <1>3, <1>4, <1>5 DEF q

\* Whichever formula z_tmcvt takes, its result is exact.
LEMMA TmcvtExact ==
  ASSUME NEW f \in Hz, NEW g \in Hz, NEW t \in Nat, NEW const_hz \in BOOLEAN,
         NEW result32 \in BOOLEAN, NEW round \in Round, NEW z,
         z = z_tmcvt(t, f, g, const_hz, result32, round),
         result32 => t < W32,
         ~result32 => t < W64 /\ ProductFits(t, f, g)
  PROVE  \E n : /\ Exact(n, t, f, g, round)
                /\ result32 => U32(z) = n % W32
                /\ ~result32 => z = n % W64
<1>1. /\ f \in Nat \ {0} /\ g \in Nat \ {0}
      /\ W32 \in Nat \ {0} /\ W64 \in Nat \ {0}
  BY HzIs
<1>2. t < W32 \/ ProductFits(t, f, g)
  OBVIOUS
<1>3. CASE f = g
  <2>1. z = IF result32 THEN U32(t) ELSE t
    BY <1>3, TmcvtIs
  <2>2. Exact(t, t, f, g, round)
    <3>1. g = f * 1 /\ t * 1 = t
      BY <1>1, <1>3
    <3>2. Exact(t * 1, t, f, g, round)
      BY <1>1, <3>1, MulRatioExact
    <3>3. QED BY <3>1, <3>2
  <2>3. result32 => U32(z) = t % W32
    BY <1>1, <2>1, ModTwice DEF U32
  <2>4. ~result32 => z = t % W64
    BY <1>1, <2>1, ModSmall
  <2>5. QED BY <2>2, <2>3, <2>4
<1>4. CASE DivRatio(f, g, const_hz)
  <2> DEFINE r == f \div g
             off == Off(round, r)
             n == (t + off) \div r
  <2>1. z = U64(t + off) \div r
    BY <1>4, TmcvtIs
  <2>2. r \in Nat \ {0} /\ f = g * r /\ r =< f
    BY <1>4, RatioIs DEF DivRatio
  <2> HIDE DEF r
  <2>3. off \in Nat /\ off =< r - 1
    BY <2>2, OffIs
  <2>4. Exact(n, t, f, g, round)
    BY <1>1, <2>2, DivRatioExact
  <2> HIDE DEF off
  <2>5. t + off \in Nat /\ t + off < W64
    <3>1. t + (f - 1) < W64
      BY <1>2, SumFits
    <3>2. QED BY <1>1, <2>2, <2>3, <3>1
  <2>6. z = n
    BY <1>1, <2>1, <2>5, ModSmall DEF U64
  <2>7. n \in Nat /\ n < W64
    <3> DEFINE x == t + off
    <3>1. x \in Nat /\ x < W64
      BY <2>5
    <3> HIDE DEF x
    <3>2. x \div r \in Nat /\ r * (x \div r) =< x
      BY <2>2, <3>1, DivIs
    <3> DEFINE y == x \div r
    <3> HIDE DEF y
    <3>3. y \in Nat /\ r * y =< x
      BY <3>2 DEF y
    <3>4. y =< r * y /\ r * y \in Nat
      BY <2>2, <3>3
    <3>5. y < W64
      BY <1>1, <3>1, <3>3, <3>4
    <3>6. QED BY <3>3, <3>5 DEF x, y
  <2> HIDE DEF n
  <2>8. ~result32 => z = n % W64
    BY <1>1, <2>6, <2>7, ModSmall
  <2>9. QED BY <2>4, <2>6, <2>8 DEF U32
<1>5. CASE MulRatio(f, g, const_hz)
  <2> DEFINE q == g \div f
  <2>1. z = IF result32 THEN U32(U32(t) * q) ELSE U64(t * q)
    BY <1>5, TmcvtIs
  <2>2. q \in Nat \ {0} /\ g = f * q
    BY <1>5, RatioIs DEF MulRatio
  <2> HIDE DEF q
  <2>3. Exact(t * q, t, f, g, round)
    BY <1>1, <2>2, MulRatioExact
  <2>4. t * q \in Nat
    BY <2>2
  <2>5. result32 => U32(t) = t
    BY <1>1, ModSmall DEF U32
  <2>6. result32 => U32(z) = (t * q) % W32
    BY <1>1, <2>1, <2>4, <2>5, ModTwice DEF U32
  <2>7. ~result32 => z = (t * q) % W64
    BY <2>1 DEF U64
  <2>8. QED BY <2>3, <2>6, <2>7
<1>6. CASE f # g /\ ~DivRatio(f, g, const_hz) /\ ~MulRatio(f, g, const_hz)
  <2> DEFINE off == Off(round, f)
             full == U64(U64(t * g) + off) \div f
             n == (t * g + off) \div f
  <2>1. z = IF result32 THEN U32(full)
            ELSE IF const_hz /\ UseFastAlgo(f, g) THEN full
            ELSE SlowAlgo(t, f, g, off)
    BY <1>6, TmcvtIs
  <2>2. off \in Nat /\ off =< f - 1
    BY <1>1, OffIs
  <2>3. Exact(n, t, f, g, round)
    BY <1>1, FullExact
  <2> HIDE DEF off
  <2>4. SlowAlgo(t, f, g, off) = n % W64
    BY <1>1, <2>2, SlowIsFull DEF SlowAlgo, U64
  <2>5. result32 \/ UseFastAlgo(f, g) => full = n /\ n < W64
    <3> SUFFICES ASSUME result32 \/ UseFastAlgo(f, g)
                 PROVE  full = n /\ n < W64
      OBVIOUS
    <3> DEFINE x == t * g
               y == x + off
    <3>1. t < W32 \/ (UseFastAlgo(f, g) /\ t =< MaxTimeout * f)
      BY DEF ProductFits
    <3>2. x + (f - 1) < W64 /\ x \in Nat
      BY <3>1, FastFits
    <3> HIDE DEF x
    <3>3. y \in Nat /\ y < W64 /\ x < W64
      BY <1>1, <2>2, <3>2
    <3>4. U64(x) = x
      BY <1>1, <3>2, <3>3, ModSmall DEF U64
    <3> HIDE DEF y
    <3>5. U64(y) = y
      BY <1>1, <3>3, ModSmall DEF U64
    <3>6. full = n
      BY <3>4, <3>5 DEF x, y
    <3>7. y \div f \in Nat /\ f * (y \div f) =< y
      BY <1>1, <3>3, DivIs
    <3> DEFINE d == y \div f
    <3> HIDE DEF d
    <3>8. d \in Nat /\ f * d =< y
      BY <3>7 DEF d
    <3>9. d =< f * d /\ f * d \in Nat
      BY <1>1, <3>8
    <3>10. d < W64
      BY <1>1, <3>3, <3>8, <3>9
    <3>11. QED BY <3>6, <3>10 DEF d, x, y
  <2>6. n \in Nat
    BY <2>3 DEF Exact
  <2> HIDE DEF full, n
  <2>7. result32 => U32(z) = n % W32
    BY <1>1, <2>1, <2>5, <2>6, ModTwice DEF U32
  <2>8. ~result32 => z = n % W64
    <3>1. UseFastAlgo(f, g) => full = n % W64
      BY <1>1, <2>5, <2>6, ModSmall
    <3>2. QED BY <2>1, <2>4, <3>1
  <2>9. QED BY <2>3, <2>7, <2>8
<1>7. QED BY <1>3, <1>4, <1>5, <1>6

\* Each function of the API is a call of z_tmcvt with its own two units.
LEMMA ReturnedIs ==
  ASSUME NEW pair \in Pairs, NEW bits, NEW round, NEW t
  PROVE  /\ Returned(pair, bits, round, t)
              = Convert(pair[1], pair[2], bits, round, t)
         /\ pair[1] \in Unit /\ pair[2] \in Unit
BY DEF Pairs, Unit, Returned, k_ms_to_cyc, k_ms_to_ticks, k_us_to_cyc,
       k_us_to_ticks, k_ns_to_cyc, k_ns_to_ticks, k_cyc_to_ms, k_cyc_to_us,
       k_cyc_to_ns, k_cyc_to_ticks, k_ticks_to_ms, k_ticks_to_us,
       k_ticks_to_ns, k_ticks_to_cyc

UnitsInv ==
  /\ \A u \in Unit : hz[u] \in Hz
  /\ ccyc \in BOOLEAN
  /\ ConversionExact

LEMMA UnitsInvInit == UnitsInit => UnitsInv
BY DEF UnitsInit, UnitsInv, Unit, Hz, ConversionExact

\* A call, of either width.
LEMMA CallStep ==
  ASSUME UnitsInv, NEW pair \in Pairs, NEW round \in Round,
         NEW bits \in {32, 64}, NEW t \in Nat,
         bits = 32 => t < W32, bits = 64 => t < W64,
         CallConversion(pair, bits, round, t)
  PROVE  UnitsInv'
<1> DEFINE from == pair[1]
           to == pair[2]
           f == hz[from]
           g == hz[to]
           const_hz == "cyc" \notin {from, to} \/ ccyc
           result32 == bits = 32
           z == z_tmcvt(t, f, g, const_hz, result32, round)
           word == IF bits = 32 THEN W32 ELSE W64
<1>1. from \in Unit /\ to \in Unit
  BY ReturnedIs
<1>2. f \in Hz /\ g \in Hz
  BY <1>1 DEF UnitsInv
<1>3. converted' = IF bits = 32 THEN U32(z) ELSE z
  <2>1. converted' = Returned(pair, bits, round, t)
    BY DEF CallConversion
  <2>2. converted' = Convert(from, to, bits, round, t)
    BY <2>1, ReturnedIs
  <2>3. QED BY <2>2, Zenon DEF Convert
<1>4. hz' = hz /\ ccyc' = ccyc
  BY DEF CallConversion
<1>5. /\ call'.from = from /\ call'.to = to /\ call'.bits = bits
      /\ call'.round = round /\ call'.t = t
  BY DEF CallConversion
<1>6. ASSUME bits = 32 \/ ProductFits(t, f, g)
      PROVE  \E n : Exact(n, t, f, g, round) /\ converted' = n % word
  <2>1. const_hz \in BOOLEAN /\ result32 \in BOOLEAN
    BY Zenon DEF UnitsInv
  <2> HIDE DEF f, g, const_hz, from, to
  <2>2. /\ result32 => t < W32
        /\ ~result32 => t < W64 /\ ProductFits(t, f, g)
    BY <1>6
  <2>3. \A n : n % word = IF result32 THEN n % W32 ELSE n % W64
    BY Zenon
  <2>4. converted' = IF result32 THEN U32(z) ELSE z
    BY <1>3
  <2> HIDE DEF result32, word
  <2>5. z = z_tmcvt(t, f, g, const_hz, result32, round)
    BY Zenon
  <2> HIDE DEF z
  <2>6. \E n : /\ Exact(n, t, f, g, round)
               /\ result32 => U32(z) = n % W32
               /\ ~result32 => z = n % W64
    BY <1>2, <2>1, <2>2, <2>5, TmcvtExact
  <2>7. QED BY <2>1, <2>3, <2>4, <2>6
<1> HIDE DEF f, g, const_hz, z, word
<1>7. ConversionExact'
  <2> SUFFICES ASSUME InRange(call)'
               PROVE  \E n \in {(t * g) \div f, (t * g) \div f + 1} :
                        /\ IsRounded(n, t, f, g, round)
                        /\ converted' = n % word
    BY <1>4, <1>5 DEF ConversionExact, f, g, word
  <2>1. bits = 32 \/ ProductFits(t, f, g)
    BY <1>4, <1>5 DEF InRange, ProductFits, f, g
  <2>2. QED BY <1>6, <2>1 DEF Exact
<1>8. QED BY <1>4, <1>7 DEF UnitsInv

LEMMA UnitsInvStep == UnitsInv /\ [UnitsNext]_unitVars => UnitsInv'
<1> SUFFICES ASSUME UnitsInv, [UnitsNext]_unitVars PROVE UnitsInv'
  OBVIOUS
<1>1. ASSUME NEW pair \in Pairs, NEW round \in Round, NEW t \in 0 .. W32 - 1,
             CallConversion(pair, 32, round, t)
      PROVE  UnitsInv'
  BY <1>1, HzIs, CallStep
<1>2. ASSUME NEW pair \in Pairs, NEW round \in Round, NEW t \in 0 .. W64 - 1,
             CallConversion(pair, 64, round, t)
      PROVE  UnitsInv'
  BY <1>2, HzIs, CallStep
<1>3. CASE ReturnConversion
  BY <1>3 DEF ReturnConversion, UnitsInv, ConversionExact
<1>4. CASE UNCHANGED unitVars
  BY <1>4 DEF unitVars, UnitsInv, ConversionExact, InRange
<1>5. QED BY <1>1, <1>2, <1>3, <1>4 DEF UnitsNext

(***************************************************************************)
(* For every word length, every set of frequencies that fit it and every   *)
(* longest timeout that fits two words: each conversion of time_units.h    *)
(* (98-158) returns the exact quotient, rounded as its name says and       *)
(* truncated to its width.                                                 *)
(***************************************************************************)
THEOREM ConversionsExact == UnitsSpec => []ConversionExact
<1>1. UnitsInv => ConversionExact
  BY DEF UnitsInv
<1> QED
  BY <1>1, UnitsInvInit, UnitsInvStep, PTL DEF UnitsSpec

-----------------------------------------------------------------------------
(* Devices and initialisation.                                             *)

Flag == {"CAPABLE", "ENABLED"}
Caller == [pc : {"source", "cas"}, dev : Sources, enable : BOOLEAN,
           flags : SUBSET Flag]

BootTypeOK ==
  /\ stage \in {"bss", "data", "main"} \union Levels
  /\ entry \in Nat \ {0}
  /\ init_result \in [Tracked -> Int]
  /\ is_initialized \in [Tracked -> BOOLEAN]
  /\ flags \in [Sources -> SUBSET Flag]
  /\ wake_ctrl \subseteq Sources
  /\ caller \in Caller \union {NoCaller}
  /\ outcome \in [Devices -> Results \union {NotRun}]

\* Nothing has run in the first steps, nor an entry that is still to come.
OrderInv ==
  /\ stage \in {"bss", "data"} => /\ entry = 1
                                  /\ \A d \in Devices : outcome[d] = NotRun
  /\ \A i \in DOMAIN Entries :
       i >= entry /\ Entries[i].dev # NoDevice => outcome[Entries[i].dev] = NotRun

\* Once the RAM is cleared, the status of a device is what its init function
\* has returned.
StatusOf(d) ==
  /\ outcome[d] = NotRun => is_initialized[d] = FALSE /\ init_result[d] = 0
  /\ outcome[d] # NotRun => /\ is_initialized[d] = TRUE
                            /\ init_result[d] = 0 <=> outcome[d] = 0

StatusInv == stage # "bss" => \A d \in Tracked : StatusOf(d)

\* A call of pm_device_wakeup_enable belongs to this start; it swaps the
\* flags after it has set up the hardware.
CallInv ==
  /\ caller # NoCaller => stage = "main"
  /\ caller.pc = "cas" => caller.dev \in wake_ctrl

BootInv == BootTypeOK /\ OrderInv /\ StatusInv /\ CallInv /\ EnabledCanWake

LEMMA BootInitInv == BootInit => BootInv
<1> SUFFICES ASSUME BootInit PROVE BootInv
  OBVIOUS
<1> USE DEF BootInit
<1>1. is_initialized \in [Tracked -> BOOLEAN]
  BY Zenon
<1>2. BootTypeOK
  BY <1>1 DEF BootTypeOK, Flag
<1>3. OrderInv
  BY DeviceAssumption DEF OrderInv, Devices
<1>4. QED
  BY <1>2, <1>3 DEF BootInv, StatusInv, CallInv, NoCaller, EnabledCanWake,
                    Running, Levels

LEMMA BootTypeStep == BootInv /\ [BootNext]_bootVars => BootTypeOK'
<1> SUFFICES ASSUME BootInv, [BootNext]_bootVars PROVE BootTypeOK'
  OBVIOUS
<1> USE DEF BootInv, BootTypeOK, stateVars
<1>1. CASE UNCHANGED bootVars
  BY <1>1 DEF bootVars
<1>2. CASE Reset
  BY <1>2 DEF Reset
<1>3. CASE bss_zero
  <2>1. is_initialized' \in [Tracked -> BOOLEAN]
    BY <1>3, Zenon DEF bss_zero
  <2>2. QED BY <1>3, <2>1 DEF bss_zero
<1>4. CASE data_copy
  BY <1>4 DEF data_copy, Flag, Levels
<1>5. CASE LevelDone
  BY <1>5 DEF LevelDone, NextStage, Levels
<1>6. ASSUME NEW rc \in Results, RunEntry(rc)
      PROVE  BootTypeOK'
  <2>1. init_result' \in [Tracked -> Int]
    BY <1>6, DeviceAssumption DEF RunEntry, Recorded, Magnitude
  <2>2. is_initialized' \in [Tracked -> BOOLEAN]
    BY <1>6 DEF RunEntry
  <2>3. outcome' \in [Devices -> Results \union {NotRun}]
    BY <1>6 DEF RunEntry
  <2>4. QED BY <1>6, <2>1, <2>2, <2>3 DEF RunEntry
<1>7. ASSUME NEW d \in Sources, NEW enable \in BOOLEAN, ReadFlags(d, enable)
      PROVE  BootTypeOK'
  <2>1. caller' \in Caller
    BY <1>7 DEF ReadFlags, Caller
  <2>2. QED BY <1>7, <2>1 DEF ReadFlags
<1>8. CASE pm_device_wakeup_source
  <2>1. caller \in Caller
    BY <1>8 DEF pm_device_wakeup_source, NoCaller
  <2>2. caller' \in Caller
    BY <1>8, <2>1 DEF pm_device_wakeup_source, Caller
  <2>3. caller.dev \in Sources
    BY <2>1 DEF Caller
  <2>4. QED BY <1>8, <2>2, <2>3 DEF pm_device_wakeup_source
<1>9. CASE CasFlags
  <2>1. caller \in Caller
    BY <1>9 DEF CasFlags, NoCaller
  <2>2. flags' \in [Sources -> SUBSET Flag]
    BY <1>9, <2>1 DEF CasFlags, Caller, Flag
  <2>3. QED BY <1>9, <2>2 DEF CasFlags
<1>10. QED
  BY <1>1, <1>2, <1>3, <1>4, <1>5, <1>6, <1>7, <1>8, <1>9 DEF BootNext

(***************************************************************************)
(* One turn of z_sys_init_run_level leaves the entries behind it alone,    *)
(* since no two entries have the same device (init.c:36-48).               *)
(***************************************************************************)
LEMMA RunEntryInv ==
  ASSUME BootInv, NEW rc \in Results, RunEntry(rc)
  PROVE  OrderInv' /\ StatusInv'
<1> DEFINE d == Entries[entry].dev
<1> USE DEF BootInv, BootTypeOK
<1>1. /\ entry \in DOMAIN Entries /\ entry' = entry + 1
      /\ stage \in Levels /\ stage' = stage
      /\ outcome' = [e \in Devices |-> IF e = d THEN rc ELSE outcome[e]]
  BY DeviceAssumption DEF RunEntry, InLevel
<1>2. \A i \in DOMAIN Entries : Entries[i].dev # NoDevice => Entries[i].dev \in Devices
  BY DEF Devices
<1>3. OrderInv'
  <2>1. stage' \notin {"bss", "data"}
    BY <1>1 DEF Levels
  <2>2. ASSUME NEW i \in DOMAIN Entries, i >= entry + 1, Entries[i].dev # NoDevice
        PROVE  outcome'[Entries[i].dev] = NotRun
    <3>1. i \in Int /\ i # entry /\ i >= entry
      BY <2>2, <1>1, DeviceAssumption
    <3>2. Entries[i].dev # d
      BY <3>1, <2>2, <1>1, DeviceAssumption
    <3>3. outcome[Entries[i].dev] = NotRun
      BY <3>1, <2>2 DEF OrderInv
    <3>4. QED BY <3>2, <3>3, <2>2, <1>1, <1>2
  <2>3. QED BY <2>1, <2>2, <1>1 DEF OrderInv
<1>4. ASSUME NEW e \in Tracked PROVE StatusOf(e)'
  <2>0. e \in Devices /\ e # NoDevice /\ StatusOf(e)
    BY <1>1 DEF Tracked, Devices, StatusInv, Levels
  <2>1. CASE e # d
    <3>1. /\ outcome'[e] = outcome[e]
          /\ is_initialized'[e] = is_initialized[e]
          /\ init_result'[e] = init_result[e]
      BY <2>0, <2>1, <1>1 DEF RunEntry, stateVars
    <3>2. QED BY <3>1, <2>0 DEF StatusOf
  <2>2. CASE e = d
    <3>1. init_result[d] = 0
      <4>1. outcome[d] = NotRun
        BY <1>1, <2>0, <2>2 DEF OrderInv
      <4>2. QED BY <4>1, <2>0, <2>2 DEF StatusOf
    <3>2. outcome'[d] = rc /\ rc # NotRun
      BY <1>1, <2>0, <2>2, DeviceAssumption
    <3>3. is_initialized'[d] = TRUE
      BY <2>2 DEF RunEntry
    <3>4. init_result'[d] = 0 <=> rc = 0
      BY <2>2, <3>1, DeviceAssumption DEF RunEntry, Recorded, Magnitude
    <3>5. QED BY <3>2, <3>3, <3>4, <2>2 DEF StatusOf
  <2>3. QED BY <2>1, <2>2
<1>5. QED BY <1>3, <1>4 DEF StatusInv

LEMMA BootNextInv == BootInv /\ [BootNext]_bootVars => BootInv'
<1> SUFFICES ASSUME BootInv, [BootNext]_bootVars PROVE BootInv'
  OBVIOUS
<1>0. BootTypeOK'
  BY BootTypeStep
<1> USE <1>0 DEF BootInv
<1>1. CASE UNCHANGED bootVars
  BY <1>1 DEF bootVars, OrderInv, StatusInv, StatusOf, CallInv,
              EnabledCanWake, Running
<1>2. CASE Reset
  <2>1. OrderInv'
    BY <1>2 DEF Reset, OrderInv, Devices
  <2>2. QED
    BY <1>2, <2>1 DEF Reset, StatusInv, CallInv, NoCaller, EnabledCanWake,
                      Running, Levels
<1>3. CASE bss_zero
  <2>1. StatusInv'
    BY <1>3 DEF bss_zero, StatusInv, StatusOf, OrderInv, Tracked
  <2>2. OrderInv'
    BY <1>3 DEF bss_zero, OrderInv
  <2>3. QED
    BY <1>3, <2>1, <2>2 DEF bss_zero, CallInv, EnabledCanWake, Running, Levels
<1>4. CASE data_copy
  <2>1. EnabledCanWake'
    BY <1>4 DEF data_copy, EnabledCanWake
  <2>2. StatusInv'
    BY <1>4 DEF data_copy, stateVars, StatusInv, StatusOf
  <2>3. QED
    BY <1>4, <2>1, <2>2 DEF data_copy, OrderInv, CallInv
<1>5. CASE LevelDone
  <2>1. stage' \in {"DRIVER", "APPLICATION", "main"} /\ stage \in Levels
    BY <1>5 DEF LevelDone, NextStage, Levels
  <2>2. StatusInv'
    BY <1>5, <2>1 DEF LevelDone, stateVars, StatusInv, StatusOf, Levels
  <2>3. QED
    BY <1>5, <2>1, <2>2 DEF LevelDone, OrderInv, CallInv, EnabledCanWake,
                            Running, Levels
<1>6. ASSUME NEW rc \in Results, RunEntry(rc)
      PROVE  BootInv'
  <2>1. OrderInv' /\ StatusInv'
    BY <1>6, RunEntryInv
  <2>2. QED
    BY <1>6, <2>1 DEF RunEntry, CallInv, EnabledCanWake, Running
<1>7. ASSUME NEW d \in Sources, NEW enable \in BOOLEAN, ReadFlags(d, enable)
      PROVE  BootInv'
  <2>1. CallInv'
    BY <1>7 DEF ReadFlags, CallInv
  <2>2. StatusInv'
    BY <1>7 DEF ReadFlags, stateVars, StatusInv, StatusOf
  <2>3. QED
    BY <1>7, <2>1, <2>2 DEF ReadFlags, OrderInv, EnabledCanWake, Running
<1>8. CASE pm_device_wakeup_source
  <2>0. caller \in Caller
    BY <1>8 DEF pm_device_wakeup_source, NoCaller, BootTypeOK
  <2>1. CallInv'
    BY <1>8, <2>0 DEF pm_device_wakeup_source, CallInv, NoCaller, Caller
  <2>2. StatusInv'
    BY <1>8 DEF pm_device_wakeup_source, stateVars, StatusInv, StatusOf
  <2>3. QED
    BY <1>8, <2>1, <2>2 DEF pm_device_wakeup_source, OrderInv, EnabledCanWake,
                            Running
<1>9. CASE CasFlags
  <2>0. caller \in Caller /\ caller.dev \in wake_ctrl
    BY <1>9 DEF CasFlags, NoCaller, BootTypeOK, CallInv
  <2>1. EnabledCanWake'
    <3>1. \A d \in Sources :
            flags'[d] = flags[d] \/ d = caller.dev
      BY <1>9 DEF CasFlags, BootTypeOK
    <3>2. QED BY <1>9, <2>0, <3>1 DEF CasFlags, EnabledCanWake, Running
  <2>2. StatusInv'
    BY <1>9 DEF CasFlags, stateVars, StatusInv, StatusOf
  <2>3. QED
    BY <1>9, <2>1, <2>2 DEF CasFlags, OrderInv, CallInv, NoCaller
<1>10. QED
  BY <1>1, <1>2, <1>3, <1>4, <1>5, <1>6, <1>7, <1>8, <1>9 DEF BootNext

LEMMA BootAlways == BootSpec => []BootInv
BY BootInitInv, BootNextInv, PTL DEF BootSpec

(***************************************************************************)
(* Whatever an earlier start left in RAM and wherever it was reset, a      *)
(* device is ready exactly if its own init function has run since the      *)
(* reset and returned 0: an error of more than a uint8_t, or a negative    *)
(* one, is never recorded as success (device_is_ready, init.c:36-48).      *)
(***************************************************************************)
THEOREM ReadyAfterInit == BootSpec => []ReadyIsInitialised
<1>1. BootInv => ReadyIsInitialised
  <2> SUFFICES ASSUME BootInv, Running, NEW d \in Tracked
               PROVE  device_is_ready(d) <=> outcome[d] = 0
    BY DEF ReadyIsInitialised
  <2>1. StatusOf(d)
    BY DEF BootInv, StatusInv, Running, Levels
  <2>2. NotRun # 0
    BY DeviceAssumption
  <2>3. CASE outcome[d] = NotRun
    BY <2>1, <2>2, <2>3 DEF StatusOf, device_is_ready
  <2>4. CASE outcome[d] # NotRun
    BY <2>1, <2>4 DEF StatusOf, device_is_ready
  <2>5. QED BY <2>3, <2>4
<1>2. QED BY <1>1, BootAlways, PTL

(***************************************************************************)
(* A device marked as an enabled wake-up source has its source on in the   *)
(* power controller, also after a reset between any two steps of           *)
(* pm_device_wakeup_enable (subsys/pm/device.c:24-34).                     *)
(***************************************************************************)
THEOREM EnabledSourcesOn == BootSpec => []EnabledCanWake
<1>1. BootInv => EnabledCanWake
  BY DEF BootInv
<1>2. QED BY <1>1, BootAlways, PTL

-----------------------------------------------------------------------------
(* Physical memory protection: powers of two.                              *)

\* The powers of two.
LEMMA Pow2Is ==
  /\ Pow2[0] = 1
  /\ \A k \in 1 .. MemBits + 1 : Pow2[k] = 2 * Pow2[k - 1]
<1> DEFINE F(g, n) == g = [k \in 0 .. n |-> IF k = 0 THEN 1 ELSE 2 * g[k - 1]]
           T == {n \in Nat : \E g : F(g, n)}
<1>1. 0 \in T
  <2> DEFINE g == [k \in 0 .. 0 |-> 1]
  <2>1. F(g, 0)
    OBVIOUS
  <2> HIDE DEF g
  <2>2. QED BY <2>1
<1>2. ASSUME NEW n \in Nat, n \in T
      PROVE  n + 1 \in T
  <2>1. PICK g : F(g, n)
    BY <1>2
  <2> DEFINE h == [k \in 0 .. n + 1 |-> IF k = 0 THEN 1 ELSE 2 * g[k - 1]]
  <2>2. \A k \in 0 .. n : h[k] = g[k]
    BY <2>1
  <2>3. F(h, n + 1)
    <3>1. \A k \in 0 .. n + 1 : k # 0 => k - 1 \in 0 .. n
      OBVIOUS
    <3>2. \A k \in 0 .. n + 1 :
            h[k] = IF k = 0 THEN 1 ELSE 2 * h[k - 1]
      BY <2>2, <3>1
    <3>3. h = [k \in 0 .. n + 1 |-> h[k]]
      OBVIOUS
    <3> HIDE DEF h
    <3>4. QED BY <3>2, <3>3
  <2> HIDE DEF h, F
  <2>4. \E f : F(f, n + 1)
    BY <2>3, Zenon
  <2>5. QED BY <2>4
<1>3. MemBits + 1 \in T
  <2> HIDE DEF T
  <2>1. Nat \subseteq T
    BY <1>1, <1>2, Induct
  <2>2. QED BY <2>1, PmpAssumption
<1>4. \E g : F(g, MemBits + 1)
  BY <1>3
<1>5. Pow2 = CHOOSE g : F(g, MemBits + 1)
  BY Zenon DEF Pow2
<1>6. F(Pow2, MemBits + 1)
  <2> HIDE DEF F
  <2>1. QED BY <1>4, <1>5, Zenon
<1>7. Pow2 = [k \in 0 .. MemBits + 1 |-> IF k = 0 THEN 1 ELSE 2 * Pow2[k - 1]]
  BY <1>6
<1>8. 0 \in 0 .. MemBits + 1 /\ \A k \in 1 .. MemBits + 1 : k \in 0 .. MemBits + 1
  BY PmpAssumption
<1> DEFINE G == [k \in 0 .. MemBits + 1 |-> IF k = 0 THEN 1 ELSE 2 * Pow2[k - 1]]
<1>9. \A k \in 0 .. MemBits + 1 : G[k] = IF k = 0 THEN 1 ELSE 2 * Pow2[k - 1]
  OBVIOUS
<1> HIDE DEF G
<1>10. \A k : Pow2[k] = G[k]
  BY <1>7, Zenon DEF G
<1>11. QED BY <1>8, <1>9, <1>10, PmpAssumption

LEMMA Pow2Positive ==
  \A k \in 0 .. MemBits + 1 : Pow2[k] \in Nat \ {0}
<1> DEFINE T == {n \in Nat : n =< MemBits + 1 => Pow2[n] \in Nat \ {0}}
<1>1. 0 \in T
  BY Pow2Is
<1>2. ASSUME NEW n \in Nat, n \in T
      PROVE  n + 1 \in T
  <2> SUFFICES ASSUME n + 1 =< MemBits + 1 PROVE Pow2[n + 1] \in Nat \ {0}
    OBVIOUS
  <2>1. Pow2[n] \in Nat \ {0} /\ n + 1 \in 1 .. MemBits + 1 /\ (n + 1) - 1 = n
    BY <1>2, PmpAssumption
  <2>2. QED BY <2>1, Pow2Is
<1>3. Nat \subseteq T
  <2> HIDE DEF T
  <2>1. QED BY <1>1, <1>2, Induct
<1>4. QED BY <1>3, PmpAssumption

\* A smaller power of two divides a larger one.
LEMMA Pow2Divides ==
  ASSUME NEW a \in 0 .. MemBits + 1, NEW b \in a .. MemBits + 1
  PROVE  \E q \in Nat \ {0} : Pow2[b] = Pow2[a] * q
<1> DEFINE T == {n \in Nat : a + n =< MemBits + 1 =>
                    \E q \in Nat \ {0} : Pow2[a + n] = Pow2[a] * q}
<1>0. Pow2[a] \in Nat \ {0} /\ MemBits \in Nat
  BY Pow2Positive, PmpAssumption
<1>1. 0 \in T
  BY <1>0
<1>2. ASSUME NEW n \in Nat, n \in T
      PROVE  n + 1 \in T
  <2> SUFFICES ASSUME a + (n + 1) =< MemBits + 1
               PROVE  \E q \in Nat \ {0} : Pow2[a + (n + 1)] = Pow2[a] * q
    OBVIOUS
  <2>1. PICK q \in Nat \ {0} : Pow2[a + n] = Pow2[a] * q
    BY <1>0, <1>2
  <2>2. /\ a + (n + 1) \in 1 .. MemBits + 1 /\ (a + (n + 1)) - 1 = a + n
    BY <1>0
  <2>3. Pow2[a + (n + 1)] = 2 * Pow2[a + n]
    BY <2>2, Pow2Is
  <2>4. 2 * (Pow2[a] * q) = Pow2[a] * (2 * q) /\ 2 * q \in Nat \ {0}
    BY <1>0
  <2>5. QED BY <2>1, <2>3, <2>4
<1>3. Nat \subseteq T
  <2> HIDE DEF T
  <2>1. QED BY <1>1, <1>2, Induct
<1>4. b - a \in Nat /\ a + (b - a) = b
  BY <1>0
<1>5. QED BY <1>0, <1>3, <1>4

\* The remainder behind an exact part.
LEMMA ModSplit ==
  ASSUME NEW b \in Nat \ {0}, NEW c \in Nat, NEW r \in 0 .. b - 1
  PROVE  (b * c + r) % b = r /\ (b * c + r) \div b = c
<1>1. b * c \in Nat /\ b * c + r \in Nat
  OBVIOUS
<1>2. b * c =< b * c + r /\ b * c + r < b * c + b
  BY <1>1
<1>3. (b * c + r) \div b = c
  BY <1>1, <1>2, DivUnique
<1>4. b * c + r = b * ((b * c + r) \div b) + ((b * c + r) % b)
      /\ (b * c + r) % b \in Int
  BY <1>1, ModIs
<1>5. QED BY <1>1, <1>3, <1>4

LEMMA MaxIs ==
  ASSUME NEW S \in SUBSET Int, NEW m \in S, \A x \in S : x =< m
  PROVE  Max(S) = m
<1>1. m \in S /\ \A y \in S : m >= y
  OBVIOUS
<1>2. Max(S) \in S /\ \A y \in S : Max(S) >= y
  BY <1>1, Zenon DEF Max
<1>3. PICK n : n = Max(S)
  OBVIOUS
<1>4. n \in Int /\ m \in Int /\ n >= m /\ n =< m
  BY <1>2, <1>3
<1>5. n = m
  BY <1>4
<1>6. QED BY <1>3, <1>5

LEMMA MinIs ==
  ASSUME NEW S \in SUBSET Int, NEW m \in S, \A x \in S : m =< x
  PROVE  Min(S) = m
<1>1. Min(S) \in S /\ \A y \in S : Min(S) =< y
  BY Zenon DEF Min
<1>2. PICK n : n = Min(S)
  OBVIOUS
<1>3. n \in Int /\ m \in Int /\ n =< m /\ m =< n
  BY <1>1, <1>2
<1>4. n = m
  BY <1>3
<1>5. QED BY <1>2, <1>4

\* A set of positions has a first.
LEMMA FirstOf ==
  ASSUME NEW S \in SUBSET Nat, S # {}
  PROVE  Min(S) \in S /\ \A x \in S : Min(S) =< x
<1>1. PICK m \in S : \A x \in S : m =< x
  BY LeastOf
<1>2. Min(S) = m
  BY <1>1, MinIs
<1>3. QED BY <1>1, <1>2

\* The size that a NAPOT address encodes is the one it was made from.
LEMMA NapotSizeIs ==
  ASSUME NEW k \in 1 .. MemBits, NEW q \in Nat
  PROVE  NapotSize(Pow2[k] * q + Pow2[k - 1] - 1) = Pow2[k]
<1> DEFINE P == Pow2[k]
           H == Pow2[k - 1]
           addr == P * q + H - 1
           S == {x \in 0 .. MemBits : addr % Pow2[x] = Pow2[x] - 1}
<1>1. MemBits \in Nat /\ H \in Nat \ {0} /\ P = 2 * H /\ P \in Nat \ {0}
      /\ k - 1 \in 0 .. MemBits /\ k \in 0 .. MemBits + 1
  <2>1. MemBits \in Nat
    BY PmpAssumption
  <2>2. k - 1 \in 0 .. MemBits + 1 /\ k \in 1 .. MemBits + 1 /\ k \in 0 .. MemBits + 1
        /\ k - 1 \in 0 .. MemBits
    BY <2>1
  <2>3. QED BY <2>1, <2>2, Pow2Is, Pow2Positive
<1> HIDE DEF P, H
<1>2. addr \in Nat /\ P * q \in Nat
  BY <1>1
<1>3. addr % H = H - 1
  <2>1. P * q = H * (2 * q) /\ 2 * q \in Nat /\ H - 1 \in 0 .. H - 1
    BY <1>1
  <2>2. (H * (2 * q) + (H - 1)) % H = H - 1
    BY <1>1, <2>1, ModSplit
  <2>3. addr = H * (2 * q) + (H - 1)
    BY <1>1, <1>2, <2>1
  <2> HIDE DEF addr
  <2>4. QED BY <2>2, <2>3
<1>4. addr % P = H - 1
  <2>1. H - 1 \in 0 .. P - 1
    BY <1>1
  <2>2. (P * q + (H - 1)) % P = H - 1
    BY <1>1, <2>1, ModSplit
  <2>3. addr = P * q + (H - 1)
    BY <1>1, <1>2
  <2> HIDE DEF addr
  <2>4. QED BY <2>2, <2>3
<1> HIDE DEF addr
<1>5. k - 1 \in S
  BY <1>1, <1>3 DEF H
<1>6. ASSUME NEW x \in S PROVE x =< k - 1
  <2> SUFFICES ASSUME k =< x PROVE FALSE
    BY <1>1
  <2>1. x \in k .. MemBits + 1 /\ x \in 0 .. MemBits + 1
    BY <1>1
  <2>2. PICK p \in Nat \ {0} : Pow2[x] = P * p
    BY <1>1, <2>1, Pow2Divides DEF P
  <2> DEFINE X == Pow2[x]
             n == addr \div X
  <2>3. X \in Nat \ {0}
    BY <2>1, Pow2Positive
  <2>4. n \in Nat /\ addr = X * n + (X - 1)
    <3>1. addr % X = X - 1
      OBVIOUS
    <3> HIDE DEF X
    <3>2. n \in Nat /\ addr = X * n + (addr % X)
      BY <1>2, <2>3, DivIs, ModIs
    <3>3. QED BY <3>1, <3>2
  <2> HIDE DEF X, n
  <2>5. /\ X * n = P * (p * n) /\ p * n \in Nat
        /\ P * (p * n + (p - 1)) = P * (p * n) + P * p - P
        /\ p * n + (p - 1) \in Nat
    BY <1>1, <2>2, <2>3, <2>4 DEF X
  <2>6. addr = P * (p * n + (p - 1)) + (P - 1)
    BY <1>1, <2>2, <2>3, <2>4, <2>5 DEF X
  <2>7. addr % P = P - 1
    <3>1. P - 1 \in 0 .. P - 1
      BY <1>1
    <3>2. QED BY <1>1, <2>5, <2>6, <3>1, ModSplit
  <2>8. QED BY <1>1, <1>4, <2>7
<1>7. Max(S) = k - 1
  <2>1. S \in SUBSET Int
    OBVIOUS
  <2> HIDE DEF S
  <2>2. QED BY <1>5, <1>6, <2>1, MaxIs
<1>8. NapotSize(addr) = Pow2[1 + Max(S)]
  BY DEF NapotSize
<1>9. 1 + (k - 1) = k
  OBVIOUS
<1>10. QED BY <1>7, <1>8, <1>9 DEF addr, P, H

\* A region that the entries can describe, of words that memory has.
Valid(r) ==
  /\ r.start \in MemWord /\ r.size \in 1 .. MemSize - 1 - r.start
  /\ r.mode \in {"TOR", "NA4", "NAPOT"}
  /\ r.mode = "NA4" => r.size = 1
  /\ r.mode = "NAPOT" => Aligned(r)

\* The last entry of the k-th region that was added, or the one before the
\* first of them.
Base(c, k) == IF k = 0 THEN UsedEntries ELSE added[c][k].last

Added(c, k) == added[c][k].region

\* The entries of a context, when its regions fit: one region after the other,
\* then free ones.
Laid(c) ==
  /\ \A k \in 1 .. Len(added[c]) :
       /\ Valid(Added(c, k))
       /\ Base(c, k) = Base(c, k - 1) + Len(EntriesOf(Added(c, k)))
       /\ \A x \in 1 .. Len(EntriesOf(Added(c, k))) :
            u_pmp[c][Base(c, k - 1) + x] = EntriesOf(Added(c, k))[x]
  /\ \A j, k \in 0 .. Len(added[c]) : j < k => Base(c, j) < Base(c, k)
  /\ \A i \in UsedEntries + 1 .. Base(c, Len(added[c])) :
       \E k \in 1 .. Len(added[c]) : Base(c, k - 1) < i /\ i <= Base(c, k)
  /\ \A i \in Base(c, Len(added[c])) + 1 .. max_dynamic_region :
       IsFree(u_pmp[c][i])

\* The stack is in the first entries, or nothing is.
StackLaid(c) ==
  \/ \A i \in 0 .. UsedEntries - 1 : IsFree(u_pmp[c][i])
  \/ \A x \in 1 .. UsedEntries : u_pmp[c][x - 1] = EntriesOf(StackRegion)[x]

\* What holds of one context.
ContextInv(c) ==
  /\ StackLaid(c)
  /\ IsFree(u_pmp[c][UsedEntries])
  /\ Fits(c) => Laid(c)

DynamicRegions ==
  [region : {DynamicRegion(r.start, r.size, r.flags) :
               r \in TorRegions \cup NapotRegions},
   last : Int]

\* Before the static regions are written nothing is.
Untouched ==
  /\ \A i \in Slot : IsFree(csr[i])
  /\ \A c \in Ctx : added[c] = <<>> /\ \A i \in Slot : IsFree(u_pmp[c][i])

PmpInv ==
  /\ mode \in {"TOR", "NAPOT"}
  /\ mode = "NAPOT" => Aligned(Stack) /\ Aligned(Rom)
  /\ static_regions_num \in {0, UsedEntries}
  /\ u_pmp = [c \in Ctx |-> u_pmp[c]]
  /\ added \in [Ctx -> Seq(DynamicRegions)]
  /\ static_regions_num = 0 => Untouched
  /\ static_regions_num # 0 =>
       \A x \in 1 .. UsedEntries :
         csr[max_dynamic_region + x] = EntriesOf(RomRegion)[x]
  /\ \A c \in Ctx : ContextInv(c)

-----------------------------------------------------------------------------
(* What the entries of one region mean.                                    *)

\* The address of an aligned region, and what the hardware and the validation
\* read from it.
LEMMA ToNapotIs ==
  ASSUME NEW r, Valid(r), Aligned(r), r.size # 1, NEW addr,
         addr = ToNapot(r.start, r.size)
  PROVE  /\ addr \in Nat /\ NapotSize(addr) = r.size
         /\ addr \div r.size \in Nat /\ r.start = r.size * (addr \div r.size)
         /\ addr - (addr % r.size) = r.start
<1>1. PICK k \in 0 .. MemBits : r.size = Pow2[k] /\ r.start % Pow2[k] = 0
  BY DEF Aligned
<1>2. /\ r.start \in Nat /\ r.size \in Nat \ {0} /\ MemBits \in Nat
  BY PmpAssumption, Pow2Positive DEF Valid, MemWord, MemSize
<1>3. k \in 1 .. MemBits
  <2>1. k # 0
    BY <1>1, Pow2Is
  <2>2. QED BY <1>2, <2>1
<1> DEFINE P == Pow2[k]
           H == Pow2[k - 1]
           q == r.start \div P
<1>4. H \in Nat \ {0} /\ P = 2 * H /\ P \in Nat \ {0} /\ P = r.size
  <2>1. k - 1 \in 0 .. MemBits + 1 /\ k \in 1 .. MemBits + 1
    BY <1>2, <1>3
  <2>2. QED BY <1>1, <1>2, <2>1, Pow2Is, Pow2Positive
<1>5. q \in Nat /\ r.start = P * q
  <2>1. P \in Nat \ {0} /\ r.start % P = 0
    BY <1>1, <1>4
  <2> HIDE DEF P
  <2>2. q \in Nat /\ r.start = P * q + (r.start % P)
    BY <1>2, <2>1, DivIs, ModIs
  <2> HIDE DEF q
  <2>3. P * q \in Nat
    BY <2>1, <2>2
  <2>4. r.start = P * q
    BY <2>1, <2>2, <2>3
  <2>5. QED BY <2>2, <2>4
<1>6. NapotSize(P * q + H - 1) = P
  <2> HIDE DEF q
  <2>1. QED BY <1>3, <1>5, NapotSizeIs
<1> HIDE DEF P, H, q
<1>7. addr = P * q + (H - 1) /\ addr = P * q + H - 1
  <2> DEFINE half == IF r.size = 1 THEN 1 ELSE r.size \div 2
  <2>1. half = H
    BY <1>4
  <2>2. addr = (r.start - (r.start % half)) + half - 1
    BY DEF ToNapot
  <2>3. r.start % H = 0
    <3>1. P * q = H * (2 * q) + 0 /\ 2 * q \in Nat /\ 0 \in 0 .. H - 1
      BY <1>4, <1>5
    <3>2. (H * (2 * q) + 0) % H = 0
      BY <1>4, <3>1, ModSplit
    <3>3. QED BY <1>5, <3>1, <3>2
  <2>4. P * q \in Nat
    BY <1>4, <1>5
  <2> HIDE DEF half
  <2>5. addr = (r.start - 0) + H - 1
    BY <2>1, <2>2, <2>3
  <2>6. QED BY <1>2, <1>4, <1>5, <2>5
<1>8. addr % P = H - 1 /\ addr \div P = q
  <2>1. H - 1 \in 0 .. P - 1
    BY <1>4
  <2>2. (P * q + (H - 1)) % P = H - 1 /\ (P * q + (H - 1)) \div P = q
    BY <1>4, <1>5, <2>1, ModSplit
  <2>3. QED BY <1>7, <2>2
<1>9. addr \in Nat /\ P * q \in Nat
  <2>1. P * q \in Nat
    BY <1>4, <1>5
  <2>2. QED BY <1>4, <1>7, <2>1
<1>10. addr - (addr % P) = r.start
  <2>1. addr = r.start + (H - 1)
    BY <1>5, <1>7
  <2>2. QED BY <1>2, <1>4, <1>8, <2>1
<1>11. NapotSize(addr) = P
  BY <1>6, <1>7
<1>12. QED BY <1>4, <1>5, <1>8, <1>9, <1>10, <1>11

\* A quotient names a block.
LEMMA BlockIs ==
  ASSUME NEW n \in Nat \ {0}, NEW q \in Nat, NEW w \in Nat
  PROVE  w \div n = q <=> n * q =< w /\ w < n * q + n
<1>1. w \div n = q => n * q =< w /\ w < n * q + n
  BY DivIs
<1>2. n * q =< w /\ w < n * q + n => w \div n = q
  BY DivUnique
<1>3. QED BY <1>1, <1>2

LEMMA RegionIs ==
  ASSUME NEW r, Valid(r)
  PROVE  /\ r.start \in Nat /\ r.size \in Nat \ {0} /\ MemSize \in Nat
         /\ r.start + r.size < MemSize /\ 0 < MemSize
BY PmpAssumption, Pow2Positive DEF Valid, MemWord, MemSize

\* The entries that riscv_pmp_region_translate writes for a region.
LEMMA EntriesAre ==
  ASSUME NEW r, Valid(r)
  PROVE  /\ r.mode = "TOR" =>
              /\ Len(EntriesOf(r)) = 2
              /\ EntriesOf(r)[1].a = "NA4" /\ EntriesOf(r)[1].addr = r.start
              /\ EntriesOf(r)[2].a = "TOR"
              /\ EntriesOf(r)[2].addr = r.start + r.size
         /\ r.mode # "TOR" => Len(EntriesOf(r)) = 1
         /\ r.mode # "TOR" /\ r.size = 1 =>
              EntriesOf(r)[1].a = "NA4" /\ EntriesOf(r)[1].addr = r.start
         /\ r.mode # "TOR" /\ r.size # 1 =>
              /\ EntriesOf(r)[1].a = "NAPOT"
              /\ EntriesOf(r)[1].addr = ToNapot(r.start, r.size)
         /\ Len(EntriesOf(r)) \in {1, 2}
         /\ \A x \in 1 .. Len(EntriesOf(r)) :
              EntriesOf(r)[x].perm = r.perm /\ EntriesOf(r)[x].a # "OFF"
<1>1. /\ r.start \in Nat /\ r.size \in Nat \ {0} /\ MemSize \in Nat
      /\ r.start + r.size < MemSize /\ 0 < MemSize
  BY RegionIs
<1>2. CASE r.mode = "TOR"
  <2>1. (r.start + r.size) % MemSize = r.start + r.size
    BY <1>1, ModSmall
  <2>2. EntriesOf(r) = TorEntries(r)
    BY <1>1, <1>2 DEF EntriesOf
  <2>3. QED BY <1>2, <2>1, <2>2 DEF TorEntries
<1>3. CASE r.mode # "TOR"
  <2> DEFINE e == [a |-> IF r.mode = "NA4" \/ r.size = 1 THEN "NA4" ELSE "NAPOT",
                   perm |-> r.perm, lock |-> r.lock,
                   addr |-> ToNapot(r.start, r.size)]
  <2>1. EntriesOf(r) = <<e>>
    BY <1>1, <1>3 DEF EntriesOf
  <2>2. r.mode \in {"NA4", "NAPOT"} /\ (r.mode = "NA4" => r.size = 1)
    BY <1>3 DEF Valid
  <2>3. r.size = 1 => ToNapot(r.start, r.size) = r.start
    <3>1. r.start % 1 = 0
      BY <1>1
    <3>2. QED BY <1>1, <3>1 DEF ToNapot
  <2>4. /\ e.perm = r.perm /\ e.addr = ToNapot(r.start, r.size)
        /\ e.a = IF r.size = 1 THEN "NA4" ELSE "NAPOT"
    BY <2>2
  <2> HIDE DEF e
  <2>5. Len(EntriesOf(r)) = 1 /\ EntriesOf(r)[1] = e
    BY <2>1
  <2>6. QED BY <1>3, <2>3, <2>4, <2>5
<1>4. QED BY <1>2, <1>3

\* es holds the region from its i-th entry on.
HasRegion(es, i, r) ==
  \A x \in 1 .. Len(EntriesOf(r)) : es[i + x - 1] = EntriesOf(r)[x]

\* The entries of a region match its words, and no others; the last of them
\* matches them all.
LEMMA RegionMatches ==
  ASSUME NEW r, Valid(r), NEW es, NEW i \in Nat, HasRegion(es, i, r)
  PROVE  /\ \A x \in 1 .. Len(EntriesOf(r)), w \in Nat :
              Matches(es, i + x - 1, w) => w \in WordsOf(r)
         /\ \A w \in WordsOf(r) : Matches(es, i + Len(EntriesOf(r)) - 1, w)
<1>1. /\ r.start \in Nat /\ r.size \in Nat \ {0}
  BY RegionIs
<1>2. \A w : w \in WordsOf(r) <=> w \in Nat /\ r.start =< w /\ w < r.start + r.size
  BY <1>1 DEF WordsOf
<1>3. CASE r.mode = "TOR"
  <2>1. Len(EntriesOf(r)) = 2
    BY <1>3, EntriesAre
  <2>2. /\ es[i] = EntriesOf(r)[1] /\ es[i + 1] = EntriesOf(r)[2]
        /\ i + 1 - 1 = i /\ i + 2 - 1 = i + 1 /\ i + 1 > 0 /\ (i + 1) - 1 = i
    <3>1. \A x \in 1 .. 2 : es[i + x - 1] = EntriesOf(r)[x]
      BY <2>1 DEF HasRegion
    <3>2. /\ i + 1 - 1 = i /\ i + 2 - 1 = i + 1 /\ i + 1 > 0 /\ (i + 1) - 1 = i
          /\ 1 \in 1 .. 2 /\ 2 \in 1 .. 2
      OBVIOUS
    <3>3. es[i + 1 - 1] = EntriesOf(r)[1] /\ es[i + 2 - 1] = EntriesOf(r)[2]
      BY <3>1, <3>2
    <3>4. QED BY <3>2, <3>3
  <2>3. /\ es[i].a = "NA4" /\ es[i].addr = r.start
        /\ es[i + 1].a = "TOR" /\ es[i + 1].addr = r.start + r.size
    BY <1>3, <2>2, EntriesAre
  <2>4. \A w : Matches(es, i, w) <=> w = r.start
    BY <2>3 DEF Matches
  <2>5. \A w : Matches(es, i + 1, w) <=> w < r.start + r.size /\ w >= r.start
    BY <2>2, <2>3 DEF Matches
  <2>6. \A w \in Nat : Matches(es, i, w) => w \in WordsOf(r)
    BY <1>1, <1>2, <2>4
  <2>7. \A w \in Nat : Matches(es, i + 1, w) <=> w \in WordsOf(r)
    BY <1>1, <1>2, <2>5
  <2>8. \A x \in 1 .. 2 : i + x - 1 = i \/ i + x - 1 = i + 1
    OBVIOUS
  <2>9. \A w \in WordsOf(r) : w \in Nat
    BY <1>2
  <2>10. QED BY <2>1, <2>2, <2>6, <2>7, <2>8, <2>9
<1>4. CASE r.mode # "TOR"
  <2>1. Len(EntriesOf(r)) = 1
    BY <1>4, EntriesAre
  <2>2. es[i] = EntriesOf(r)[1] /\ i + 1 - 1 = i
    <3>1. i + 1 - 1 = i /\ 1 \in 1 .. 1
      OBVIOUS
    <3>2. es[i + 1 - 1] = EntriesOf(r)[1]
      BY <2>1, <3>1 DEF HasRegion
    <3>3. QED BY <3>1, <3>2
  <2>3. \A w \in Nat : Matches(es, i, w) <=> w \in WordsOf(r)
    <3>1. CASE r.size = 1
      <4>1. es[i].a = "NA4" /\ es[i].addr = r.start
        BY <1>4, <2>2, <3>1, EntriesAre
      <4>2. \A w : Matches(es, i, w) <=> w = r.start
        BY <4>1 DEF Matches
      <4>3. QED BY <1>1, <1>2, <3>1, <4>2
    <3>2. CASE r.size # 1
      <4>1. PICK addr : addr = ToNapot(r.start, r.size)
        OBVIOUS
      <4>2. es[i].a = "NAPOT" /\ es[i].addr = addr
        BY <1>4, <2>2, <3>2, <4>1, EntriesAre
      <4>3. Aligned(r)
        BY <1>4, <3>2 DEF Valid
      <4>4. /\ NapotSize(addr) = r.size
            /\ addr \div r.size \in Nat /\ r.start = r.size * (addr \div r.size)
        BY <3>2, <4>1, <4>3, ToNapotIs
      <4>5. \A w : Matches(es, i, w) <=> w \div r.size = addr \div r.size
        BY <4>2, <4>4 DEF Matches
      <4>6. \A w \in Nat : w \div r.size = addr \div r.size
              <=> r.start =< w /\ w < r.start + r.size
        BY <1>1, <4>4, BlockIs
      <4>7. QED BY <1>2, <4>5, <4>6
    <3>3. QED BY <3>1, <3>2
  <2>4. \A x \in 1 .. 1 : i + x - 1 = i
    OBVIOUS
  <2>5. \A w \in WordsOf(r) : w \in Nat
    BY <1>2
  <2>6. QED BY <2>1, <2>2, <2>3, <2>4, <2>5
<1>5. QED BY <1>3, <1>4

\* A buffer is found to be in an entry of a region if it is in the region, and
\* in the last of them whenever it is.
LEMMA RegionValidates ==
  ASSUME NEW c, NEW r, Valid(r), NEW i \in Nat, HasRegion(csr, i, r),
         \A x \in 1 .. Len(EntriesOf(r)) : UserEntry(c, i + x - 1) = csr[i + x - 1],
         NEW start \in Nat, NEW size \in Nat \ {0}
  PROVE  /\ \A x \in 1 .. Len(EntriesOf(r)) :
              is_in_region(c, i + x - 1, start, size)
                => r.start =< start /\ start + size =< r.start + r.size
         /\ r.start =< start /\ start + size =< r.start + r.size =>
              is_in_region(c, i + Len(EntriesOf(r)) - 1, start, size)
<1>1. /\ r.start \in Nat /\ r.size \in Nat \ {0} /\ MemSize \in Nat
      /\ r.start + r.size < MemSize /\ 0 < MemSize
  BY RegionIs
<1> DEFINE within == r.start =< start /\ start + size =< r.start + r.size
           end == start + size - 1
<1>2. within => end \in MemWord
  BY <1>1 DEF MemWord
<1>3. CASE r.mode = "TOR"
  <2>1. Len(EntriesOf(r)) = 2
    BY <1>3, EntriesAre
  <2>2. /\ i + 1 - 1 = i /\ i + 2 - 1 = i + 1 /\ i + 1 # 0 /\ (i + 1) - 1 = i
        /\ 1 \in 1 .. 2 /\ 2 \in 1 .. 2
        /\ \A x \in 1 .. 2 : i + x - 1 = i \/ i + x - 1 = i + 1
    OBVIOUS
  <2>3. /\ csr[i] = EntriesOf(r)[1] /\ csr[i + 1] = EntriesOf(r)[2]
        /\ UserEntry(c, i) = csr[i] /\ UserEntry(c, i + 1) = csr[i + 1]
    <3>1. /\ csr[i + 1 - 1] = EntriesOf(r)[1] /\ csr[i + 2 - 1] = EntriesOf(r)[2]
          /\ UserEntry(c, i + 1 - 1) = csr[i + 1 - 1]
          /\ UserEntry(c, i + 2 - 1) = csr[i + 2 - 1]
      BY <2>1, <2>2 DEF HasRegion
    <3>2. QED BY <2>2, <3>1
  <2>4. /\ csr[i].a = "NA4" /\ csr[i].addr = r.start
        /\ csr[i + 1].a = "TOR" /\ csr[i + 1].addr = r.start + r.size
    BY <1>3, <2>3, EntriesAre
  <2>5. is_in_region(c, i, start, size)
          <=> end \in MemWord /\ start >= r.start /\ end <= r.start
    <3>1. FirstWord(c, i) = r.start
      BY <2>3, <2>4 DEF FirstWord
    <3>2. LastWord(c, i) = r.start
      BY <2>3, <2>4 DEF LastWord
    <3>3. QED BY <2>3, <2>4, <3>1, <3>2 DEF is_in_region
  <2>6. (r.start + r.size - 1) % MemSize = r.start + r.size - 1
    <3>1. r.start + r.size - 1 \in Nat /\ r.start + r.size - 1 < MemSize
      BY <1>1
    <3>2. QED BY <1>1, <3>1, ModSmall
  <2>7. is_in_region(c, i + 1, start, size)
          <=> end \in MemWord /\ start >= r.start /\ end <= r.start + r.size - 1
    <3>1. PICK k : k = i + 1
      OBVIOUS
    <3>2. k # 0 /\ k - 1 = i
      BY <3>1
    <3>3. /\ UserEntry(c, k).a = "TOR" /\ UserEntry(c, k).addr = r.start + r.size
          /\ csr[k - 1].addr = r.start
      BY <2>3, <2>4, <3>1, <3>2
    <3>4. FirstWord(c, k) = r.start
      BY <3>2, <3>3 DEF FirstWord
    <3>5. LastWord(c, k) = r.start + r.size - 1
      <4>1. PICK top : top = r.start + r.size
        OBVIOUS
      <4>2. UserEntry(c, k).a = "TOR" /\ UserEntry(c, k).addr = top
        BY <3>3, <4>1
      <4>3. LastWord(c, k) = (top - 1) % MemSize
        BY <4>2 DEF LastWord
      <4>4. (top - 1) % MemSize = top - 1 /\ top - 1 = r.start + r.size - 1
        BY <1>1, <2>6, <4>1
      <4>5. QED BY <4>3, <4>4
    <3>6. QED BY <3>1, <3>3, <3>4, <3>5 DEF is_in_region
  <2>8. is_in_region(c, i, start, size) => within
    BY <1>1, <2>5
  <2>9. is_in_region(c, i + 1, start, size) <=> within
    <3>1. start >= r.start /\ end <= r.start + r.size - 1 <=> within
      BY <1>1
    <3>2. QED BY <1>2, <2>7, <3>1
  <2> HIDE DEF within
  <2>10. \A x \in 1 .. 2 : is_in_region(c, i + x - 1, start, size) => within
    BY <2>2, <2>8, <2>9
  <2>11. within => is_in_region(c, i + 2 - 1, start, size)
    BY <2>2, <2>9
  <2>12. QED BY <2>1, <2>10, <2>11 DEF within
<1>4. CASE r.mode # "TOR"
  <2>1. Len(EntriesOf(r)) = 1
    BY <1>4, EntriesAre
  <2>2. i + 1 - 1 = i /\ 1 \in 1 .. 1 /\ \A x \in 1 .. 1 : i + x - 1 = i
    OBVIOUS
  <2>3. csr[i] = EntriesOf(r)[1] /\ UserEntry(c, i) = csr[i]
    <3>1. csr[i + 1 - 1] = EntriesOf(r)[1] /\ UserEntry(c, i + 1 - 1) = csr[i + 1 - 1]
      BY <2>1, <2>2 DEF HasRegion
    <3>2. QED BY <2>2, <3>1
  <2>4. is_in_region(c, i, start, size) <=> within
    <3>1. CASE r.size = 1
      <4>1. csr[i].a = "NA4" /\ csr[i].addr = r.start
        BY <1>4, <2>3, <3>1, EntriesAre
      <4>2. is_in_region(c, i, start, size)
              <=> end \in MemWord /\ start >= r.start /\ end <= r.start
        <5>1. FirstWord(c, i) = r.start
          BY <2>3, <4>1 DEF FirstWord
        <5>2. LastWord(c, i) = r.start
          BY <2>3, <4>1 DEF LastWord
        <5>3. QED BY <2>3, <4>1, <5>1, <5>2 DEF is_in_region
      <4>3. start >= r.start /\ end <= r.start <=> within
        BY <1>1, <3>1
      <4>4. QED BY <1>2, <4>2, <4>3
    <3>2. CASE r.size # 1
      <4>1. PICK addr : addr = ToNapot(r.start, r.size)
        OBVIOUS
      <4>2. csr[i].a = "NAPOT" /\ csr[i].addr = addr
        BY <1>4, <2>3, <3>2, <4>1, EntriesAre
      <4>3. Aligned(r)
        BY <1>4, <3>2 DEF Valid
      <4>4. NapotSize(addr) = r.size /\ addr - (addr % r.size) = r.start
        BY <3>2, <4>1, <4>3, ToNapotIs
      <4>5. NapotEnd(addr, r.start) = r.start + r.size - 1
        <5>1. /\ r.start - 1 + r.size \in Nat /\ r.start - 1 + r.size < MemSize
              /\ r.start - 1 + r.size = r.start + r.size - 1
          BY <1>1
        <5>2. (r.start - 1 + r.size) % MemSize = r.start - 1 + r.size
          BY <1>1, <5>1, ModSmall
        <5>3. QED BY <4>4, <5>1, <5>2 DEF NapotEnd
      <4>6. is_in_region(c, i, start, size)
              <=> end \in MemWord /\ start >= r.start /\ end <= r.start + r.size - 1
        <5>1. FirstWord(c, i) = r.start
          BY <2>3, <4>2, <4>4 DEF FirstWord
        <5>2. LastWord(c, i) = r.start + r.size - 1
          BY <2>3, <4>2, <4>5, <5>1 DEF LastWord
        <5>3. QED BY <2>3, <4>2, <5>1, <5>2 DEF is_in_region
      <4>7. start >= r.start /\ end <= r.start + r.size - 1 <=> within
        BY <1>1
      <4>8. QED BY <1>2, <4>6, <4>7
    <3>3. QED BY <3>1, <3>2
  <2> HIDE DEF within
  <2>5. QED BY <2>1, <2>2, <2>4 DEF within
<1>5. QED BY <1>3, <1>4

-----------------------------------------------------------------------------
(* What the entries of several regions mean.                               *)

\* The j-th region is in the entries from at[j] on, in the order of the
\* regions, and the other entries are off.
Placed(es, rs, at) ==
  /\ \A j \in 1 .. Len(rs) :
       /\ Valid(rs[j]) /\ at[j] \in Nat /\ HasRegion(es, at[j], rs[j])
       /\ at[j] + Len(EntriesOf(rs[j])) =< Slots
  /\ \A j, k \in 1 .. Len(rs) : j < k => at[j] + Len(EntriesOf(rs[j])) =< at[k]
  /\ \A i \in Slot : es[i].a # "OFF" =>
       \E j \in 1 .. Len(rs) :
         \E x \in 1 .. Len(EntriesOf(rs[j])) : i = at[j] + x - 1

\* An entry of a region comes before one of a later region.
LEMMA PlacedInOrder ==
  ASSUME NEW es, NEW rs, NEW at, Placed(es, rs, at), Len(rs) \in Nat,
         NEW j \in 1 .. Len(rs), NEW x \in 1 .. Len(EntriesOf(rs[j])),
         NEW k \in 1 .. Len(rs), NEW y \in 1 .. Len(EntriesOf(rs[k])),
         at[j] + x - 1 =< at[k] + y - 1
  PROVE  j =< k
<1> SUFFICES ASSUME k < j PROVE FALSE
  OBVIOUS
<1>1. Valid(rs[j]) /\ Valid(rs[k]) /\ at[j] \in Nat /\ at[k] \in Nat
  BY DEF Placed
<1>2. Len(EntriesOf(rs[j])) \in Nat /\ Len(EntriesOf(rs[k])) \in Nat
  BY <1>1, EntriesAre
<1>3. at[k] + Len(EntriesOf(rs[k])) =< at[j]
  BY DEF Placed
<1>4. QED BY <1>1, <1>2, <1>3

\* The entries that match a word decide as the first region that contains it.
LEMMA PlacedAllows ==
  ASSUME NEW es, NEW rs, NEW at, Placed(es, rs, at), Len(rs) \in Nat,
         NEW w \in MemWord
  PROVE  Allowed(es, w) =
           IF {j \in 1 .. Len(rs) : w \in WordsOf(rs[j])} = {} THEN {}
           ELSE rs[Min({j \in 1 .. Len(rs) : w \in WordsOf(rs[j])})].perm
<1> DEFINE m == {i \in Slot : Matches(es, i, w)}
           K == {j \in 1 .. Len(rs) : w \in WordsOf(rs[j])}
<1>0. w \in Nat /\ Slots \in Nat
  BY PmpAssumption, Pow2Positive DEF MemWord, MemSize
<1>1. Allowed(es, w) = IF m = {} THEN {} ELSE es[Min(m)].perm
  BY Zenon DEF Allowed
<1>2. ASSUME NEW j \in K PROVE m # {} /\ \E x \in 1 .. Len(EntriesOf(rs[j])) :
                                          at[j] + x - 1 \in m
  <2>1. /\ Valid(rs[j]) /\ at[j] \in Nat /\ HasRegion(es, at[j], rs[j])
        /\ at[j] + Len(EntriesOf(rs[j])) =< Slots
    BY DEF Placed
  <2>2. Len(EntriesOf(rs[j])) \in {1, 2}
    BY <2>1, EntriesAre
  <2> DEFINE x == Len(EntriesOf(rs[j]))
  <2>3. Matches(es, at[j] + x - 1, w)
    BY <2>1, RegionMatches
  <2>4. x \in 1 .. x /\ at[j] + x - 1 \in Slot
    <3>1. x \in {1, 2} /\ at[j] + x =< Slots
      BY <2>1, <2>2
    <3> HIDE DEF x
    <3>2. QED BY <1>0, <2>1, <3>1 DEF Slot
  <2>5. QED BY <2>3, <2>4
<1>3. ASSUME NEW i \in m
      PROVE  \E j \in K : /\ es[i].perm = rs[j].perm
                          /\ \E x \in 1 .. Len(EntriesOf(rs[j])) : i = at[j] + x - 1
  <2>1. i \in Slot /\ Matches(es, i, w)
    OBVIOUS
  <2>2. es[i].a # "OFF"
    BY <2>1 DEF Matches
  <2>3. PICK j \in 1 .. Len(rs) :
          \E x \in 1 .. Len(EntriesOf(rs[j])) : i = at[j] + x - 1
    BY <2>1, <2>2 DEF Placed
  <2>9. PICK x \in 1 .. Len(EntriesOf(rs[j])) : i = at[j] + x - 1
    BY <2>3
  <2>4. Valid(rs[j]) /\ at[j] \in Nat /\ HasRegion(es, at[j], rs[j])
    BY DEF Placed
  <2>5. w \in WordsOf(rs[j])
    BY <1>0, <2>1, <2>4, <2>9, RegionMatches
  <2>6. es[i] = EntriesOf(rs[j])[x]
    BY <2>4, <2>9 DEF HasRegion
  <2>7. es[i].perm = rs[j].perm
    BY <2>4, <2>6, EntriesAre
  <2>8. QED BY <2>5, <2>7, <2>9
<1>4. m \in SUBSET Nat /\ K \in SUBSET Nat /\ K \in SUBSET Int
  BY <1>0 DEF Slot
<1>5. CASE K = {}
  <2>1. m = {}
    BY <1>3, <1>5
  <2>2. QED BY <1>1, <1>5, <2>1
<1>6. CASE K # {}
  <2>1. m # {}
    BY <1>2, <1>6
  <2> DEFINE i == Min(m)
  <2>2. i \in m /\ \A y \in m : i =< y
    <3> HIDE DEF m
    <3>1. QED BY <1>4, <2>1, FirstOf
  <2> HIDE DEF i
  <2>3. PICK j \in K : /\ es[i].perm = rs[j].perm
                       /\ \E x \in 1 .. Len(EntriesOf(rs[j])) : i = at[j] + x - 1
    BY <1>3, <2>2
  <2>8. PICK x \in 1 .. Len(EntriesOf(rs[j])) : i = at[j] + x - 1
    BY <2>3
  <2>4. ASSUME NEW k \in K PROVE j =< k
    <3>1. PICK y \in 1 .. Len(EntriesOf(rs[k])) : at[k] + y - 1 \in m
      BY <1>2
    <3>2. at[j] + x - 1 =< at[k] + y - 1
      BY <2>2, <2>8, <3>1
    <3>3. QED BY <2>8, <3>2, PlacedInOrder
  <2>5. Min(K) = j
    <3> HIDE DEF K
    <3>1. QED BY <1>4, <2>3, <2>4, MinIs
  <2>6. Allowed(es, w) = rs[Min(K)].perm
    BY <1>1, <2>1, <2>3, <2>5 DEF i
  <2> HIDE DEF K
  <2>7. QED BY <1>6, <2>6 DEF K
<1>7. QED BY <1>5, <1>6

\* The positions of three sequences in a row.
LEMMA JoinedIs ==
  ASSUME NEW S, NEW a \in Seq(S), NEW b \in Seq(S), NEW c \in Seq(S)
  PROVE  /\ Len(a \o b \o c) = Len(a) + Len(b) + Len(c)
         /\ \A j \in 1 .. Len(a) : (a \o b \o c)[j] = a[j]
         /\ \A j \in 1 .. Len(b) : (a \o b \o c)[Len(a) + j] = b[j]
         /\ \A j \in 1 .. Len(c) : (a \o b \o c)[Len(a) + Len(b) + j] = c[j]
<1> DEFINE u == a \o b
           v == u \o c
<1>1. Len(a) \in Nat /\ Len(b) \in Nat /\ Len(c) \in Nat
  OBVIOUS
<1>2. /\ u \in Seq(S) /\ Len(u) = Len(a) + Len(b)
      /\ \A j \in 1 .. Len(a) + Len(b) :
           u[j] = IF j =< Len(a) THEN a[j] ELSE b[j - Len(a)]
  BY ConcatProperties
<1> HIDE DEF u
<1>3. /\ Len(v) = Len(u) + Len(c)
      /\ \A j \in 1 .. Len(u) + Len(c) :
           v[j] = IF j =< Len(u) THEN u[j] ELSE c[j - Len(u)]
  <2>1. u \in Seq(S)
    BY <1>2
  <2>2. QED BY <2>1, ConcatProperties
<1> HIDE DEF v
<1>4. \A j \in 1 .. Len(a) : v[j] = a[j]
  <2> TAKE j \in 1 .. Len(a)
  <2>1. /\ j \in 1 .. Len(a) + Len(b) /\ j =< Len(a) /\ j =< Len(u)
        /\ j \in 1 .. Len(u) + Len(c)
    BY <1>1, <1>2
  <2>2. QED BY <1>2, <1>3, <2>1
<1>5. \A j \in 1 .. Len(b) : v[Len(a) + j] = b[j]
  <2> TAKE j \in 1 .. Len(b)
  <2>1. /\ Len(a) + j \in 1 .. Len(a) + Len(b) /\ ~(Len(a) + j =< Len(a))
        /\ Len(a) + j =< Len(u) /\ Len(a) + j \in 1 .. Len(u) + Len(c)
        /\ Len(a) + j - Len(a) = j
    BY <1>1, <1>2
  <2>2. QED BY <1>2, <1>3, <2>1
<1>6. \A j \in 1 .. Len(c) : v[Len(a) + Len(b) + j] = c[j]
  <2> TAKE j \in 1 .. Len(c)
  <2>1. /\ Len(u) + j \in 1 .. Len(u) + Len(c) /\ ~(Len(u) + j =< Len(u))
        /\ Len(u) + j - Len(u) = j
    BY <1>1, <1>2
  <2>2. v[Len(u) + j] = c[j]
    BY <1>3, <2>1
  <2>3. QED BY <1>2, <2>2
<1>7. Len(v) = Len(a) + Len(b) + Len(c)
  BY <1>2, <1>3
<1>8. QED BY <1>4, <1>5, <1>6, <1>7 DEF u, v

-----------------------------------------------------------------------------
(* The regions of a context that is in force.                              *)

LEMMA UsedIs ==
  ASSUME PmpInv
  PROVE  /\ UsedEntries \in {1, 2} /\ Slots \in Nat /\ Slots >= 4
         /\ static_regions_num # 0 =>
              /\ static_regions_num = UsedEntries
              /\ max_dynamic_region = Slots - UsedEntries - 1
         /\ max_dynamic_region \in Int /\ max_dynamic_region < Slots
         /\ UsedEntries - 1 =< max_dynamic_region
<1>1. /\ UsedEntries \in {1, 2} /\ Slots \in Nat /\ Slots >= 4
      /\ static_regions_num \in {0, UsedEntries}
  BY PmpAssumption DEF PmpInv, UsedEntries
<1>2. QED BY <1>1 DEF max_dynamic_region

\* The regions that are not added are valid as well.
LEMMA FixedValid ==
  ASSUME PmpInv
  PROVE  /\ Valid(StackRegion) /\ Len(EntriesOf(StackRegion)) = UsedEntries
         /\ Valid(RomRegion) /\ Len(EntriesOf(RomRegion)) = UsedEntries
<1>1. /\ mode \in {"TOR", "NAPOT"}
      /\ mode = "NAPOT" => Aligned(Stack) /\ Aligned(Rom)
  BY DEF PmpInv
<1>2. ASSUME NEW r \in {Stack, Rom}, NEW p, NEW l, NEW g,
             g = [start |-> r.start, size |-> r.size, perm |-> p, lock |-> l,
                  mode |-> mode]
      PROVE  Valid(g) /\ Len(EntriesOf(g)) = UsedEntries
  <2>1. /\ r.start \in MemWord /\ r.size \in 0 .. MemSize - 1 - r.start
        /\ r.size # 0
    BY PmpAssumption
  <2>2. MemSize \in Nat /\ r.start \in Nat
    BY <2>1, PmpAssumption, Pow2Positive DEF MemSize, MemWord
  <2>3. g.start = r.start /\ g.size = r.size /\ g.mode = mode
    BY <1>2
  <2>4. mode = "NAPOT" => Aligned(g)
    BY <1>1, <2>3 DEF Aligned
  <2>5. g.size \in 1 .. MemSize - 1 - g.start
    BY <2>1, <2>2, <2>3
  <2>6. Valid(g)
    BY <1>1, <2>1, <2>3, <2>4, <2>5 DEF Valid
  <2>7. QED BY <1>1, <2>3, <2>6, EntriesAre DEF UsedEntries
<1>3. Valid(StackRegion) /\ Len(EntriesOf(StackRegion)) = UsedEntries
  BY <1>2 DEF StackRegion
<1>4. Valid(RomRegion) /\ Len(EntriesOf(RomRegion)) = UsedEntries
  BY <1>2 DEF RomRegion
<1>5. QED BY <1>3, <1>4

HasStack(c) == IF IsFree(u_pmp[c][0]) THEN 0 ELSE 1

LEMMA RegionsAre ==
  ASSUME PmpInv, NEW c \in Ctx, static_regions_num # 0
  PROVE  /\ Len(added[c]) \in Nat
         /\ Len(RegionsOf(c)) = HasStack(c) + Len(added[c]) + 1
         /\ HasStack(c) = 1 => RegionsOf(c)[1] = StackRegion
         /\ \A k \in 1 .. Len(added[c]) : RegionsOf(c)[HasStack(c) + k] = Added(c, k)
         /\ RegionsOf(c)[HasStack(c) + Len(added[c]) + 1] = RomRegion
<1> DEFINE n == Len(added[c])
           S == {StackRegion, RomRegion} \cup {Added(c, k) : k \in 1 .. n}
           x == IF IsFree(u_pmp[c][0]) THEN <<>> ELSE <<StackRegion>>
           y == [k \in 1 .. n |-> Added(c, k)]
           z == <<RomRegion>>
           d == HasStack(c)
<1>1. n \in Nat
  BY DEF PmpInv
<1> HIDE DEF n
<1>2. x \in Seq(S) /\ Len(x) = d /\ d \in {0, 1} /\ (d = 1 => x[1] = StackRegion)
  <2>1. CASE IsFree(u_pmp[c][0])
    <3>1. x = <<>> /\ d = 0
      BY <2>1 DEF HasStack
    <3> HIDE DEF x, d
    <3>2. QED BY <3>1
  <2>2. CASE ~IsFree(u_pmp[c][0])
    <3>1. x = <<StackRegion>> /\ d = 1 /\ StackRegion \in S
      BY <2>2 DEF HasStack
    <3> HIDE DEF x, d, S
    <3>2. QED BY <3>1
  <2>3. QED BY <2>1, <2>2
<1>3. y \in Seq(S) /\ Len(y) = n /\ \A k \in 1 .. n : y[k] = Added(c, k)
  <2>1. y \in [1 .. n -> S]
    OBVIOUS
  <2> HIDE DEF S
  <2>2. y \in Seq(S)
    BY <1>1, <2>1
  <2>3. QED BY <1>1, <2>2
<1>4. z \in Seq(S) /\ Len(z) = 1 /\ z[1] = RomRegion
  OBVIOUS
<1>5. RegionsOf(c) = x \o y \o z
  BY DEF RegionsOf, Added, n
<1> HIDE DEF S, x, y, z, d
<1> DEFINE v == x \o y \o z
<1>6. /\ Len(v) = Len(x) + Len(y) + Len(z)
      /\ \A j \in 1 .. Len(x) : v[j] = x[j]
      /\ \A j \in 1 .. Len(y) : v[Len(x) + j] = y[j]
      /\ \A j \in 1 .. Len(z) : v[Len(x) + Len(y) + j] = z[j]
  <2>1. x \in Seq(S) /\ y \in Seq(S) /\ z \in Seq(S)
    BY <1>2, <1>3, <1>4
  <2>2. QED BY <2>1, JoinedIs
<1> HIDE DEF v
<1>7. /\ Len(v) = d + n + 1
      /\ d = 1 => v[1] = StackRegion
      /\ \A k \in 1 .. n : v[d + k] = Added(c, k)
      /\ v[d + n + 1] = RomRegion
  <2>1. 1 \in 1 .. Len(z)
    BY <1>4
  <2>2. v[d + n + 1] = RomRegion
    BY <1>2, <1>3, <1>4, <1>6, <2>1
  <2>3. \A k \in 1 .. n : v[d + k] = Added(c, k)
    BY <1>2, <1>3, <1>6
  <2>4. d = 1 => v[1] = StackRegion
    BY <1>2, <1>6
  <2>5. QED BY <1>2, <1>3, <1>4, <1>6, <2>2, <2>3, <2>4
<1>8. QED BY <1>1, <1>5, <1>7 DEF v, n, d

\* Where the regions of a context start.
Places(c) ==
  [j \in 1 .. Len(RegionsOf(c)) |->
     IF j =< HasStack(c) THEN 0
     ELSE IF j =< HasStack(c) + Len(added[c]) THEN Base(c, j - HasStack(c) - 1) + 1
     ELSE max_dynamic_region + 1]

\* What the invariant says of the entries of a context in force.
LEMMA InForceIs ==
  ASSUME PmpInv, NEW c \in Ctx, InForce(c), Fits(c), static_regions_num # 0
  PROVE  /\ \A i \in 0 .. max_dynamic_region : csr[i] = u_pmp[c][i]
         /\ HasStack(c) = 1 => HasRegion(csr, 0, StackRegion)
         /\ HasStack(c) = 0 => \A i \in 0 .. UsedEntries - 1 : csr[i].a = "OFF"
         /\ UsedEntries =< max_dynamic_region => csr[UsedEntries].a = "OFF"
         /\ HasRegion(csr, max_dynamic_region + 1, RomRegion)
         /\ Laid(c)
         /\ \A k \in 0 .. Len(added[c]) : Base(c, k) \in Nat
         /\ \A k \in 1 .. Len(added[c]) :
              /\ Base(c, k) =< max_dynamic_region
              /\ HasRegion(csr, Base(c, k - 1) + 1, Added(c, k))
<1> DEFINE U == UsedEntries
           M == max_dynamic_region
           n == Len(added[c])
<1>1. /\ U \in {1, 2} /\ Slots \in Nat /\ Slots >= 4 /\ M = Slots - U - 1
  BY UsedIs
<1>2. /\ StackLaid(c) /\ IsFree(u_pmp[c][U]) /\ Laid(c) /\ n \in Nat
      /\ \A x \in 1 .. U : csr[M + x] = EntriesOf(RomRegion)[x]
  BY DEF PmpInv, ContextInv
<1>3. /\ Valid(StackRegion) /\ Len(EntriesOf(StackRegion)) = U
      /\ Valid(RomRegion) /\ Len(EntriesOf(RomRegion)) = U
  BY FixedValid
<1>4. \A i \in 0 .. M : csr[i] = u_pmp[c][i]
  BY DEF InForce
<1>5. \A k \in 1 .. n : Base(c, k) \in 0 .. M
  BY DEF Fits, Base
<1>6. Base(c, 0) = U
  BY DEF Base
<1>7. /\ \A k \in 0 .. n : Base(c, k) \in Nat
      /\ \A k \in 1 .. n : Base(c, k) =< M
  <2> HIDE DEF U, M, n
  <2>1. QED BY <1>1, <1>2, <1>5, <1>6
<1> HIDE DEF U, M, n
<1>8. ASSUME NEW k \in 1 .. n
      PROVE  HasRegion(csr, Base(c, k - 1) + 1, Added(c, k))
  <2> DEFINE es == EntriesOf(Added(c, k))
             b == Base(c, k - 1)
  <2>1. /\ Valid(Added(c, k)) /\ Base(c, k) = b + Len(es)
        /\ \A x \in 1 .. Len(es) : u_pmp[c][b + x] = es[x]
    BY <1>2 DEF Laid, n
  <2>2. Len(es) \in {1, 2}
    BY <2>1, EntriesAre
  <2>3. b \in Nat /\ Base(c, k) =< M
    BY <1>2, <1>7
  <2> SUFFICES ASSUME NEW x \in 1 .. Len(es) PROVE csr[b + 1 + x - 1] = es[x]
    BY DEF HasRegion
  <2> HIDE DEF es, b
  <2>4. b + x \in 0 .. M /\ b + 1 + x - 1 = b + x
    BY <1>1, <2>1, <2>2, <2>3
  <2>5. QED BY <1>4, <2>1, <2>4
<1>9. HasRegion(csr, M + 1, RomRegion)
  <2> SUFFICES ASSUME NEW x \in 1 .. U
               PROVE  csr[M + 1 + x - 1] = EntriesOf(RomRegion)[x]
    BY <1>3 DEF HasRegion
  <2>1. M + 1 + x - 1 = M + x
    BY <1>1
  <2>2. QED BY <1>2, <2>1
<1>10. \A i \in 0 .. U - 1 : i \in 0 .. M
  BY <1>1
<1>11. EntriesOf(StackRegion)[1].a # "OFF" /\ 1 \in 1 .. U /\ 0 \in 0 .. U - 1
  <2>1. 1 \in 1 .. U /\ 0 \in 0 .. U - 1
    BY <1>1
  <2>2. QED BY <1>3, <2>1, EntriesAre
<1>12. ASSUME HasStack(c) = 1
       PROVE  HasRegion(csr, 0, StackRegion)
  <2>1. ~IsFree(u_pmp[c][0])
    BY <1>12 DEF HasStack
  <2>2. \A x \in 1 .. U : u_pmp[c][x - 1] = EntriesOf(StackRegion)[x]
    BY <1>2, <1>11, <2>1 DEF StackLaid, U
  <2> SUFFICES ASSUME NEW x \in 1 .. U
               PROVE  csr[0 + x - 1] = EntriesOf(StackRegion)[x]
    BY <1>3 DEF HasRegion
  <2>3. 0 + x - 1 = x - 1 /\ x - 1 \in 0 .. U - 1
    BY <1>1
  <2>4. QED BY <1>4, <1>10, <2>2, <2>3
<1>13. ASSUME HasStack(c) = 0
       PROVE  \A i \in 0 .. U - 1 : csr[i].a = "OFF"
  <2>1. IsFree(u_pmp[c][0])
    BY <1>13 DEF HasStack
  <2>2. u_pmp[c][0].a = "OFF"
    BY <2>1 DEF IsFree
  <2>3. ~(\A x \in 1 .. U : u_pmp[c][x - 1] = EntriesOf(StackRegion)[x])
    <3>1. 1 - 1 = 0
      OBVIOUS
    <3>2. u_pmp[c][1 - 1] # EntriesOf(StackRegion)[1]
      BY <1>11, <2>2, <3>1
    <3>3. QED BY <1>11, <3>2
  <2>4. \A i \in 0 .. U - 1 : IsFree(u_pmp[c][i])
    BY <1>2, <2>3 DEF StackLaid, U
  <2>5. QED BY <1>4, <1>10, <2>4 DEF IsFree
<1>14. U =< M => csr[U].a = "OFF"
  <2>1. U =< M => U \in 0 .. M
    BY <1>1
  <2>2. QED BY <1>2, <1>4, <2>1 DEF IsFree
<1>15. QED
  BY <1>2, <1>4, <1>7, <1>8, <1>9, <1>12, <1>13, <1>14 DEF U, M, n

LEMMA PlacesAre ==
  ASSUME PmpInv, NEW c \in Ctx, InForce(c), Fits(c), static_regions_num # 0
  PROVE  Placed(csr, RegionsOf(c), Places(c)) /\ Len(RegionsOf(c)) \in Nat
<1> DEFINE U == UsedEntries
           M == max_dynamic_region
           n == Len(added[c])
           d == HasStack(c)
           rs == RegionsOf(c)
           at == Places(c)
           L(j) == Len(EntriesOf(rs[j]))
<1>1. /\ U \in {1, 2} /\ Slots \in Nat /\ Slots >= 4 /\ M = Slots - U - 1
  BY UsedIs
<1>2. /\ Valid(StackRegion) /\ Len(EntriesOf(StackRegion)) = U
      /\ Valid(RomRegion) /\ Len(EntriesOf(RomRegion)) = U
  BY FixedValid
<1>3. /\ n \in Nat /\ Len(rs) = d + n + 1
      /\ d = 1 => rs[1] = StackRegion
      /\ \A k \in 1 .. n : rs[d + k] = Added(c, k)
      /\ rs[d + n + 1] = RomRegion
  BY RegionsAre
<1>4. d \in {0, 1}
  BY DEF HasStack
<1>5. /\ \A i \in 0 .. M : csr[i] = u_pmp[c][i]
      /\ d = 1 => HasRegion(csr, 0, StackRegion)
      /\ d = 0 => \A i \in 0 .. U - 1 : csr[i].a = "OFF"
      /\ U =< M => csr[U].a = "OFF"
      /\ HasRegion(csr, M + 1, RomRegion)
      /\ \A k \in 0 .. n : Base(c, k) \in Nat
      /\ \A k \in 1 .. n :
           /\ Base(c, k) =< M
           /\ HasRegion(csr, Base(c, k - 1) + 1, Added(c, k))
  BY InForceIs
<1>6. /\ \A k \in 1 .. n :
           /\ Valid(Added(c, k))
           /\ Base(c, k) = Base(c, k - 1) + Len(EntriesOf(Added(c, k)))
      /\ \A j, k \in 0 .. n : j < k => Base(c, j) < Base(c, k)
      /\ \A i \in U + 1 .. Base(c, n) :
           \E k \in 1 .. n : Base(c, k - 1) < i /\ i <= Base(c, k)
      /\ \A i \in Base(c, n) + 1 .. M : IsFree(u_pmp[c][i])
  <2>1. Laid(c)
    BY InForceIs
  <2>2. QED BY <2>1 DEF Laid
<1>7. Base(c, 0) = U
  BY DEF Base
<1>8. \A j \in 1 .. Len(rs) :
        at[j] = IF j =< d THEN 0 ELSE IF j =< d + n THEN Base(c, j - d - 1) + 1
                ELSE M + 1
  BY DEF Places
<1> HIDE DEF U, M, n, d, rs, at
\* The kinds of regions: the stack, those added, the program.
<1>9. ASSUME NEW j \in 1 .. Len(rs)
      PROVE  \/ j = 1 /\ d = 1 /\ rs[j] = StackRegion /\ at[j] = 0
             \/ \E k \in 1 .. n : j = d + k /\ rs[j] = Added(c, k)
                                  /\ at[j] = Base(c, k - 1) + 1
             \/ j = d + n + 1 /\ rs[j] = RomRegion /\ at[j] = M + 1
  <2>1. CASE j =< d
    <3>1. j = 1 /\ d = 1
      BY <1>3, <1>4, <2>1
    <3>2. QED BY <1>3, <1>8, <2>1, <3>1
  <2>2. CASE ~(j =< d) /\ j =< d + n
    <3>1. j - d \in 1 .. n /\ j = d + (j - d)
      BY <1>3, <1>4, <2>2
    <3>2. rs[j] = Added(c, j - d) /\ at[j] = Base(c, (j - d) - 1) + 1
      BY <1>3, <1>8, <2>2, <3>1
    <3>3. QED BY <3>1, <3>2
  <2>3. CASE ~(j =< d + n)
    <3>1. j = d + n + 1 /\ ~(j =< d)
      BY <1>3, <1>4, <2>3
    <3>2. QED BY <1>3, <1>8, <2>3, <3>1
  <2>4. QED BY <2>1, <2>2, <2>3
<1>10. \A k \in 1 .. n : k - 1 \in 0 .. n /\ k \in 0 .. n
  BY <1>3
<1>11. ASSUME NEW j \in 1 .. Len(rs)
       PROVE  /\ Valid(rs[j]) /\ at[j] \in Nat /\ HasRegion(csr, at[j], rs[j])
              /\ at[j] + L(j) =< Slots
  <2>1. CASE j = 1 /\ d = 1 /\ rs[j] = StackRegion /\ at[j] = 0
    BY <1>1, <1>2, <1>5, <2>1
  <2>2. ASSUME NEW k \in 1 .. n, rs[j] = Added(c, k), at[j] = Base(c, k - 1) + 1
        PROVE  /\ Valid(rs[j]) /\ at[j] \in Nat /\ HasRegion(csr, at[j], rs[j])
               /\ at[j] + L(j) =< Slots
    <3>1. Base(c, k - 1) \in Nat /\ Base(c, k) \in Nat /\ Base(c, k) =< M
      BY <1>5, <1>10
    <3>2. Valid(rs[j]) /\ Base(c, k) = Base(c, k - 1) + L(j)
      BY <1>6, <2>2
    <3>3. L(j) \in {1, 2}
      BY <3>2, EntriesAre
    <3>4. HasRegion(csr, at[j], rs[j])
      BY <1>5, <2>2
    <3> HIDE DEF L
    <3>5. at[j] \in Nat /\ at[j] + L(j) =< Slots
      BY <1>1, <2>2, <3>1, <3>2, <3>3
    <3>6. QED BY <3>2, <3>4, <3>5 DEF L
  <2>3. CASE rs[j] = RomRegion /\ at[j] = M + 1
    BY <1>1, <1>2, <1>5, <2>3
  <2>4. QED BY <1>9, <2>1, <2>2, <2>3
<1>12. ASSUME NEW j \in 1 .. Len(rs), NEW k \in 1 .. Len(rs), j < k
       PROVE  at[j] + L(j) =< at[k]
  <2>1. CASE j = 1 /\ d = 1 /\ rs[j] = StackRegion /\ at[j] = 0
    <3>1. L(j) = U
      BY <1>2, <2>1
    <3>2. CASE at[k] = M + 1
      BY <1>1, <2>1, <3>1, <3>2
    <3>3. ASSUME NEW y \in 1 .. n, at[k] = Base(c, y - 1) + 1
          PROVE  at[j] + L(j) =< at[k]
      <4>1. y - 1 \in 0 .. n /\ 0 \in 0 .. n /\ (y - 1 = 0 \/ 0 < y - 1)
        BY <1>3
      <4>2. U =< Base(c, y - 1) /\ Base(c, y - 1) \in Nat
        BY <1>1, <1>5, <1>6, <1>7, <4>1
      <4>3. QED BY <1>1, <2>1, <3>1, <3>3, <4>2
    <3>4. k # 1
      BY <1>12, <2>1
    <3>5. QED BY <1>9, <3>2, <3>3, <3>4
  <2>2. ASSUME NEW x \in 1 .. n, j = d + x, rs[j] = Added(c, x),
               at[j] = Base(c, x - 1) + 1
        PROVE  at[j] + L(j) =< at[k]
    <3>1. /\ Base(c, x) = Base(c, x - 1) + L(j) /\ Base(c, x) =< M
          /\ Base(c, x - 1) \in Nat /\ Base(c, x) \in Nat
      BY <1>5, <1>6, <1>10, <2>2
    <3>2. L(j) \in {1, 2}
      <4>1. Valid(rs[j])
        BY <1>11
      <4>2. QED BY <4>1, EntriesAre
    <3> HIDE DEF L
    <3>3. at[j] + L(j) = Base(c, x) + 1
      BY <2>2, <3>1, <3>2
    <3>4. CASE at[k] = M + 1
      BY <1>1, <3>1, <3>3, <3>4
    <3>5. ASSUME NEW y \in 1 .. n, k = d + y, at[k] = Base(c, y - 1) + 1
          PROVE  at[j] + L(j) =< at[k]
      <4>1. x \in 0 .. n /\ y - 1 \in 0 .. n /\ (x = y - 1 \/ x < y - 1)
        BY <1>3, <1>4, <1>12, <2>2, <3>5
      <4>2. Base(c, x) =< Base(c, y - 1) /\ Base(c, y - 1) \in Nat
        <5>1. x = y - 1 \/ Base(c, x) < Base(c, y - 1)
          BY <1>6, <4>1
        <5>2. Base(c, y - 1) \in Nat
          BY <1>5, <4>1
        <5>3. QED BY <3>1, <5>1, <5>2
      <4>3. QED BY <3>1, <3>3, <3>5, <4>2
    <3>6. k # 1
      BY <1>12
    <3>7. QED BY <1>9, <3>4, <3>5, <3>6
  <2>3. j # d + n + 1
    BY <1>3, <1>4, <1>12
  <2>4. QED BY <1>9, <2>1, <2>2, <2>3
<1>13. ASSUME NEW i \in Slot, csr[i].a # "OFF"
       PROVE  \E j \in 1 .. Len(rs) : \E x \in 1 .. L(j) : i = at[j] + x - 1
  <2>0. i \in Nat /\ i < Slots
    BY <1>1 DEF Slot
  <2>1. CASE i > M
    <3>1. d + n + 1 \in 1 .. Len(rs) /\ ~(d + n + 1 =< d) /\ ~(d + n + 1 =< d + n)
      BY <1>3, <1>4
    <3>2. at[d + n + 1] = M + 1 /\ L(d + n + 1) = U
      BY <1>2, <1>3, <1>8, <3>1
    <3>3. i - M \in 1 .. U /\ i = M + 1 + (i - M) - 1
      BY <1>1, <2>0, <2>1
    <3>4. QED BY <3>1, <3>2, <3>3
  <2>2. CASE i < U
    <3>1. d = 1
      <4>1. i \in 0 .. U - 1
        BY <1>1, <2>0, <2>2
      <4>2. QED BY <1>4, <1>5, <1>13, <4>1
    <3>2. 1 \in 1 .. Len(rs) /\ at[1] = 0 /\ L(1) = U
      BY <1>2, <1>3, <1>8, <3>1
    <3>3. i + 1 \in 1 .. U /\ i = 0 + (i + 1) - 1
      BY <1>1, <2>0, <2>2
    <3>4. QED BY <3>2, <3>3
  <2>3. CASE U =< i /\ i =< M
    <3>1. i # U
      BY <1>5, <1>13, <2>3
    <3>2. csr[i] = u_pmp[c][i]
      BY <1>1, <1>5, <2>0, <2>3
    <3>3. Base(c, n) \in Nat
      BY <1>3, <1>5
    <3>4. ~(i \in Base(c, n) + 1 .. M)
      BY <1>6, <1>13, <3>2 DEF IsFree
    <3>5. i \in U + 1 .. Base(c, n)
      BY <1>1, <2>0, <2>3, <3>1, <3>3, <3>4
    <3>6. PICK k \in 1 .. n : Base(c, k - 1) < i /\ i <= Base(c, k)
      BY <1>6, <3>5
    <3>7. PICK j : j = d + k
      OBVIOUS
    <3>13. j \in 1 .. Len(rs) /\ ~(j =< d) /\ j =< d + n /\ j - d - 1 = k - 1
      BY <1>3, <1>4, <3>7
    <3>8. at[j] = Base(c, k - 1) + 1 /\ rs[j] = Added(c, k)
      <4>1. at[j] = Base(c, j - d - 1) + 1
        BY <1>8, <3>13
      <4>2. rs[j] = Added(c, k)
        BY <1>3, <3>7
      <4>3. QED BY <3>13, <4>1, <4>2
    <3>9. /\ Base(c, k) = Base(c, k - 1) + L(j)
          /\ Base(c, k - 1) \in Nat /\ Base(c, k) \in Nat
      BY <1>5, <1>6, <1>10, <3>8
    <3>10. L(j) \in {1, 2}
      <4>1. Valid(rs[j])
        BY <1>11, <3>13
      <4>2. QED BY <4>1, EntriesAre
    <3> HIDE DEF L
    <3>11. /\ i - Base(c, k - 1) \in 1 .. L(j)
           /\ i = Base(c, k - 1) + 1 + (i - Base(c, k - 1)) - 1
      BY <2>0, <3>6, <3>9, <3>10
    <3>12. QED BY <3>8, <3>11, <3>13
  <2>4. QED BY <1>1, <2>0, <2>1, <2>2, <2>3
<1>14. Len(rs) \in Nat
  BY <1>3, <1>4
<1>15. Placed(csr, rs, at)
  BY <1>11, <1>12, <1>13 DEF Placed
<1>16. QED BY <1>14, <1>15 DEF rs, at

-----------------------------------------------------------------------------
(* The properties follow from the invariant.                               *)

\* The regions that contain a word.
Containing(c, w) ==
  {j \in 1 .. Len(RegionsOf(c)) : w \in WordsOf(RegionsOf(c)[j])}

\* Before the static regions are written there are none.
LEMMA NothingYet ==
  ASSUME PmpInv, NEW c \in Ctx, static_regions_num = 0
  PROVE  /\ Len(RegionsOf(c)) = 0
         /\ \A i \in Slot : csr[i].a = "OFF" /\ UserEntry(c, i).a = "OFF"
<1>1. Untouched
  BY DEF PmpInv
<1>2. \A i \in Slot : csr[i].a = "OFF" /\ UserEntry(c, i).a = "OFF"
  BY <1>1 DEF Untouched, IsFree, UserEntry
<1>3. Len(RegionsOf(c)) = 0
  <2> DEFINE n == Len(added[c])
             S == {Added(c, k) : k \in 1 .. n}
             y == [k \in 1 .. n |-> Added(c, k)]
  <2>1. n = 0
    BY <1>1 DEF Untouched
  <2>2. 0 \in Slot
    BY PmpAssumption DEF Slot
  <2>3. RegionsOf(c) = <<>> \o y \o <<>>
    BY <1>1, <2>2 DEF RegionsOf, Untouched, Added
  <2>4. y \in Seq(S) /\ Len(y) = 0
    <3>1. y \in [1 .. n -> S]
      OBVIOUS
    <3> HIDE DEF n, S
    <3>2. y \in Seq(S)
      BY <2>1, <3>1
    <3>3. QED BY <2>1, <3>2
  <2> HIDE DEF n, S, y
  <2>5. <<>> \in Seq(S) /\ Len(<<>>) = 0
    OBVIOUS
  <2>6. Len(<<>> \o y \o <<>>) = Len(<<>>) + Len(y) + Len(<<>>)
    BY <2>4, <2>5, JoinedIs
  <2>7. QED BY <2>3, <2>4, <2>5, <2>6
<1>4. QED BY <1>2, <1>3

\* The hardware decides as the first region that contains the word.
LEMMA WordAllowed ==
  ASSUME PmpInv, NEW c \in Ctx, InForce(c), Fits(c), NEW w \in MemWord
  PROVE  Allowed(csr, w) = IF Containing(c, w) = {} THEN {}
                           ELSE RegionsOf(c)[Min(Containing(c, w))].perm
<1>1. CASE static_regions_num = 0
  <2>1. Containing(c, w) = {}
    BY <1>1, NothingYet DEF Containing
  <2>2. {i \in Slot : Matches(csr, i, w)} = {}
    BY <1>1, NothingYet DEF Matches
  <2>3. Allowed(csr, w) = {}
    BY <2>2, Zenon DEF Allowed
  <2>4. QED BY <2>1, <2>3
<1>2. CASE static_regions_num # 0
  <2>1. Placed(csr, RegionsOf(c), Places(c)) /\ Len(RegionsOf(c)) \in Nat
    BY <1>2, PlacesAre
  <2>2. QED BY <2>1, PlacedAllows DEF Containing
<1>3. QED BY <1>1, <1>2

LEMMA InvAsAdded == PmpInv => AsAdded
<1> SUFFICES ASSUME PmpInv, NEW c \in Ctx, InForce(c), Fits(c), NEW w \in MemWord
             PROVE  Allowed(csr, w) = IF Containing(c, w) = {} THEN {}
                                      ELSE RegionsOf(c)[Min(Containing(c, w))].perm
  BY Zenon DEF AsAdded, Containing
<1>1. QED BY WordAllowed

\* In regions that do not overlap a word has the permissions of its own.
LEMMA OwnRegion ==
  ASSUME PmpInv, NEW c \in Ctx, InForce(c), Fits(c), Disjoint(RegionsOf(c)),
         NEW j \in 1 .. Len(RegionsOf(c)), NEW w \in WordsOf(RegionsOf(c)[j]),
         w \in MemWord
  PROVE  /\ Allowed(csr, w) = RegionsOf(c)[j].perm
         /\ \A k \in 1 .. Len(RegionsOf(c)) : w \in WordsOf(RegionsOf(c)[k]) => k = j
<1> DEFINE K == Containing(c, w)
<1>1. \A k \in 1 .. Len(RegionsOf(c)) : w \in WordsOf(RegionsOf(c)[k]) => k = j
  BY DEF Disjoint
<1>2. K \in SUBSET Int /\ j \in K /\ \A k \in K : k = j
  BY <1>1 DEF Containing
<1>3. Allowed(csr, w) = IF K = {} THEN {} ELSE RegionsOf(c)[Min(K)].perm
  BY WordAllowed
<1> HIDE DEF K
<1>4. Min(K) = j
  BY <1>2, MinIs
<1>5. QED BY <1>1, <1>2, <1>3, <1>4

\* The buffer lies in the region.
Inside(r, start, size) ==
  r.start =< start /\ start + size =< r.start + r.size

\* What the search of arch_buffer_validate finds for the context in force.
LEMMA SearchIs ==
  ASSUME PmpInv, NEW c \in Ctx, InForce(c), Fits(c), static_regions_num # 0,
         NEW start \in Nat, NEW size \in Nat \ {0}
  PROVE  /\ \A j \in 1 .. Len(RegionsOf(c)) : Valid(RegionsOf(c)[j])
         /\ \A i \in Slot : is_in_region(c, i, start, size) =>
              \E j \in 1 .. Len(RegionsOf(c)) :
                /\ Inside(RegionsOf(c)[j], start, size)
                /\ UserEntry(c, i).perm = RegionsOf(c)[j].perm
         /\ \A j \in 1 .. Len(RegionsOf(c)) : Inside(RegionsOf(c)[j], start, size) =>
              \E i \in Slot : is_in_region(c, i, start, size)
<1> DEFINE rs == RegionsOf(c)
           at == Places(c)
           L(j) == Len(EntriesOf(rs[j]))
<1>1. Placed(csr, rs, at)
  BY PlacesAre
<1>2. \A i \in Slot : UserEntry(c, i) = csr[i]
  <2>1. max_dynamic_region \in Int /\ Slots \in Nat
    BY UsedIs
  <2>2. QED BY <2>1 DEF UserEntry, InForce, Slot
<1> HIDE DEF rs, at
<1>3. \A j \in 1 .. Len(rs) :
        /\ Valid(rs[j]) /\ at[j] \in Nat /\ HasRegion(csr, at[j], rs[j])
        /\ L(j) \in {1, 2} /\ at[j] + L(j) =< Slots
  BY <1>1, EntriesAre DEF Placed
<1>4. ASSUME NEW j \in 1 .. Len(rs), NEW x \in 1 .. L(j)
      PROVE  at[j] + x - 1 \in Slot
  <2> HIDE DEF L
  <2>1. at[j] \in Nat /\ L(j) \in {1, 2} /\ at[j] + L(j) =< Slots
    BY <1>3 DEF L
  <2>2. Slots \in Nat
    BY PmpAssumption
  <2>3. QED BY <2>1, <2>2 DEF Slot
<1>5. ASSUME NEW j \in 1 .. Len(rs)
      PROVE  /\ \A x \in 1 .. L(j) :
                  is_in_region(c, at[j] + x - 1, start, size)
                    => Inside(rs[j], start, size)
             /\ Inside(rs[j], start, size) =>
                  is_in_region(c, at[j] + L(j) - 1, start, size)
  <2>1. Valid(rs[j]) /\ at[j] \in Nat /\ HasRegion(csr, at[j], rs[j])
    BY <1>3
  <2>2. \A x \in 1 .. L(j) : UserEntry(c, at[j] + x - 1) = csr[at[j] + x - 1]
    BY <1>2, <1>4
  <2>3. QED BY <2>1, <2>2, RegionValidates DEF Inside
<1>6. ASSUME NEW i \in Slot, is_in_region(c, i, start, size)
      PROVE  \E j \in 1 .. Len(rs) : /\ Inside(rs[j], start, size)
                                     /\ UserEntry(c, i).perm = rs[j].perm
  <2>1. csr[i].a # "OFF" /\ UserEntry(c, i) = csr[i]
    BY <1>2, <1>6 DEF is_in_region
  <2>2. PICK j \in 1 .. Len(rs) : \E x \in 1 .. L(j) : i = at[j] + x - 1
    BY <1>1, <2>1 DEF Placed
  <2>3. PICK x \in 1 .. L(j) : i = at[j] + x - 1
    BY <2>2
  <2>4. Inside(rs[j], start, size)
    BY <1>5, <1>6, <2>3
  <2>5. csr[i] = EntriesOf(rs[j])[x]
    BY <1>3, <2>3 DEF HasRegion
  <2>6. csr[i].perm = rs[j].perm
    BY <1>3, <2>5, EntriesAre
  <2>7. QED BY <2>1, <2>4, <2>6
<1>7. ASSUME NEW j \in 1 .. Len(rs), Inside(rs[j], start, size)
      PROVE  \E i \in Slot : is_in_region(c, i, start, size)
  <2>1. L(j) \in 1 .. L(j)
    <3>1. L(j) \in {1, 2}
      BY <1>3
    <3> HIDE DEF L
    <3>2. QED BY <3>1
  <2>2. at[j] + L(j) - 1 \in Slot
    BY <1>4, <2>1
  <2>3. QED BY <1>5, <1>7, <2>2
<1>8. QED BY <1>3, <1>6, <1>7 DEF rs

LEMMA InsideIs ==
  ASSUME NEW r, Valid(r), NEW start \in Nat, NEW size \in Nat \ {0}
  PROVE  /\ Inside(r, start, size) <=> start .. start + size - 1 \subseteq WordsOf(r)
         /\ WordsOf(r) \subseteq MemWord
         /\ start \in start .. start + size - 1
<1>1. /\ r.start \in Nat /\ r.size \in Nat \ {0} /\ MemSize \in Nat
      /\ r.start + r.size < MemSize
  BY RegionIs
<1>2. WordsOf(r) \subseteq MemWord
  BY <1>1 DEF WordsOf, MemWord
<1>3. /\ start \in start .. start + size - 1
      /\ start + size - 1 \in start .. start + size - 1
  OBVIOUS
<1>4. Inside(r, start, size) => start .. start + size - 1 \subseteq WordsOf(r)
  BY <1>1 DEF Inside, WordsOf
<1>5. start .. start + size - 1 \subseteq WordsOf(r) => Inside(r, start, size)
  <2> SUFFICES ASSUME start \in WordsOf(r), start + size - 1 \in WordsOf(r)
               PROVE  Inside(r, start, size)
    BY <1>3
  <2>1. QED BY <1>1 DEF Inside, WordsOf
<1>6. QED BY <1>2, <1>3, <1>4, <1>5

LEMMA InvValidateAgrees == PmpInv => ValidateAgrees
<1> SUFFICES ASSUME PmpInv, NEW c \in Ctx, InForce(c), Fits(c),
                    Disjoint(RegionsOf(c)),
                    NEW start \in MemWord, NEW size \in 1 .. 4, NEW access
             PROVE  /\ arch_buffer_validate(c, start, size, access) = 0
                         => WholeBuffer(csr, start, size, access)
                    /\ /\ WholeBuffer(csr, start, size, access)
                       /\ \E k \in 1 .. Len(RegionsOf(c)) :
                            start .. start + size - 1 \subseteq WordsOf(RegionsOf(c)[k])
                       => arch_buffer_validate(c, start, size, access) = 0
  BY Zenon DEF ValidateAgrees
<1> DEFINE rs == RegionsOf(c)
           within == {i \in Slot : is_in_region(c, i, start, size)}
           buffer == start .. start + size - 1
<1>1. start \in Nat /\ size \in Nat \ {0} /\ within \in SUBSET Nat
  <2>1. MemSize \in Nat /\ Slots \in Nat
    BY PmpAssumption, Pow2Positive DEF MemSize
  <2>2. QED BY <2>1 DEF MemWord, Slot
<1>2. arch_buffer_validate(c, start, size, access) = 0
        <=> within # {} /\ access \in UserEntry(c, Min(within)).perm
  <2>1. arch_buffer_validate(c, start, size, access)
          = IF within # {} /\ access \in UserEntry(c, Min(within)).perm THEN 0 ELSE -1
    BY Zenon DEF arch_buffer_validate
  <2> HIDE DEF within
  <2>2. QED BY <2>1
<1>3. CASE static_regions_num = 0
  <2>1. within = {} /\ Len(rs) = 0
    BY <1>3, NothingYet DEF is_in_region
  <2> HIDE DEF within, rs
  <2>2. QED BY <1>2, <2>1 DEF rs
<1>4. CASE static_regions_num # 0
  <2>1. /\ \A j \in 1 .. Len(rs) : Valid(rs[j])
        /\ \A i \in within :
             \E j \in 1 .. Len(rs) : /\ Inside(rs[j], start, size)
                                     /\ UserEntry(c, i).perm = rs[j].perm
        /\ \A j \in 1 .. Len(rs) : Inside(rs[j], start, size) => within # {}
    BY <1>1, <1>4, SearchIs
  <2>2. \A j \in 1 .. Len(rs) :
          /\ Inside(rs[j], start, size) <=> buffer \subseteq WordsOf(rs[j])
          /\ WordsOf(rs[j]) \subseteq MemWord
    BY <1>1, <2>1, InsideIs
  <2>3. start \in buffer
    BY <1>1
  <2>4. \A j \in 1 .. Len(rs) : \A w \in WordsOf(rs[j]) :
          /\ Allowed(csr, w) = rs[j].perm
          /\ \A k \in 1 .. Len(rs) : w \in WordsOf(rs[k]) => k = j
    BY <2>2, OwnRegion
  <2>5. within # {} => Min(within) \in within
    <3> HIDE DEF within
    <3>1. QED BY <1>1, FirstOf
  <2>6. WholeBuffer(csr, start, size, access)
          <=> \A w \in buffer : w \in MemWord /\ access \in Allowed(csr, w)
    BY DEF WholeBuffer
  <2> HIDE DEF rs, within, buffer
  <2>7. ASSUME within # {}, access \in UserEntry(c, Min(within)).perm
        PROVE  WholeBuffer(csr, start, size, access)
    <3>1. PICK j \in 1 .. Len(rs) :
            /\ Inside(rs[j], start, size)
            /\ UserEntry(c, Min(within)).perm = rs[j].perm
      BY <2>1, <2>5, <2>7
    <3>2. \A w \in buffer : w \in MemWord /\ Allowed(csr, w) = rs[j].perm
      BY <2>2, <2>4, <3>1
    <3>3. QED BY <2>6, <2>7, <3>1, <3>2
  <2>8. ASSUME WholeBuffer(csr, start, size, access),
               NEW k \in 1 .. Len(rs), buffer \subseteq WordsOf(rs[k])
        PROVE  within # {} /\ access \in UserEntry(c, Min(within)).perm
    <3>1. within # {} /\ Min(within) \in within
      BY <2>1, <2>2, <2>5, <2>8
    <3>2. PICK j \in 1 .. Len(rs) :
            /\ Inside(rs[j], start, size)
            /\ UserEntry(c, Min(within)).perm = rs[j].perm
      BY <2>1, <3>1
    <3>3. start \in WordsOf(rs[j]) /\ start \in WordsOf(rs[k])
      BY <2>2, <2>3, <2>8, <3>2
    <3>4. j = k /\ Allowed(csr, start) = rs[k].perm
      BY <2>4, <3>3
    <3>5. access \in Allowed(csr, start)
      BY <2>3, <2>6, <2>8
    <3>6. QED BY <3>1, <3>2, <3>4, <3>5
  <2>9. QED BY <1>2, <2>7, <2>8 DEF rs, buffer
<1>5. QED BY <1>3, <1>4

-----------------------------------------------------------------------------
(* The invariant holds.                                                    *)

\* What is the same for all actions but the first.
Kept == /\ mode' = mode /\ static_regions_num' = static_regions_num
        /\ UsedEntries' = UsedEntries /\ max_dynamic_region' = max_dynamic_region
        /\ StackRegion' = StackRegion /\ RomRegion' = RomRegion
        /\ DynamicRegions' = DynamicRegions

LEMMA KeptIs ==
  ASSUME mode' = mode, static_regions_num' = static_regions_num
  PROVE  Kept
<1>1. DynamicRegions' = DynamicRegions
  BY Zenon DEF DynamicRegions, DynamicRegion
<1>2. QED BY <1>1 DEF Kept, UsedEntries, max_dynamic_region, StackRegion, RomRegion

\* A context without regions and with free entries only.
Fresh(c) ==
  /\ mode \in {"TOR", "NAPOT"} /\ static_regions_num \in {0, UsedEntries}
  /\ added[c] = <<>> /\ \A i \in Slot : IsFree(u_pmp[c][i])

LEMMA FreshInv == \A d : Fresh(d) => ContextInv(d)
<1> SUFFICES ASSUME NEW c, Fresh(c) PROVE ContextInv(c)
  OBVIOUS
<1> DEFINE U == UsedEntries
           M == max_dynamic_region
<1>1. /\ U \in {1, 2} /\ Slots \in Nat /\ Slots >= 4 /\ M \in Int /\ M < Slots
  <2>1. U \in {1, 2} /\ Slots \in Nat /\ Slots >= 4
    BY PmpAssumption DEF UsedEntries, Fresh
  <2>2. static_regions_num \in {0, U}
    BY DEF Fresh
  <2> HIDE DEF U
  <2>3. QED BY <2>1, <2>2 DEF max_dynamic_region
<1>2. Len(added[c]) = 0 /\ Base(c, 0) = U
  BY DEF Fresh, Base
<1> HIDE DEF U, M
<1>3. U \in Slot /\ \A i \in 0 .. U - 1 : i \in Slot
  BY <1>1 DEF Slot
<1>4. StackLaid(c) /\ IsFree(u_pmp[c][U])
  BY <1>3 DEF StackLaid, Fresh, U
<1>5. Laid(c)
  <2>1. \A i \in U + 1 .. M : i \in Slot
    BY <1>1 DEF Slot
  <2>2. \A i \in U + 1 .. M : IsFree(u_pmp[c][i])
    BY <2>1 DEF Fresh
  <2>3. ~(\E k \in 1 .. 0 : TRUE) /\ \A j, k \in 0 .. 0 : ~(j < k)
    OBVIOUS
  <2>4. U + 1 .. U = {}
    BY <1>1
  <2>5. QED BY <1>2, <2>2, <2>3, <2>4 DEF Laid, U, M
<1>6. QED BY <1>4, <1>5 DEF ContextInv, U

LEMMA FreshNext == (\A d : Fresh(d) => ContextInv(d))'
BY FreshInv, PTL

\* What the places of the regions that fit are.
LEMMA LaidIs ==
  ASSUME PmpInv, NEW c \in Ctx, Fits(c)
  PROVE  /\ Laid(c) /\ Len(added[c]) \in Nat /\ Base(c, 0) = UsedEntries
         /\ \A k \in 0 .. Len(added[c]) :
              /\ Base(c, k) \in Nat /\ UsedEntries =< Base(c, k)
              /\ Base(c, k) =< Base(c, Len(added[c]))
         /\ \A k \in 1 .. Len(added[c]) :
              /\ Base(c, k) =< max_dynamic_region
              /\ Len(EntriesOf(Added(c, k))) \in {1, 2}
<1> DEFINE n == Len(added[c])
<1>1. n \in Nat /\ Laid(c)
  BY DEF PmpInv, ContextInv
<1>2. /\ UsedEntries \in {1, 2} /\ max_dynamic_region \in Int
  BY UsedIs
<1>3. Base(c, 0) = UsedEntries
  BY DEF Base
<1>4. \A k \in 1 .. n : Base(c, k) \in 0 .. max_dynamic_region
  BY DEF Fits, Base
<1>5. \A j, k \in 0 .. n : j < k => Base(c, j) < Base(c, k)
  BY <1>1 DEF Laid
<1>6. \A k \in 1 .. n : Len(EntriesOf(Added(c, k))) \in {1, 2}
  <2>1. \A k \in 1 .. n : Valid(Added(c, k))
    BY <1>1 DEF Laid
  <2>2. QED BY <2>1, EntriesAre
<1> HIDE DEF n
<1>7. \A k \in 0 .. n : Base(c, k) \in Nat
  BY <1>1, <1>2, <1>3, <1>4
<1>8. ASSUME NEW k \in 0 .. n
      PROVE  UsedEntries =< Base(c, k) /\ Base(c, k) =< Base(c, n)
  <2>1. 0 \in 0 .. n /\ n \in 0 .. n /\ (k = 0 \/ 0 < k) /\ (k = n \/ k < n)
    BY <1>1
  <2>2. Base(c, 0) \in Nat /\ Base(c, k) \in Nat /\ Base(c, n) \in Nat
    BY <1>7, <2>1
  <2>3. k = 0 \/ Base(c, 0) < Base(c, k)
    BY <1>5, <2>1
  <2>4. k = n \/ Base(c, k) < Base(c, n)
    BY <1>5, <2>1
  <2>5. UsedEntries =< Base(c, k)
    BY <1>2, <1>3, <2>2, <2>3
  <2>6. Base(c, k) =< Base(c, n)
    BY <2>2, <2>4
  <2>7. QED BY <2>5, <2>6
<1>9. \A k \in 1 .. n : Base(c, k) =< max_dynamic_region
  BY <1>2, <1>4
<1>10. QED BY <1>1, <1>3, <1>6, <1>7, <1>8, <1>9 DEF n

\* A step that keeps the regions of a context and the entries above those of
\* the stack.
LEMMA LaidSame ==
  ASSUME PmpInv, NEW c \in Ctx, Kept, added'[c] = added[c],
         \A i \in UsedEntries .. max_dynamic_region : u_pmp'[c][i] = u_pmp[c][i]
  PROVE  Fits(c)' => Laid(c)'
<1> SUFFICES ASSUME Fits(c)' PROVE Laid(c)'
  OBVIOUS
<1> DEFINE U == UsedEntries
           M == max_dynamic_region
           n == Len(added[c])
<1>1. Fits(c)
  BY DEF Fits, Kept
<1>2. /\ Laid(c) /\ n \in Nat /\ Base(c, 0) = U
      /\ \A k \in 0 .. n : Base(c, k) \in Nat /\ U =< Base(c, k)
      /\ \A k \in 1 .. n : Base(c, k) =< M /\ Len(EntriesOf(Added(c, k))) \in {1, 2}
  BY <1>1, LaidIs
<1>3. U \in {1, 2} /\ M \in Int
  BY UsedIs
<1>4. \A k : Base(c, k)' = Base(c, k) /\ Added(c, k)' = Added(c, k)
  BY DEF Base, Added, Kept
<1>5. U' = U /\ M' = M /\ n' = n
  BY DEF Kept
<1> HIDE DEF U, M, n
<1>6. ASSUME NEW k \in 1 .. n, NEW x \in 1 .. Len(EntriesOf(Added(c, k)))
      PROVE  u_pmp'[c][Base(c, k - 1) + x] = EntriesOf(Added(c, k))[x]
  <2> DEFINE l == Len(EntriesOf(Added(c, k)))
             b == Base(c, k - 1)
  <2>1. k - 1 \in 0 .. n /\ k \in 0 .. n
    BY <1>2
  <2>2. b \in Nat /\ U =< b /\ Base(c, k) =< M /\ l \in {1, 2}
    BY <1>2, <2>1
  <2>3. Base(c, k) = b + l /\ u_pmp[c][b + x] = EntriesOf(Added(c, k))[x]
    BY <1>2 DEF Laid, n
  <2> HIDE DEF l, b
  <2>4. x \in 1 .. l
    BY DEF l
  <2>5. b + x \in U .. M
    BY <1>3, <2>2, <2>3, <2>4
  <2>6. u_pmp'[c][b + x] = u_pmp[c][b + x]
    BY <2>5 DEF U, M
  <2>7. QED BY <2>3, <2>6 DEF b
<1>7. \A i \in Base(c, n) + 1 .. M : IsFree(u_pmp'[c][i])
  <2> TAKE i \in Base(c, n) + 1 .. M
  <2>1. IsFree(u_pmp[c][i])
    BY <1>2 DEF Laid, n, M
  <2>2. Base(c, n) \in Nat /\ U =< Base(c, n)
    BY <1>2
  <2>3. i \in U .. M
    BY <1>3, <2>2
  <2>4. QED BY <2>1, <2>3 DEF U, M
<1>8. /\ \A k \in 1 .. n :
           /\ Valid(Added(c, k))
           /\ Base(c, k) = Base(c, k - 1) + Len(EntriesOf(Added(c, k)))
      /\ \A j, k \in 0 .. n : j < k => Base(c, j) < Base(c, k)
      /\ \A i \in U + 1 .. Base(c, n) :
           \E k \in 1 .. n : Base(c, k - 1) < i /\ i <= Base(c, k)
  BY <1>2 DEF Laid, n, U
<1>9. ASSUME NEW k \in 1 .. n
      PROVE  /\ Valid(Added(c, k))'
             /\ Base(c, k)' = Base(c, k - 1)' + Len(EntriesOf(Added(c, k)'))
             /\ \A x \in 1 .. Len(EntriesOf(Added(c, k)')) :
                  u_pmp'[c][Base(c, k - 1)' + x] = EntriesOf(Added(c, k)')[x]
  <2>1. Added(c, k)' = Added(c, k) /\ Base(c, k)' = Base(c, k)
    BY <1>4
  <2>2. Base(c, k - 1)' = Base(c, k - 1)
    BY <1>4
  <2>3. Valid(Added(c, k)')
    BY <1>8, <2>1
  <2>4. QED BY <1>6, <1>8, <2>1, <2>2, <2>3
<1>10. \A j, k \in 0 .. n : j < k => Base(c, j)' < Base(c, k)'
  BY <1>4, <1>8
<1>14. Base(c, n)' = Base(c, n)
  BY <1>5 DEF Base, Kept
<1>11. \A i \in U + 1 .. Base(c, n)' :
         \E k \in 1 .. n : Base(c, k - 1)' < i /\ i <= Base(c, k)'
  BY <1>4, <1>8, <1>14
<1>12. \A i \in Base(c, n)' + 1 .. M : IsFree(u_pmp'[c][i])
  BY <1>7, <1>14
<1>13. QED BY <1>5, <1>9, <1>10, <1>11, <1>12, Zenon DEF Laid, n, U, M

\* A step that leaves a context alone.
LEMMA ContextSame ==
  ASSUME PmpInv, NEW c \in Ctx, Kept, u_pmp'[c] = u_pmp[c], added'[c] = added[c]
  PROVE  ContextInv(c)'
<1>1. Fits(c)' => Laid(c)'
  BY LaidSame
<1>2. StackLaid(c)' /\ IsFree(u_pmp'[c][UsedEntries'])
  <2>1. StackLaid(c) /\ IsFree(u_pmp[c][UsedEntries])
    BY DEF PmpInv, ContextInv
  <2>2. QED BY <2>1 DEF StackLaid, Kept
<1>3. QED BY <1>1, <1>2 DEF ContextInv

\* t is what riscv_pmp_region_translate makes of es: the entries of the region,
\* and nothing else, if there is room.
Writes(t, es, index, r) ==
  /\ index + Len(EntriesOf(r)) =< Slots =>
       /\ t.next = index + Len(EntriesOf(r))
       /\ \A x \in 1 .. Len(EntriesOf(r)) :
            t.entries[index + x - 1] = EntriesOf(r)[x]
       /\ \A i \in Slot : i < index \/ i >= index + Len(EntriesOf(r)) =>
            t.entries[i] = es[i]
  /\ index + Len(EntriesOf(r)) > Slots => t.next = -28 /\ t.entries = es

LEMMA TranslateIs ==
  ASSUME NEW es, NEW index \in Nat, NEW r, Len(EntriesOf(r)) \in {1, 2}
  PROVE  Writes(Translate(es, index, r), es, index, r)
<1> DEFINE t == Translate(es, index, r)
<1> SUFFICES Writes(t, es, index, r)
  OBVIOUS
<1> DEFINE new == EntriesOf(r)
           next == index + Len(new)
           f == [i \in Slot |-> IF i \in index .. next - 1 THEN new[i - index + 1]
                                ELSE es[i]]
<1>1. next \in Nat /\ Slots \in Nat
  BY PmpAssumption
<1>2. CASE next > Slots
  <2>1. t = [entries |-> es, next |-> -ENOSPC]
    BY <1>2 DEF Translate
  <2>2. t.entries = es /\ t.next = -28
    BY <2>1 DEF ENOSPC
  <2>3. ~(next =< Slots)
    BY <1>1, <1>2
  <2> HIDE DEF t, next
  <2>4. QED BY <2>2, <2>3 DEF next, new, Writes
<1>3. CASE ~(next > Slots)
  <2>1. t = [entries |-> f, next |-> next]
    BY <1>3, Zenon DEF Translate
  <2>2. t.entries = f /\ t.next = next
    <3> HIDE DEF t, f, next
    <3>1. QED BY <2>1
  <2>3. ASSUME NEW x \in 1 .. Len(new)
        PROVE  f[index + x - 1] = new[x]
    <3> DEFINE y == index + x - 1
    <3>1. y \in Slot /\ y \in index .. next - 1 /\ y - index + 1 = x
      BY <1>1, <1>3 DEF Slot
    <3> HIDE DEF y, new, next
    <3>2. f[y] = new[y - index + 1]
      BY <3>1
    <3>3. QED BY <3>1, <3>2 DEF y
  <2>4. ASSUME NEW i \in Slot, i < index \/ i >= next
        PROVE  f[i] = es[i]
    <3>1. i \in Nat
      BY DEF Slot
    <3> HIDE DEF new, next, Writes
    <3>2. ~(i \in index .. next - 1)
      BY <1>1, <2>4, <3>1
    <3>3. QED BY <3>2
  <2> HIDE DEF t, f, new, next
  <2>5. QED BY <1>3, <2>2, <2>3, <2>4 DEF new, next, Writes
<1>4. QED BY <1>2, <1>3

\* Where z_riscv_pmp_add_dynamic puts a region: above the entry after those of
\* the stack, and in the first free dynamic entry if there is one.
LEMMA FreeIndexIs ==
  ASSUME PmpInv, NEW c \in Ctx
  PROVE  /\ FreeIndex(c) \in Nat /\ UsedEntries < FreeIndex(c)
         /\ FreeIndex(c) =< max_dynamic_region =>
              /\ IsFree(u_pmp[c][FreeIndex(c)])
              /\ \A i \in UsedEntries + 1 .. max_dynamic_region :
                   IsFree(u_pmp[c][i]) => FreeIndex(c) =< i
<1> DEFINE first == 1 + UsedEntries
           M == max_dynamic_region
           top == Max({first, M + 1})
           A == {i \in first .. M : IsFree(u_pmp[c][i])}
           S == A \cup {top}
<1>1. UsedEntries \in {1, 2} /\ M \in Int /\ UsedEntries - 1 =< M
  BY UsedIs
<1> HIDE DEF M
<1>2. first \in Nat /\ M + 1 \in Nat
  BY <1>1
<1>3. top \in Nat /\ top >= first /\ top >= M + 1
  <2> DEFINE T == {first, M + 1}
  <2>1. T \in SUBSET Int
    BY <1>2
  <2>2. PICK m \in T : \A x \in T : x =< m
    <3>1. CASE first =< M + 1
      BY <1>2, <3>1
    <3>2. CASE ~(first =< M + 1)
      BY <1>2, <3>2
    <3>3. QED BY <3>1, <3>2
  <2>3. Max(T) = m
    <3> HIDE DEF T
    <3>1. QED BY <2>1, <2>2, MaxIs
  <2>4. QED BY <1>2, <2>2, <2>3
<1> HIDE DEF top
<1>4. S \in SUBSET Nat /\ S # {} /\ \A x \in S : first =< x
  BY <1>2, <1>3
<1>5. FreeIndex(c) = Min(S)
  BY Zenon DEF FreeIndex, M, top
<1> HIDE DEF S
<1>6. Min(S) \in S /\ \A x \in S : Min(S) =< x
  BY <1>4, FirstOf
<1> DEFINE F == Min(S)
<1>7. F \in S /\ (\A x \in S : F =< x) /\ F \in Nat /\ first =< F
  BY <1>4, <1>6
<1> HIDE DEF F
<1>8. UsedEntries < F
  BY <1>1, <1>7
<1>9. ASSUME F =< M
      PROVE  /\ IsFree(u_pmp[c][F])
             /\ \A i \in UsedEntries + 1 .. M : IsFree(u_pmp[c][i]) => F =< i
  <2>1. F # top
    BY <1>1, <1>3, <1>7, <1>9
  <2>2. F \in A
    BY <1>7, <2>1 DEF S
  <2>3. \A i \in UsedEntries + 1 .. M : i \in first .. M
    BY <1>1
  <2>4. \A i \in UsedEntries + 1 .. M : IsFree(u_pmp[c][i]) => i \in S
    BY <2>3 DEF S
  <2>5. QED BY <1>7, <2>2, <2>4
<1>10. QED BY <1>5, <1>7, <1>8, <1>9 DEF F, M

\* The region that is added is one that the entries can describe.
LEMMA AddedValid ==
  ASSUME PmpInv, NEW r \in IF mode = "TOR" THEN TorRegions ELSE NapotRegions,
         r.size # 0
  PROVE  /\ Valid(DynamicRegion(r.start, r.size, r.flags))
         /\ \A l \in Int : [region |-> DynamicRegion(r.start, r.size, r.flags),
                            last |-> l] \in DynamicRegions
<1> DEFINE g == DynamicRegion(r.start, r.size, r.flags)
<1>1. mode \in {"TOR", "NAPOT"} /\ r \in TorRegions \cup NapotRegions
  BY DEF PmpInv
<1>2. /\ r.start \in MemWord /\ r.size \in 0 .. MemSize - 1 - r.start
      /\ mode = "NAPOT" => Aligned(r)
  BY <1>1, PmpAssumption
<1>3. /\ g.start = r.start /\ g.size = r.size
      /\ g.mode = IF r.size = 1 THEN "NA4" ELSE mode
  BY DEF DynamicRegion
<1>4. g.mode \in {"TOR", "NA4", "NAPOT"}
  BY <1>1, <1>3
<1>5. MemSize \in Nat /\ r.start \in Nat
  BY <1>2, PmpAssumption, Pow2Positive DEF MemSize, MemWord
<1>6. \A l \in Int : [region |-> g, last |-> l] \in DynamicRegions
  <2>1. g \in {DynamicRegion(q.start, q.size, q.flags) :
                 q \in TorRegions \cup NapotRegions}
    BY <1>1
  <2> HIDE DEF g
  <2>2. QED BY <2>1 DEF DynamicRegions
<1> HIDE DEF g
<1>7. g.mode = "NAPOT" => Aligned(g)
  BY <1>2, <1>3 DEF Aligned
<1>8. g.size \in 1 .. MemSize - 1 - g.start
  BY <1>2, <1>3, <1>5
<1>9. Valid(g)
  BY <1>1, <1>2, <1>3, <1>4, <1>7, <1>8 DEF Valid
<1>10. QED BY <1>6, <1>9 DEF g

\* The regions of the context to which one is added.
LEMMA AddedContext ==
  ASSUME PmpInv, NEW c \in Ctx, Kept, NEW g, Valid(g), NEW t,
         t = Translate(u_pmp[c], FreeIndex(c), g),
         u_pmp'[c] = t.entries,
         added'[c] = Append(added[c], [region |-> g, last |-> t.next - 1])
  PROVE  ContextInv(c)'
<1> DEFINE U == UsedEntries
           M == max_dynamic_region
           n == Len(added[c])
           F == FreeIndex(c)
           es == EntriesOf(g)
           l == Len(es)
<1>1. /\ U \in {1, 2} /\ Slots \in Nat /\ Slots >= 4 /\ M \in Int /\ M < Slots
  BY UsedIs
<1>2. F \in Nat /\ U < F
  BY FreeIndexIs
<1>3. l \in {1, 2} /\ \A x \in 1 .. l : es[x].a # "OFF"
  BY EntriesAre
<1>4. /\ F + l =< Slots =>
           /\ t.next = F + l
           /\ \A x \in 1 .. l : t.entries[F + x - 1] = es[x]
           /\ \A i \in Slot : i < F \/ i >= F + l => t.entries[i] = u_pmp[c][i]
      /\ F + l > Slots => t.next = -28 /\ t.entries = u_pmp[c]
  <2>1. t = Translate(u_pmp[c], F, g)
    OBVIOUS
  <2>2. F \in Nat /\ Len(EntriesOf(g)) \in {1, 2}
    BY <1>2, <1>3
  <2> HIDE DEF F
  <2>3. Writes(t, u_pmp[c], F, g)
    BY <2>1, <2>2, TranslateIs
  <2>4. QED BY <2>3 DEF Writes
<1>5. U' = U /\ M' = M /\ StackRegion' = StackRegion
  BY DEF Kept
<1>6. added[c] \in Seq(DynamicRegions) /\ n \in Nat
  BY DEF PmpInv
<1>7. /\ Len(added'[c]) = n + 1
      /\ \A k \in 1 .. n : added'[c][k] = added[c][k]
      /\ added'[c][n + 1] = [region |-> g, last |-> t.next - 1]
  <2> DEFINE e == [region |-> g, last |-> t.next - 1]
  <2> HIDE DEF e
  <2>1. added'[c] = Append(added[c], e)
    BY DEF e
  <2>2. QED BY <1>6, <2>1 DEF e
<1> HIDE DEF U, M, n, F, es, l
<1>8. \A i \in Slot : i < F => u_pmp'[c][i] = u_pmp[c][i]
  <2>1. CASE F + l =< Slots
    BY <1>4, <2>1
  <2>2. CASE F + l > Slots
    BY <1>4, <2>2
  <2>3. QED BY <1>1, <1>2, <1>3, <2>1, <2>2
<1>9. \A i \in 0 .. U : i \in Slot /\ i < F
  BY <1>1, <1>2 DEF Slot
<1>10. StackLaid(c)' /\ IsFree(u_pmp'[c][U'])
  <2>1. StackLaid(c) /\ IsFree(u_pmp[c][U])
    BY DEF PmpInv, ContextInv, U
  <2>2. U \in 0 .. U /\ (\A i \in 0 .. U - 1 : i \in 0 .. U)
        /\ \A x \in 1 .. U : x - 1 \in 0 .. U
    BY <1>1
  <2>3. u_pmp'[c][U] = u_pmp[c][U]
    BY <1>8, <1>9, <2>2
  <2>4. StackLaid(c)'
    <3>1. CASE \A i \in 0 .. U - 1 : IsFree(u_pmp[c][i])
      <4>1. \A i \in 0 .. U - 1 : IsFree(u_pmp'[c][i])
        BY <1>8, <1>9, <2>2, <3>1
      <4>2. QED BY <1>5, <4>1 DEF StackLaid, U
    <3>2. CASE \A x \in 1 .. U : u_pmp[c][x - 1] = EntriesOf(StackRegion)[x]
      <4>1. \A x \in 1 .. U : u_pmp'[c][x - 1] = EntriesOf(StackRegion)[x]
        BY <1>8, <1>9, <2>2, <3>2
      <4>2. QED BY <1>5, <4>1 DEF StackLaid, U
    <3>3. QED BY <2>1, <3>1, <3>2 DEF StackLaid, U
  <2>5. QED BY <1>5, <2>1, <2>3, <2>4
<1>11. ASSUME Fits(c)' PROVE Laid(c)'
  <2>1. /\ \A k \in 1 .. n + 1 : added'[c][k].last \in 0 .. M
    BY <1>5, <1>7, <1>11 DEF Fits, M
  <2>2. Fits(c)
    <3>1. \A k \in 1 .. n : k \in 1 .. n + 1
      BY <1>6
    <3>2. QED BY <1>7, <2>1, <3>1 DEF Fits, M, n
  <2>3. /\ Laid(c) /\ Base(c, 0) = U
        /\ \A k \in 0 .. n : /\ Base(c, k) \in Nat /\ U =< Base(c, k)
                             /\ Base(c, k) =< Base(c, n)
        /\ \A k \in 1 .. n : /\ Base(c, k) =< M
                             /\ Len(EntriesOf(Added(c, k))) \in {1, 2}
    BY <2>2, LaidIs DEF U, M, n
  <2>4. t.next - 1 \in 0 .. M
    <3>1. n + 1 \in 1 .. n + 1
      BY <1>6
    <3>2. QED BY <1>7, <2>1, <3>1
  <2>5. /\ F + l =< Slots /\ t.next = F + l /\ F =< M /\ F + l - 1 =< M
    <3>1. F + l =< Slots
      <4>1. ~(F + l > Slots)
        BY <1>4, <2>4
      <4>2. QED BY <1>1, <1>2, <1>3, <4>1
    <3>2. t.next = F + l
      BY <1>4, <3>1
    <3>3. QED BY <1>1, <1>2, <1>3, <2>4, <3>1, <3>2
  <2> DEFINE B == Base(c, n)
  <2>6. B \in Nat /\ U =< B
    BY <1>6, <2>3
  <2>7. /\ \A k \in 1 .. n :
             /\ Valid(Added(c, k))
             /\ Base(c, k) = Base(c, k - 1) + Len(EntriesOf(Added(c, k)))
             /\ \A x \in 1 .. Len(EntriesOf(Added(c, k))) :
                  u_pmp[c][Base(c, k - 1) + x] = EntriesOf(Added(c, k))[x]
        /\ \A j, k \in 0 .. n : j < k => Base(c, j) < Base(c, k)
        /\ \A i \in U + 1 .. B :
             \E k \in 1 .. n : Base(c, k - 1) < i /\ i <= Base(c, k)
        /\ \A i \in B + 1 .. M : IsFree(u_pmp[c][i])
    BY <2>3 DEF Laid, n, U, M
  \* The entries up to B are taken and the next is free.
  <2>8. F = B + 1
    <3>1. /\ IsFree(u_pmp[c][F])
          /\ \A i \in U + 1 .. M : IsFree(u_pmp[c][i]) => F =< i
      BY <2>5, FreeIndexIs DEF F, U, M
    <3>2. ASSUME F =< B PROVE FALSE
      <4>1. F \in U + 1 .. B
        BY <1>1, <1>2, <2>6, <3>2
      <4>2. PICK k \in 1 .. n : Base(c, k - 1) < F /\ F <= Base(c, k)
        BY <2>7, <4>1
      <4> DEFINE q == EntriesOf(Added(c, k))
                 b == Base(c, k - 1)
      <4>3. /\ Valid(Added(c, k)) /\ Base(c, k) = b + Len(q)
            /\ \A x \in 1 .. Len(q) : u_pmp[c][b + x] = q[x]
        BY <2>7
      <4>4. Len(q) \in {1, 2} /\ b \in Nat
        <5>1. k - 1 \in 0 .. n
          BY <1>6
        <5>2. QED BY <2>3, <5>1
      <4>5. \A x \in 1 .. Len(q) : q[x].a # "OFF"
        BY <4>3, EntriesAre
      <4> HIDE DEF q, b
      <4>6. F - b \in 1 .. Len(q) /\ b + (F - b) = F
        <5>1. b < F /\ F =< b + Len(q)
          BY <4>2, <4>3 DEF b
        <5>2. QED BY <1>2, <4>4, <5>1
      <4>7. u_pmp[c][F].a # "OFF"
        <5>1. u_pmp[c][b + (F - b)] = q[F - b]
          BY <4>3, <4>6
        <5>2. QED BY <4>5, <4>6, <5>1
      <4>8. QED BY <3>1, <4>7 DEF IsFree
    <3>3. F > B
      BY <1>2, <2>6, <3>2
    <3>4. B + 1 \in B + 1 .. M /\ B + 1 \in U + 1 .. M
      BY <1>1, <1>2, <2>5, <2>6, <3>3
    <3>5. F =< B + 1
      BY <2>7, <3>1, <3>4
    <3>6. QED BY <1>2, <2>6, <3>3, <3>5
  <2>9. /\ \A k \in 0 .. n : Base(c, k)' = Base(c, k)
        /\ \A k \in 1 .. n : Added(c, k)' = Added(c, k)
    BY <1>5, <1>6, <1>7 DEF Base, Added, U
  <2>10. PICK m : m = n
    OBVIOUS
  <2>11. /\ Len(added[c])' = m + 1 /\ m \in Nat
         /\ Base(c, m + 1)' = B + l /\ Added(c, m + 1)' = g
         /\ Base(c, Len(added[c]))' = B + l
    <3>1. /\ m \in Nat /\ m + 1 # 0 /\ Len(added'[c]) = m + 1
          /\ added'[c][m + 1] = [region |-> g, last |-> t.next - 1]
      BY <1>6, <1>7, <2>10
    <3>2. t.next - 1 = B + l
      BY <1>2, <1>3, <2>5, <2>6, <2>8
    <3>3. Base(c, m + 1)' = B + l /\ Added(c, m + 1)' = g
      BY <3>1, <3>2 DEF Base, Added
    <3>4. Base(c, Len(added[c]))' = B + l
      BY <3>1, <3>2 DEF Base
    <3>5. QED BY <3>1, <3>3, <3>4
  <2> HIDE DEF B
  <2>12. ASSUME NEW k \in 1 .. m
         PROVE  /\ k \in 1 .. n /\ k \in 0 .. n /\ k - 1 \in 0 .. n
                /\ Base(c, k)' = Base(c, k) /\ Base(c, k - 1)' = Base(c, k - 1)
                /\ Added(c, k)' = Added(c, k)
    <3>1. k \in 1 .. n /\ k \in 0 .. n /\ k - 1 \in 0 .. n
      BY <2>10, <2>11
    <3>2. QED BY <2>9, <3>1
  <2>13. Base(c, m)' = B /\ B = Base(c, m)
    <3>1. m \in 0 .. n
      BY <2>10, <2>11
    <3>2. QED BY <2>9, <2>10, <3>1 DEF B
  <2>14. ASSUME NEW k \in 1 .. m + 1
         PROVE  /\ Valid(Added(c, k)')
                /\ Base(c, k)' = Base(c, k - 1)' + Len(EntriesOf(Added(c, k)'))
                /\ \A x \in 1 .. Len(EntriesOf(Added(c, k)')) :
                     u_pmp'[c][Base(c, k - 1)' + x] = EntriesOf(Added(c, k)')[x]
    <3>1. CASE k \in 1 .. m
      <4> DEFINE q == EntriesOf(Added(c, k))
                 b == Base(c, k - 1)
      <4>1. /\ Base(c, k)' = Base(c, k) /\ Base(c, k - 1)' = b
            /\ Added(c, k)' = Added(c, k)
        BY <2>12, <3>1
      <4>2. k \in 1 .. n /\ k \in 0 .. n /\ k - 1 \in 0 .. n
        BY <2>12, <3>1
      <4>3. /\ Valid(Added(c, k)) /\ Base(c, k) = b + Len(q)
            /\ \A x \in 1 .. Len(q) : u_pmp[c][b + x] = q[x]
        BY <2>7, <4>2
      <4>4. Len(q) \in {1, 2} /\ b \in Nat /\ Base(c, k) =< B
        BY <2>3, <4>2 DEF B
      <4>5. \A x \in 1 .. Len(q) : u_pmp'[c][b + x] = q[x]
        <5> TAKE x \in 1 .. Len(q)
        <5> HIDE DEF q, b
        <5>1. b + x < F /\ b + x \in Slot
          <6>1. b + x \in Nat /\ b + x =< B
            BY <2>6, <4>3, <4>4
          <6>2. QED BY <1>1, <1>2, <1>3, <2>5, <2>6, <2>8, <6>1 DEF Slot
        <5>2. QED BY <1>8, <4>3, <5>1
      <4>6. QED BY <4>1, <4>3, <4>5
    <3>2. CASE ~(k \in 1 .. m)
      <4>1. k = m + 1 /\ k - 1 = m
        BY <2>11, <3>2
      <4>2. Base(c, k)' = B + l /\ Added(c, k)' = g
        BY <2>11, <4>1
      <4>3. Base(c, k - 1)' = B
        BY <2>13, <4>1
      <4>4. \A x \in 1 .. l : u_pmp'[c][B + x] = es[x]
        <5> TAKE x \in 1 .. l
        <5>1. F + x - 1 = B + x
          BY <1>3, <2>6, <2>8
        <5>2. t.entries[F + x - 1] = es[x]
          BY <1>4, <2>5
        <5>3. QED BY <5>1, <5>2
      <4>5. QED BY <4>2, <4>3, <4>4 DEF es, l
    <3>3. QED BY <3>1, <3>2
  <2>15. \A j, k \in 0 .. m + 1 : j < k => Base(c, j)' < Base(c, k)'
    <3> SUFFICES ASSUME NEW j \in 0 .. m + 1, NEW k \in 0 .. m + 1, j < k
                 PROVE  Base(c, j)' < Base(c, k)'
      OBVIOUS
    <3>1. j \in 0 .. n
      BY <2>10, <2>11
    <3>2. Base(c, j)' = Base(c, j) /\ Base(c, j) \in Nat /\ Base(c, j) =< B
      BY <2>3, <2>9, <3>1 DEF B
    <3>3. CASE k \in 0 .. n
      <4>1. Base(c, k)' = Base(c, k)
        BY <2>9, <3>3
      <4>2. Base(c, j) < Base(c, k)
        BY <2>7, <3>1, <3>3
      <4>3. QED BY <3>2, <4>1, <4>2
    <3>4. CASE ~(k \in 0 .. n)
      <4>1. k = m + 1
        BY <2>10, <2>11, <3>4
      <4>2. Base(c, k)' = B + l
        BY <2>11, <4>1
      <4>3. QED BY <1>3, <2>6, <3>2, <4>2
    <3>5. QED BY <3>3, <3>4
  <2>16. \A i \in U + 1 .. B + l :
           \E k \in 1 .. m + 1 : Base(c, k - 1)' < i /\ i <= Base(c, k)'
    <3> TAKE i \in U + 1 .. B + l
    <3>1. CASE i =< B
      <4>1. i \in U + 1 .. B
        BY <1>1, <2>6, <3>1
      <4>2. PICK k \in 1 .. n : Base(c, k - 1) < i /\ i <= Base(c, k)
        BY <2>7, <4>1
      <4>3. k \in 1 .. m /\ k \in 1 .. m + 1
        BY <2>10, <2>11
      <4>4. Base(c, k - 1)' < i /\ i <= Base(c, k)'
        BY <2>12, <4>2, <4>3
      <4>5. QED BY <4>3, <4>4
    <3>2. CASE ~(i =< B)
      <4>1. PICK k : k = m + 1
        OBVIOUS
      <4>2. k \in 1 .. m + 1 /\ k - 1 = m /\ B < i /\ i =< B + l
        BY <1>1, <1>3, <2>6, <2>11, <3>2, <4>1
      <4>3. Base(c, k)' = B + l /\ Base(c, k - 1)' = B
        BY <2>11, <2>13, <4>1, <4>2
      <4>4. QED BY <4>2, <4>3
    <3>3. QED BY <3>1, <3>2
  <2>17. \A i \in B + l + 1 .. M : IsFree(u_pmp'[c][i])
    <3> TAKE i \in B + l + 1 .. M
    <3>1. i \in B + 1 .. M /\ i \in Slot /\ i >= F + l
      BY <1>1, <1>3, <2>6, <2>8 DEF Slot
    <3>2. u_pmp'[c][i] = u_pmp[c][i]
      BY <1>4, <2>5, <3>1
    <3>3. QED BY <2>7, <3>1, <3>2
  <2>18. QED
    BY <1>5, <2>11, <2>14, <2>15, <2>16, <2>17, Zenon DEF Laid, U, M
<1>12. QED BY <1>10, <1>11 DEF ContextInv, U

\* A step that changes the entries or the regions of one context.
LEMMA OneContext ==
  ASSUME PmpInv, Kept, static_regions_num # 0, NEW c \in Ctx, NEW v,
         NEW s \in Seq(DynamicRegions), csr' = csr,
         u_pmp' = [u_pmp EXCEPT ![c] = v], added' = [added EXCEPT ![c] = s],
         ContextInv(c)'
  PROVE  PmpInv'
<1>1. /\ mode \in {"TOR", "NAPOT"}
      /\ mode = "NAPOT" => Aligned(Stack) /\ Aligned(Rom)
      /\ static_regions_num \in {0, UsedEntries}
      /\ u_pmp = [d \in Ctx |-> u_pmp[d]]
      /\ added \in [Ctx -> Seq(DynamicRegions)]
      /\ \A x \in 1 .. UsedEntries :
           csr[max_dynamic_region + x] = EntriesOf(RomRegion)[x]
  BY DEF PmpInv
<1>2. \A d \in Ctx : d # c => u_pmp'[d] = u_pmp[d] /\ added'[d] = added[d]
  BY <1>1
<1>3. \A d \in Ctx : d # c => ContextInv(d)'
  BY <1>2, ContextSame
<1>4. added' \in [Ctx -> Seq(DynamicRegions)]
  BY <1>1
<1>5. u_pmp' = [d \in Ctx |-> u_pmp'[d]]
  BY <1>1
<1>6. \A d \in Ctx : ContextInv(d)'
  BY <1>3
<1>7. QED BY <1>1, <1>4, <1>5, <1>6 DEF PmpInv, Kept

\* A step that changes the dynamic entries of the hardware.
LEMMA DynamicEntries ==
  ASSUME PmpInv, Kept, static_regions_num # 0, u_pmp' = u_pmp, added' = added,
         \A i \in Slot : i > max_dynamic_region => csr'[i] = csr[i]
  PROVE  PmpInv'
<1>1. /\ mode \in {"TOR", "NAPOT"}
      /\ mode = "NAPOT" => Aligned(Stack) /\ Aligned(Rom)
      /\ static_regions_num \in {0, UsedEntries}
      /\ u_pmp = [d \in Ctx |-> u_pmp[d]]
      /\ added \in [Ctx -> Seq(DynamicRegions)]
      /\ \A x \in 1 .. UsedEntries :
           csr[max_dynamic_region + x] = EntriesOf(RomRegion)[x]
  BY DEF PmpInv
<1>2. \A c \in Ctx : ContextInv(c)'
  BY ContextSame
<1>3. \A x \in 1 .. UsedEntries :
        csr'[max_dynamic_region + x] = EntriesOf(RomRegion)[x]
  <2> TAKE x \in 1 .. UsedEntries
  <2> DEFINE i == max_dynamic_region + x
  <2>1. i \in Slot /\ i > max_dynamic_region
    BY UsedIs DEF Slot
  <2>2. csr'[i] = csr[i]
    BY <2>1
  <2>3. QED BY <1>1, <2>2
<1>4. QED BY <1>1, <1>2, <1>3 DEF PmpInv, Kept

LEMMA PmpInitInv == PmpInit => PmpInv
<1> SUFFICES ASSUME PmpInit PROVE PmpInv
  OBVIOUS
<1>1. /\ mode \in {"TOR", "NAPOT"} /\ static_regions_num = 0
      /\ mode = "NAPOT" => Aligned(Stack) /\ Aligned(Rom)
      /\ csr = [i \in Slot |-> Empty(0)]
      /\ u_pmp = [c \in Ctx |-> csr] /\ added = [c \in Ctx |-> <<>>]
  BY DEF PmpInit
<1>2. IsFree(Empty(0))
  BY DEF IsFree, Empty
<1>3. \A i \in Slot : IsFree(csr[i])
  BY <1>1, <1>2
<1>4. \A c \in Ctx : added[c] = <<>> /\ \A i \in Slot : IsFree(u_pmp[c][i])
  BY <1>1, <1>3
<1>5. \A c \in Ctx : ContextInv(c)
  BY <1>1, <1>4, FreshInv DEF Fresh
<1>6. u_pmp = [c \in Ctx |-> u_pmp[c]] /\ added \in [Ctx -> Seq(DynamicRegions)]
  BY <1>1
<1>7. QED BY <1>1, <1>3, <1>4, <1>5, <1>6 DEF PmpInv, Untouched

LEMMA StaticStep ==
  PmpInv /\ z_riscv_configure_static_pmp_regions => PmpInv'
<1> SUFFICES ASSUME PmpInv, z_riscv_configure_static_pmp_regions PROVE PmpInv'
  OBVIOUS
<1> DEFINE U == UsedEntries
           index == max_dynamic_region - UsedEntries + 1
           t == Translate(csr, index, RomRegion)
<1>1. /\ static_regions_num = 0 /\ static_regions_num' = U /\ csr' = t.entries
      /\ mode' = mode /\ u_pmp' = u_pmp /\ added' = added
  BY DEF z_riscv_configure_static_pmp_regions
<1>2. U \in {1, 2} /\ Slots \in Nat /\ Slots >= 4
  BY UsedIs
<1>3. /\ U' = U /\ max_dynamic_region' = Slots - U - 1 /\ RomRegion' = RomRegion
      /\ DynamicRegions' = DynamicRegions
  <2>1. DynamicRegions' = DynamicRegions
    BY <1>1, Zenon DEF DynamicRegions, DynamicRegion
  <2>2. QED BY <1>1, <2>1 DEF UsedEntries, max_dynamic_region, RomRegion
<1>4. index = Slots - U
  BY <1>1, <1>2 DEF max_dynamic_region
<1>5. Len(EntriesOf(RomRegion)) = U
  BY FixedValid
<1> HIDE DEF U, index
<1>6. \A x \in 1 .. U : csr'[Slots - U - 1 + x] = EntriesOf(RomRegion)[x]
  <2>1. index \in Nat /\ Len(EntriesOf(RomRegion)) \in {1, 2}
    BY <1>2, <1>4, <1>5
  <2>2. Writes(t, csr, index, RomRegion)
    BY <2>1, TranslateIs
  <2>3. \A x \in 1 .. U : t.entries[index + x - 1] = EntriesOf(RomRegion)[x]
    <3>1. index + U =< Slots
      BY <1>2, <1>4
    <3>2. QED BY <1>5, <2>2, <3>1 DEF Writes
  <2> TAKE x \in 1 .. U
  <2>4. index + x - 1 = Slots - U - 1 + x
    BY <1>2, <1>4
  <2>5. QED BY <1>1, <2>3, <2>4
<1>7. /\ mode \in {"TOR", "NAPOT"}
      /\ mode = "NAPOT" => Aligned(Stack) /\ Aligned(Rom)
      /\ u_pmp = [c \in Ctx |-> u_pmp[c]]
      /\ added \in [Ctx -> Seq(DynamicRegions)]
      /\ \A c \in Ctx : added[c] = <<>> /\ \A i \in Slot : IsFree(u_pmp[c][i])
  BY <1>1 DEF PmpInv, Untouched
<1>8. \A c \in Ctx : ContextInv(c)'
  <2>2. \A c \in Ctx : Fresh(c)'
    BY <1>1, <1>3, <1>7 DEF Fresh, U
  <2>3. QED BY <2>2, FreshNext
<1>9. static_regions_num' # 0 /\ static_regions_num' \in {0, U}
  BY <1>1, <1>2
<1>10. \A x \in 1 .. U : csr'[max_dynamic_region' + x] = EntriesOf(RomRegion)[x]
  BY <1>3, <1>6
<1>11. QED BY <1>1, <1>3, <1>7, <1>8, <1>9, <1>10 DEF PmpInv, U

LEMMA ResetStep ==
  ASSUME PmpInv, static_regions_num # 0, NEW c \in Ctx, z_riscv_pmp_init(c)
  PROVE  PmpInv'
<1> DEFINE v == [i \in Slot |-> Cleared(u_pmp[c][i])]
<1>1. /\ mode' = mode /\ static_regions_num' = static_regions_num /\ csr' = csr
      /\ u_pmp' = [u_pmp EXCEPT ![c] = v] /\ added' = [added EXCEPT ![c] = <<>>]
  BY DEF z_riscv_pmp_init
<1>2. Kept
  BY <1>1, KeptIs
<1>3. \A i \in Slot : IsFree(v[i])
  BY DEF IsFree, Cleared, Empty
<1> HIDE DEF v
<1>4. u_pmp'[c] = v /\ added'[c] = <<>>
  BY <1>1 DEF PmpInv
<1>5. ContextInv(c)'
  <2>2. Fresh(c)'
    BY <1>1, <1>2, <1>3, <1>4 DEF Fresh, PmpInv, Kept
  <2>3. QED BY <2>2, FreshNext
<1>6. <<>> \in Seq(DynamicRegions)
  OBVIOUS
<1>7. QED BY <1>1, <1>2, <1>5, <1>6, OneContext

LEMMA StackStep ==
  ASSUME PmpInv, static_regions_num # 0, NEW c \in Ctx, z_riscv_init_user_accesses(c)
  PROVE  PmpInv'
<1> DEFINE U == UsedEntries
           t == Translate(u_pmp[c], 0, StackRegion)
           v == t.entries
<1>1. /\ mode' = mode /\ static_regions_num' = static_regions_num /\ csr' = csr
      /\ u_pmp' = [u_pmp EXCEPT ![c] = v] /\ added' = added
  BY DEF z_riscv_init_user_accesses
<1>2. Kept
  BY <1>1, KeptIs
<1>3. U \in {1, 2} /\ Slots \in Nat /\ Slots >= 4 /\ max_dynamic_region < Slots
      /\ max_dynamic_region \in Int
  BY UsedIs
<1>4. Len(EntriesOf(StackRegion)) = U
  BY FixedValid
<1> HIDE DEF U
<1>5. /\ \A x \in 1 .. U : v[x - 1] = EntriesOf(StackRegion)[x]
      /\ \A i \in Slot : i >= U => v[i] = u_pmp[c][i]
  <2>1. 0 \in Nat /\ Len(EntriesOf(StackRegion)) \in {1, 2}
    BY <1>3, <1>4
  <2>2. Writes(t, u_pmp[c], 0, StackRegion)
    BY <2>1, TranslateIs
  <2>3. 0 + U = U /\ U =< Slots /\ \A x \in 1 .. U : 0 + x - 1 = x - 1
    BY <1>3
  <2>4. QED BY <1>4, <2>2, <2>3 DEF Writes
<1> HIDE DEF v
<1>6. u_pmp'[c] = v /\ added'[c] = added[c] /\ added[c] \in Seq(DynamicRegions)
      /\ added' = [added EXCEPT ![c] = added[c]]
  BY <1>1 DEF PmpInv
<1>7. ContextInv(c)'
  <2>1. \A i \in U .. max_dynamic_region : u_pmp'[c][i] = u_pmp[c][i]
    <3> TAKE i \in U .. max_dynamic_region
    <3>1. i \in Slot /\ i >= U
      BY <1>3 DEF Slot
    <3>2. QED BY <1>5, <1>6, <3>1
  <2>2. Fits(c)' => Laid(c)'
    BY <1>2, <1>6, <2>1, LaidSame DEF U
  <2>3. IsFree(u_pmp'[c][U])
    <3>1. U \in Slot /\ U >= U
      BY <1>3 DEF Slot
    <3>2. IsFree(u_pmp[c][U])
      BY DEF PmpInv, ContextInv, U
    <3>3. QED BY <1>5, <1>6, <3>1, <3>2
  <2>4. StackLaid(c)'
    BY <1>2, <1>5, <1>6 DEF StackLaid, Kept, U
  <2>5. QED BY <1>2, <2>2, <2>3, <2>4 DEF ContextInv, Kept, U
<1>8. QED BY <1>1, <1>2, <1>6, <1>7, OneContext

LEMMA AddStep ==
  ASSUME PmpInv, static_regions_num # 0, NEW c \in Ctx,
         NEW r \in IF mode = "TOR" THEN TorRegions ELSE NapotRegions,
         z_riscv_pmp_add_dynamic(c, r.start, r.size, r.flags)
  PROVE  PmpInv'
<1> DEFINE g == DynamicRegion(r.start, r.size, r.flags)
           t == Translate(u_pmp[c], FreeIndex(c), g)
           v == t.entries
           s == Append(added[c], [region |-> g, last |-> t.next - 1])
<1>1. /\ mode' = mode /\ static_regions_num' = static_regions_num /\ csr' = csr
      /\ u_pmp' = [u_pmp EXCEPT ![c] = v] /\ added' = [added EXCEPT ![c] = s]
      /\ AddReturns(c, r.start, r.size, r.flags) = 0
  BY DEF z_riscv_pmp_add_dynamic
<1>2. r.size # 0
  BY <1>1 DEF AddReturns, EINVAL
<1>3. Valid(g) /\ \A l \in Int : [region |-> g, last |-> l] \in DynamicRegions
  BY <1>2, AddedValid
<1>4. Kept
  BY <1>1, KeptIs
<1> HIDE DEF g
<1>5. s \in Seq(DynamicRegions)
  <2>1. t.next \in Int
    <3>1. Len(EntriesOf(g)) \in {1, 2}
      BY <1>3, EntriesAre
    <3>2. FreeIndex(c) \in Nat /\ Slots \in Nat
      BY FreeIndexIs, PmpAssumption
    <3>3. Writes(t, u_pmp[c], FreeIndex(c), g)
      BY <3>1, <3>2, TranslateIs
    <3> HIDE DEF t
    <3>4. QED BY <3>1, <3>2, <3>3 DEF Writes
  <2> HIDE DEF t
  <2>2. t.next - 1 \in Int
    BY <2>1
  <2>3. [region |-> g, last |-> t.next - 1] \in DynamicRegions
    BY <1>3, <2>2
  <2>4. added[c] \in Seq(DynamicRegions)
    BY DEF PmpInv
  <2>5. QED BY <2>3, <2>4
<1>6. u_pmp'[c] = v /\ added'[c] = s
  BY <1>1 DEF PmpInv
<1>7. ContextInv(c)'
  BY <1>3, <1>4, <1>6, AddedContext
<1> HIDE DEF t, v, s
<1>8. QED BY <1>1, <1>4, <1>5, <1>7, OneContext

LEMMA PmpInvStep == PmpInv /\ [PmpNext]_pmpVars => PmpInv'
<1> SUFFICES ASSUME PmpInv, [PmpNext]_pmpVars PROVE PmpInv'
  OBVIOUS
<1>1. CASE z_riscv_configure_static_pmp_regions
  BY <1>1, StaticStep
<1>2. CASE static_regions_num # 0 /\ z_riscv_pmp_clear_config
  <2>1. Kept /\ u_pmp' = u_pmp /\ added' = added
    BY <1>2, KeptIs DEF z_riscv_pmp_clear_config
  <2>2. \A i \in Slot : i > max_dynamic_region => csr'[i] = csr[i]
    <3> TAKE i \in Slot
    <3>1. max_dynamic_region \in Int /\ i \in Int
      BY UsedIs DEF Slot
    <3>2. QED BY <1>2, <3>1 DEF z_riscv_pmp_clear_config
  <2>3. QED BY <1>2, <2>1, <2>2, DynamicEntries
<1>3. ASSUME static_regions_num # 0, NEW c \in Ctx,
             z_riscv_configure_user_allowed_stack(c)
      PROVE  PmpInv'
  <2>1. Kept /\ u_pmp' = u_pmp /\ added' = added
    BY <1>3, KeptIs DEF z_riscv_configure_user_allowed_stack
  <2>2. \A i \in Slot : i > max_dynamic_region => csr'[i] = csr[i]
    <3> TAKE i \in Slot
    <3>1. max_dynamic_region \in Int /\ i \in Int
      BY UsedIs DEF Slot
    <3>2. QED BY <1>3, <3>1 DEF z_riscv_configure_user_allowed_stack
  <2>3. QED BY <1>3, <2>1, <2>2, DynamicEntries
<1>4. ASSUME static_regions_num # 0, NEW c \in Ctx, z_riscv_pmp_init(c)
      PROVE  PmpInv'
  BY <1>4, ResetStep
<1>5. ASSUME static_regions_num # 0, NEW c \in Ctx, z_riscv_init_user_accesses(c)
      PROVE  PmpInv'
  BY <1>5, StackStep
<1>6. ASSUME static_regions_num # 0, NEW c \in Ctx,
             NEW r \in IF mode = "TOR" THEN TorRegions ELSE NapotRegions,
             z_riscv_pmp_add_dynamic(c, r.start, r.size, r.flags)
      PROVE  PmpInv'
  BY <1>6, AddStep
<1>7. CASE UNCHANGED pmpVars
  <2>1. /\ mode' = mode /\ static_regions_num' = static_regions_num
        /\ csr' = csr /\ u_pmp' = u_pmp /\ added' = added
    BY <1>7 DEF pmpVars
  <2>2. Kept
    BY <2>1, KeptIs
  <2>3. CASE static_regions_num # 0
    BY <2>1, <2>2, <2>3, DynamicEntries
  <2>4. CASE static_regions_num = 0
    <3>1. \A c \in Ctx : ContextInv(c)'
      BY <2>1, <2>2, ContextSame
    <3>2. Untouched'
      BY <2>1, <2>4 DEF PmpInv, Untouched
    <3>3. QED BY <2>1, <2>2, <2>4, <3>1, <3>2 DEF PmpInv, Kept
  <2>5. QED BY <2>3, <2>4
<1>8. QED BY <1>1, <1>2, <1>3, <1>4, <1>5, <1>6, <1>7 DEF PmpNext

LEMMA PmpAlways == PmpSpec => []PmpInv
BY PmpInitInv, PmpInvStep, PTL DEF PmpSpec

(***************************************************************************)
(* For every number of entries, size of memory, regions and contexts: while *)
(* a context is in force and its regions fit, a user may access every word  *)
(* as the first of its regions that contain it says, and no other           *)
(* (core_pmp.c:382-491, 610-677).                                          *)
(***************************************************************************)
THEOREM RegionsEnforced == PmpSpec => []AsAdded
BY PmpAlways, InvAsAdded, PTL

(***************************************************************************)
(* For all of these, and regions that do not overlap: arch_buffer_validate *)
(* accepts no buffer of the context in force that a word of which is       *)
(* denied, and every accessible one that lies in one region                *)
(* (core_pmp.c:700-796).                                                   *)
(***************************************************************************)
THEOREM ValidationAgrees == PmpSpec => []ValidateAgrees
BY PmpAlways, InvValidateAgrees, PTL
=============================================================================
