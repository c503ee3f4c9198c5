----------------------------- MODULE KernelClock -----------------------------
(***************************************************************************)
(* The kernel's two ways to measure time with the RTC counter:             *)
(* k_busy_wait (kernel/timeout.c) and sys_clock_elapsed (rtc_timer.c).     *)
(* Both subtract counter values as uint32_t, while the counter starts      *)
(* again every day.  One busy wait runs at a time; the RTC's interrupt     *)
(* handler may run between any two of its polls.                           *)
(***************************************************************************)
EXTENDS RtcTimer

CONSTANTS
  TICKLESS_KERNEL,  \* CONFIG_TICKLESS_KERNEL; no SoC of the SDK selects it
  CyclesPerSec,  \* sys_clock_hw_cycles_per_sec()
  UsecPerSec,    \* USEC_PER_SEC
  MaxUsec,   \* microseconds of the longest busy wait
  MaxGap     \* ticks that may pass between two polls of the counter

\* (uint64_t)usec * (uint64_t)cycles per second / (uint64_t)USEC_PER_SEC: no
\* overflow, rounded down; what MaxUsec allows fits the uint32_t it is cast to.
CyclesOf(usec) == (usec * CyclesPerSec) \div UsecPerSec

\* A wait is shorter than a day.
ASSUME WaitAssumption ==
  /\ TICKLESS_KERNEL \in BOOLEAN
  /\ CyclesPerSec \in Nat \ {0} /\ UsecPerSec \in Nat \ {0}
  /\ MaxUsec \in Nat /\ MaxGap \in Nat \ {0}
  /\ CyclesOf(MaxUsec) + MaxGap < Day

VARIABLES
  waiting,        \* k_busy_wait is in its loop
  start_cycles,
  cycles_to_wait,
  \* History, for the properties only:
  usec_to_wait,   \* the argument of the last k_busy_wait
  waited,         \* ticks since k_busy_wait read start_cycles, up to Day
  gap,            \* ticks since the last poll
  crossed,        \* the day ended since start_cycles was read
  since,          \* ticks since the last alarm was served, up to Day
  newday          \* the day ended since then

waitVars == <<waiting, start_cycles, cycles_to_wait, usec_to_wait, waited, gap,
              crossed>>
vars == <<rtcVars, waitVars, since, newday>>

TypeOK ==
  /\ RtcTypeOK
  /\ waiting \in BOOLEAN /\ start_cycles \in Cnt
  /\ cycles_to_wait \in Nat /\ usec_to_wait \in 0 .. MaxUsec
  /\ waited \in 0 .. Day /\ gap \in 0 .. MaxGap /\ crossed \in BOOLEAN
  /\ since \in 0 .. Day /\ newday \in BOOLEAN

Init ==
  /\ RtcInit
  /\ waiting = FALSE /\ start_cycles = 0 /\ cycles_to_wait = 0
  /\ usec_to_wait = 0 /\ waited = 0 /\ gap = 0 /\ crossed = FALSE
  /\ since = 0 /\ newday = FALSE

\* A wait of no time returns at once.
k_busy_wait(usec) ==
  /\ ~waiting
  /\ usec # 0
  /\ waiting' = TRUE
  /\ start_cycles' = cnt
  /\ cycles_to_wait' = CyclesOf(usec)
  /\ usec_to_wait' = usec
  /\ waited' = 0 /\ gap' = 0 /\ crossed' = FALSE
  /\ UNCHANGED <<rtcVars, since, newday>>

\* Mutant: one cycle is forgotten.
TimeIsUp_OffByOne == Sub32(cnt, start_cycles) + 1 >= cycles_to_wait

TimeIsUp == Sub32(cnt, start_cycles) >= cycles_to_wait

Poll ==
  /\ waiting
  /\ waiting' = ~TimeIsUp
  /\ gap' = 0
  /\ UNCHANGED <<rtcVars, start_cycles, cycles_to_wait, usec_to_wait, waited,
                 crossed, since, newday>>

SetAlarm(t) ==
  /\ sys_clock_set_ticks(t)
  /\ UNCHANGED <<waitVars, since, newday>>

Isr ==
  /\ RTC_IRQHandler
  /\ since' = 0 /\ newday' = FALSE
  /\ UNCHANGED waitVars

\* Time passes; the loop polls often enough.
Tick ==
  /\ RtcTick
  /\ IF waiting
     THEN /\ gap < MaxGap
          /\ gap' = gap + 1
          /\ waited' = IF waited < Day THEN waited + 1 ELSE waited
          /\ crossed' = (crossed \/ cnt' = 0)
     ELSE UNCHANGED <<gap, waited, crossed>>
  /\ since' = IF since < Day THEN since + 1 ELSE since
  /\ newday' = (newday \/ cnt' = 0)
  /\ UNCHANGED <<waiting, start_cycles, cycles_to_wait, usec_to_wait>>

\* (get_rtc_cnt() - last_count) / CYC_PER_TICK, one cycle per tick.
sys_clock_elapsed ==
  IF TICKLESS_KERNEL THEN Sub32(cnt, last_count) ELSE 0

Next ==
  \/ \E u \in 0 .. MaxUsec : k_busy_wait(u)
  \/ Poll \/ Isr \/ Tick
  \/ \E t \in 0 .. Word - 1 : SetAlarm(t)

Spec == Init /\ [][Next]_vars

-----------------------------------------------------------------------------
(***************************************************************************)
(* A busy wait that starts and ends on the same day is short of the        *)
(* microseconds it was asked for by less than one cycle of the counter,    *)
(* which is what the conversion rounds off, and on any day late by at most *)
(* the gap between two polls (kernel/timeout.c:21-35).  Time is counted in *)
(* the counter's ticks.                                                    *)
(***************************************************************************)
WaitInTime ==
  /\ ~waiting /\ ~crossed =>
       (waited + 1) * UsecPerSec > usec_to_wait * CyclesPerSec
  /\ waited * UsecPerSec
       <= usec_to_wait * CyclesPerSec + MaxGap * UsecPerSec

(***************************************************************************)
(* What sys_clock_elapsed returns is the number of ticks since the alarm   *)
(* was last served, as long as the day has not ended since, whatever the   *)
(* alarm is set to meanwhile (rtc_timer.c:32-42, 53-65).                   *)
(***************************************************************************)
ElapsedInDay == TICKLESS_KERNEL /\ ~newday => sys_clock_elapsed = since

(***************************************************************************)
(* The strengthening of WaitInTime: how the counter, start_cycles and the  *)
(* time waited are related before and after the end of the day, and that   *)
(* the loop goes on only if the last poll found time left.                 *)
(***************************************************************************)
WaitCycles ==
  /\ ~waiting /\ ~crossed => waited >= cycles_to_wait
  /\ waited <= cycles_to_wait + MaxGap

WaitInv ==
  /\ TypeOK
  /\ cycles_to_wait = CyclesOf(usec_to_wait) /\ cycles_to_wait + MaxGap < Day
  /\ ~crossed /\ waiting => cnt = start_cycles + waited
  /\ crossed /\ waiting => cnt + Day = start_cycles + waited
  /\ waiting => waited <= cycles_to_wait + gap
  /\ WaitCycles
  /\ ~newday => cnt = last_count + since /\ since < Day

-----------------------------------------------------------------------------
(* What the code says of itself and does not do.                           *)

(***************************************************************************)
(* kernel/timeout.c:31, "this handles the rollover on an unsigned 32-bit   *)
(* value": a busy wait is long enough although the counter starts again.   *)
(***************************************************************************)
WaitAcrossRollover == ~waiting => waited >= cycles_to_wait

(***************************************************************************)
(* include/kernel.h:232-233, "a 'do nothing' loop for usec_to_wait          *)
(* microseconds": a wait within the day takes at least the time asked for. *)
(* The calculation rounds down, to no cycle at all for a short wait.       *)
(***************************************************************************)
WaitLongEnough ==
  ~waiting /\ ~crossed => waited * UsecPerSec >= usec_to_wait * CyclesPerSec
=============================================================================
