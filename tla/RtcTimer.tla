------------------------------ MODULE RtcTimer ------------------------------
(***************************************************************************)
(* The RTC as the kernel's clock: the 32 kHz counter and its trigger       *)
(* register (hal_rtc.c), and the driver on top of it (rtc_timer.c).  The   *)
(* counter does not run over all 32-bit words: it counts the ticks of one  *)
(* day and starts again.                                                   *)
(***************************************************************************)
EXTENDS Integers

CONSTANTS
  Day,    \* RTC_ONEDAY_TICKS = CONFIG_SOC_RTC_MAX_TICK: the counter's period
  Word    \* 2^32, the range of uint32_t

ASSUME RtcAssumption ==
  /\ Day \in Nat /\ Day > 1
  /\ Word \in Nat /\ Day < Word /\ Word < 2 * Day

VARIABLES
  cnt,        \* R32_RTC_CNT_32K
  trig,       \* R32_RTC_TRIG
  pending,    \* RB_RTC_TRIG_FLAG, and with it the RTC interrupt request
  last_count  \* the driver's static last_count

rtcVars == <<cnt, trig, pending, last_count>>

Cnt == 0 .. Day - 1

RtcTypeOK ==
  /\ cnt \in Cnt
  /\ trig \in 0 .. Day
  /\ pending \in BOOLEAN
  /\ last_count \in Cnt

\* uint32_t subtraction.
Sub32(a, b) == IF a >= b THEN a - b ELSE a + Word - b

\* Mutant: no reduction to the day.
TrigValue_NoWrap(ticks) == ticks

\* hal_rtc_set_ticks brings a value beyond the day back into it, once.
TrigValue(ticks) == IF ticks > Day THEN ticks - Day ELSE ticks

\* sys_clock_driver_init: hal_rtc_set_timestamp(RTC_START_TIMESTAMP) loads
\* day 0 and tick 0 through the trigger register.
RtcInit ==
  /\ cnt = 0
  /\ trig = 0
  /\ pending = FALSE
  /\ last_count = 0

\* The hardware: the counter advances, and raises the flag on a match.
NextCnt == IF cnt + 1 = Day THEN 0 ELSE cnt + 1

RtcTick ==
  /\ cnt' = NextCnt
  /\ pending' = (pending \/ cnt' = trig)
  /\ UNCHANGED <<trig, last_count>>

\* Mutant: hal_rtc_flag_clear is not called.
RTC_IRQHandler_NoClear ==
  /\ pending
  /\ last_count' = cnt
  /\ UNCHANGED <<cnt, trig, pending>>

\* Mutant: last_count is not updated.
RTC_IRQHandler_NoCount ==
  /\ pending
  /\ pending' = FALSE
  /\ UNCHANGED <<cnt, trig, last_count>>

RTC_IRQHandler ==
  /\ pending
  /\ last_count' = cnt
  /\ pending' = FALSE
  /\ UNCHANGED <<cnt, trig>>

sys_clock_set_ticks(ticks) ==
  /\ trig' = TrigValue(ticks)
  /\ UNCHANGED <<cnt, pending, last_count>>

=============================================================================
