--------------------------- MODULE PmSystemProofs ---------------------------
(***************************************************************************)
(* Proofs, for all constants, about PmSystem.                              *)
(***************************************************************************)
EXTENDS PmSystem, TLAPS

USE DEF ACTIVE, SUSPEND_TO_IDLE, SUSPEND_TO_RAM

\* The API shared by the application and its handlers keeps the types.
LEMMA ApiType ==
  ASSUME TypeOK, Api
  PROVE  /\ PolicyTypeOK'
         /\ pm_notifiers' \subseteq Notifiers
         /\ held' \subseteq PmState
         /\ noted' \in [Notifiers -> PmState \union {None}]
<1>1. CASE \E s \in Lockable : LockGet(s) \/ LockPut(s)
  BY <1>1, PolicyAssumption, PmAssumption
  DEF TypeOK, PolicyTypeOK, LockGet, LockPut, pm_policy_state_lock_get,
      pm_policy_state_lock_put
<1>2. CASE \E n \in Notifiers :
             pm_notifier_register(n) \/ pm_notifier_unregister(n)
  BY <1>2
  DEF TypeOK, PolicyTypeOK, pm_notifier_register, pm_notifier_unregister
<1> QED
  BY <1>1, <1>2 DEF Api

\* The initial state is well typed.
LEMMA TypeInit == Init => TypeOK
<1> SUFFICES ASSUME Init PROVE TypeOK
  OBVIOUS
<1>1. RtcTypeOK
  <2>1. cnt \in Cnt /\ trig \in 0 .. Day /\ last_count \in Cnt
    BY RtcAssumption DEF Init, RtcInit, Cnt
  <2>2. pending \in BOOLEAN
    BY Zenon DEF Init, RtcInit
  <2> QED
    BY <2>1, <2>2 DEF RtcTypeOK
<1>2. PolicyTypeOK
  BY PolicyAssumption DEF Init, PolicyInit, PolicyTypeOK
<1>3. z_pm_state \in StateInfo
  BY DEF Init, StateInfo, ActiveInfo, Info, PmState
<1>4. ticks \in Cnt /\ want \in 0 .. Day - 1 /\ busy \in 0 .. MaxRun
  BY RtcAssumption, PmAssumption DEF Init, Cnt
<1>5. post_ops \in BOOLEAN /\ irq \in BOOLEAN /\ hooked \in BOOLEAN
  BY Zenon DEF Init
<1> QED
  BY <1>1, <1>2, <1>3, <1>4, <1>5 DEF Init, TypeOK, PmState

\* Every step keeps the type invariant.
LEMMA TypeStep == TypeOK /\ [Next]_vars => TypeOK'
<1> SUFFICES ASSUME TypeOK, [Next]_vars PROVE TypeOK'
  OBVIOUS
<1>1. CASE StayAwake
  BY <1>1, RtcAssumption, PolicyAssumption, PmAssumption
  DEF TypeOK, StayAwake, Return, Goto, PmState, Cnt, rtcVars, apiVars,
      RtcTypeOK, PolicyTypeOK
<1>2. CASE Decide
  BY <1>2, RtcAssumption, PolicyAssumption, PmAssumption
  DEF TypeOK, Decide, Goto, StateFor, StateForUsecs, Info, StateInfo, PmState,
      callVars, rtcVars, apiVars, RtcTypeOK, PolicyTypeOK
<1>3. CASE SetAlarm
  BY <1>3, RtcAssumption, PolicyAssumption, PmAssumption
  DEF TypeOK, SetAlarm, Goto, RtcTypeOK, Cnt, sys_clock_set_ticks, TrigValue,
      Sub32, StateInfo, callVars, apiVars, PolicyTypeOK
<1>4. CASE NotifyEntry
  BY <1>4, RtcAssumption, PolicyAssumption, PmAssumption
  DEF TypeOK, NotifyEntry, Goto, pm_state_notify_entry, StateInfo, callVars,
      rtcVars, apiVars, RtcTypeOK, PolicyTypeOK
<1>5. CASE SetPostOps
  BY <1>5, RtcAssumption, PolicyAssumption, PmAssumption
  DEF TypeOK, SetPostOps, Goto, callVars, rtcVars, apiVars, RtcTypeOK,
      PolicyTypeOK
<1>6. CASE LoadState
  BY <1>6, RtcAssumption, PolicyAssumption, PmAssumption
  DEF TypeOK, LoadState, Goto, StateInfo, rtcVars, apiVars, RtcTypeOK,
      PolicyTypeOK
<1>7. CASE pm_state_set
  BY <1>7, RtcAssumption, PolicyAssumption, PmAssumption
  DEF TypeOK, pm_state_set, Goto, callVars, rtcVars, apiVars, RtcTypeOK,
      PolicyTypeOK
<1>8. CASE SetFinalAlarm
  BY <1>8, RtcAssumption, PolicyAssumption, PmAssumption
  DEF TypeOK, SetFinalAlarm, Goto, RtcTypeOK, Cnt, sys_clock_set_ticks,
      TrigValue, callVars, apiVars, PolicyTypeOK
<1>9. CASE WaitFinalAlarm
  BY <1>9, RtcAssumption, PolicyAssumption, PmAssumption
  DEF TypeOK, WaitFinalAlarm, Goto, PmState, callVars, rtcVars, apiVars,
      RtcTypeOK, PolicyTypeOK
<1>10. CASE NoFinalAlarm
  BY <1>10, RtcAssumption, PolicyAssumption, PmAssumption
  DEF TypeOK, NoFinalAlarm, Goto, callVars, rtcVars, apiVars, RtcTypeOK,
      PolicyTypeOK
<1>11. CASE ResumeDone
  BY <1>11, RtcAssumption, PolicyAssumption, PmAssumption
  DEF TypeOK, ResumeDone, Return, Goto, PmState, Cnt, rtcVars, apiVars,
      RtcTypeOK, PolicyTypeOK
<1>12. CASE ResumePostOps
  BY <1>12, RtcAssumption, PolicyAssumption, PmAssumption
  DEF TypeOK, ResumePostOps, Goto, pm_state_exit_post_ops, callVars, rtcVars,
      apiVars, RtcTypeOK, PolicyTypeOK
<1>13. CASE ResumeNotifyExit
  BY <1>13, RtcAssumption, PolicyAssumption, PmAssumption
  DEF TypeOK, ResumeNotifyExit, Goto, pm_state_notify_exit, callVars, rtcVars,
      apiVars, RtcTypeOK, PolicyTypeOK
<1>14. CASE ResumeActive
  BY <1>14, RtcAssumption, PolicyAssumption, PmAssumption
  DEF TypeOK, ResumeActive, Return, Goto, ActiveInfo, Info, StateInfo,
      PmState, Cnt, rtcVars, apiVars, RtcTypeOK, PolicyTypeOK
<1>20. CASE \E t \in Cnt, i \in CallerIrqs : Suspend(t, i)
  BY <1>20, RtcAssumption, PmAssumption
  DEF TypeOK, Suspend, SleepTicks, Goto, Cnt, rtcVars, apiVars, RtcTypeOK,
      PolicyTypeOK
<1>21. CASE Wake
  BY <1>21, PmAssumption
  DEF TypeOK, Wake, rtcVars, apiVars, RtcTypeOK, PolicyTypeOK
<1>23. CASE App
  BY ApiType, <1>23 DEF TypeOK, App, Goto, rtcVars, RtcTypeOK
<1>24. CASE RtcIsr
  BY <1>24
  DEF TypeOK, RtcIsr, RTC_IRQHandler, RtcTypeOK, apiVars, callVars,
      PolicyTypeOK
<1>25. CASE AppIsr
  <2>1. RtcTypeOK'
    BY <1>25 DEF AppIsr, ServeIrq, TypeOK, RtcTypeOK, rtcVars
  <2>2. /\ PolicyTypeOK'
        /\ pm_notifiers' \subseteq Notifiers
        /\ held' \subseteq PmState
        /\ noted' \in [Notifiers -> PmState \union {None}]
    <3>1. CASE Api
      BY ApiType, <3>1
    <3>2. CASE UNCHANGED <<apiVars, held>>
      BY <3>2 DEF apiVars, TypeOK, PolicyTypeOK
    <3> QED
      BY <1>25, <3>1, <3>2 DEF AppIsr
  <2> QED
    BY <1>25, <2>1, <2>2 DEF AppIsr, ServeIrq, TypeOK
<1>26. CASE ResumeIsr
  <2>1. noted' \in [Notifiers -> PmState \union {None}]
    BY <1>26 DEF ResumeIsr, pm_state_notify_exit, TypeOK
  <2>2. z_pm_state' \in StateInfo
    BY <1>26, PolicyAssumption
    DEF ResumeIsr, ActiveInfo, Info, StateInfo, PmState
  <2> QED
    BY <1>26, <2>1, <2>2
    DEF TypeOK, ResumeIsr, ServeIrq, pm_state_exit_post_ops, RtcTypeOK,
        rtcVars, PolicyTypeOK
<1>27. CASE Tick
  BY <1>27, RtcAssumption, PmAssumption
  DEF TypeOK, Tick, RtcTick, NextCnt, RtcTypeOK, Cnt, apiVars, PolicyTypeOK
<1>28. CASE RaiseIrq
  BY <1>28
  DEF TypeOK, RaiseIrq, rtcVars, apiVars, callVars, RtcTypeOK, PolicyTypeOK
<1>29. CASE UNCHANGED vars
  BY <1>29
  DEF vars, TypeOK, rtcVars, apiVars, callVars, RtcTypeOK, PolicyTypeOK
<1> QED
  BY <1>1, <1>2, <1>3, <1>4, <1>5, <1>6, <1>7, <1>8, <1>9, <1>10, <1>11,
     <1>12, <1>13, <1>14, <1>20, <1>21, <1>23, <1>24, <1>25, <1>26, <1>27,
     <1>28, <1>29
  DEF Next, Caller, Isr

\* Time passes in the counter and in the request alike.
LEMMA ClockInvStep == IInv /\ [Next]_vars => ClockInv'
<1> SUFFICES ASSUME IInv, [Next]_vars PROVE ClockInv'
  OBVIOUS
<1> /\ TypeOK /\ TypeOK' /\ ClockInv /\ StateInv /\ PrologueInv /\ SleepInv
    /\ NotifyInv /\ LockInv /\ ResumeInv
  BY TypeStep DEF IInv
<1> USE RtcAssumption, PolicyAssumption, PmAssumption, PrologueAssumption
<1>1. CASE \E t \in Cnt, i \in CallerIrqs : Suspend(t, i)
  BY <1>1
  DEF ClockInv, InCall, Suspend, SleepTicks, PrologueInv, RtcTypeOK, Cnt,
      TypeOK, Goto, rtcVars, apiVars, callVars
<1>2. CASE StayAwake
  BY <1>2
  DEF ClockInv, InCall, StayAwake, Return, Goto, rtcVars, apiVars, callVars
<1>3. CASE Decide
  BY <1>3
  DEF ClockInv, InCall, Decide, Goto, rtcVars, apiVars, callVars
<1>4. CASE SetAlarm
  BY <1>4
  DEF ClockInv, InCall, SetAlarm, sys_clock_set_ticks, Goto, rtcVars, apiVars,
      callVars
<1>5. CASE NotifyEntry
  BY <1>5
  DEF ClockInv, InCall, NotifyEntry, Goto, rtcVars, apiVars, callVars
<1>6. CASE SetPostOps
  BY <1>6
  DEF ClockInv, InCall, SetPostOps, Goto, rtcVars, apiVars, callVars
<1>7. CASE LoadState
  BY <1>7
  DEF ClockInv, InCall, LoadState, Goto, rtcVars, apiVars, callVars
<1>8. CASE pm_state_set
  BY <1>8
  DEF ClockInv, InCall, pm_state_set, Goto, rtcVars, apiVars, callVars
<1>9. CASE Wake
  BY <1>9
  DEF ClockInv, InCall, Wake, Asleep, Goto, rtcVars, apiVars, callVars
<1>10. CASE SetFinalAlarm
  BY <1>10
  DEF ClockInv, InCall, SetFinalAlarm, sys_clock_set_ticks, Goto, rtcVars,
      apiVars, callVars
<1>11. CASE WaitFinalAlarm
  BY <1>11
  DEF ClockInv, InCall, WaitFinalAlarm, Goto, rtcVars, apiVars, callVars
<1>12. CASE NoFinalAlarm
  BY <1>12
  DEF ClockInv, InCall, NoFinalAlarm, Goto, rtcVars, apiVars, callVars
<1>13. CASE ResumeDone
  BY <1>13
  DEF ClockInv, InCall, ResumeDone, Return, Goto, rtcVars, apiVars, callVars
<1>14. CASE ResumePostOps
  BY <1>14
  DEF ClockInv, InCall, ResumePostOps, Goto, rtcVars, apiVars, callVars
<1>15. CASE ResumeNotifyExit
  BY <1>15
  DEF ClockInv, InCall, ResumeNotifyExit, Goto, rtcVars, apiVars, callVars
<1>16. CASE ResumeActive
  BY <1>16
  DEF ClockInv, InCall, ResumeActive, Return, Goto, rtcVars, apiVars, callVars
<1>17. CASE App
  BY <1>17
  DEF ClockInv, InCall, App, Api, LockGet, LockPut, pm_notifier_register,
      pm_notifier_unregister, Goto, rtcVars, apiVars, callVars
<1>18. CASE RtcIsr
  BY <1>18
  DEF ClockInv, InCall, RtcIsr, RTC_IRQHandler, Goto, rtcVars, apiVars,
      callVars
<1>19. CASE AppIsr
  BY <1>19
  DEF ClockInv, InCall, AppIsr, ServeIrq, Api, LockGet, LockPut,
      pm_notifier_register, pm_notifier_unregister, Goto, rtcVars, apiVars,
      callVars
<1>20. CASE ResumeIsr
  BY <1>20
  DEF ClockInv, InCall, ResumeIsr, ServeIrq, Goto, rtcVars, apiVars, callVars
<1>21. CASE Tick
  BY <1>21
  DEF ClockInv, InCall, Tick, RtcTick, NextCnt, RtcTypeOK, Cnt, TypeOK, Goto,
      rtcVars, apiVars, callVars
<1>22. CASE RaiseIrq
  BY <1>22
  DEF ClockInv, InCall, RaiseIrq, Goto, rtcVars, apiVars, callVars
<1>23. CASE UNCHANGED vars
  BY <1>23
  DEF ClockInv, InCall, vars, Goto, rtcVars, apiVars, callVars
<1> QED
  BY <1>1, <1>2, <1>3, <1>4, <1>5, <1>6, <1>7, <1>8, <1>9, <1>10, <1>11,
     <1>12, <1>13, <1>14, <1>15, <1>16, <1>17, <1>18, <1>19, <1>20, <1>21,
     <1>22, <1>23
  DEF Next, Caller, Isr

\* z_pm_state is the state being entered until somebody resumes.
LEMMA StateInvStep == IInv /\ [Next]_vars => StateInv'
<1> SUFFICES ASSUME IInv, [Next]_vars PROVE StateInv'
  OBVIOUS
<1> /\ TypeOK /\ TypeOK' /\ ClockInv /\ StateInv /\ PrologueInv /\ SleepInv
    /\ NotifyInv /\ LockInv /\ ResumeInv
  BY TypeStep DEF IInv
<1> USE RtcAssumption, PolicyAssumption, PmAssumption, PrologueAssumption
<1>1. CASE \E t \in Cnt, i \in CallerIrqs : Suspend(t, i)
  BY <1>1
  DEF StateInv, LatencyOf, ActiveInfo, Info, StateInfo, PmState, Suspend,
      SleepTicks, Goto, TypeOK, rtcVars, apiVars, callVars
<1>2. CASE StayAwake
  BY <1>2
  DEF StateInv, LatencyOf, ActiveInfo, Info, StateInfo, PmState, Return,
      StayAwake, Goto, TypeOK, rtcVars, apiVars, callVars
<1>3. CASE Decide
  BY <1>3
  DEF StateInv, LatencyOf, ActiveInfo, Info, StateInfo, PmState, StateFor,
      StateForUsecs, pm_policy_next_state_is_null,
      pm_policy_state_lock_is_active, Decide, Goto, TypeOK, rtcVars, apiVars,
      callVars
<1>4. CASE SetAlarm
  BY <1>4
  DEF StateInv, LatencyOf, ActiveInfo, Info, StateInfo, PmState,
      sys_clock_set_ticks, TrigValue, Sub32, SetAlarm, Goto, TypeOK, apiVars,
      callVars
<1>5. CASE NotifyEntry
  BY <1>5
  DEF StateInv, LatencyOf, ActiveInfo, Info, StateInfo, PmState,
      pm_state_notify_entry, NotifyEntry, Goto, TypeOK, rtcVars, apiVars,
      callVars
<1>6. CASE SetPostOps
  BY <1>6
  DEF StateInv, LatencyOf, ActiveInfo, Info, StateInfo, PmState, SetPostOps,
      Goto, TypeOK, rtcVars, apiVars, callVars
<1>7. CASE LoadState
  BY <1>7
  DEF StateInv, LatencyOf, ActiveInfo, Info, StateInfo, PmState, LoadState,
      Goto, TypeOK, rtcVars, apiVars, callVars
<1>8. CASE pm_state_set
  BY <1>8
  DEF StateInv, LatencyOf, ActiveInfo, Info, StateInfo, PmState, pm_state_set,
      Goto, TypeOK, rtcVars, apiVars, callVars
<1>9. CASE Wake
  BY <1>9
  DEF StateInv, LatencyOf, ActiveInfo, Info, StateInfo, PmState, Asleep, Wake,
      Goto, TypeOK, rtcVars, apiVars, callVars
<1>10. CASE SetFinalAlarm
  BY <1>10
  DEF StateInv, LatencyOf, ActiveInfo, Info, StateInfo, PmState,
      sys_clock_set_ticks, TrigValue, SetFinalAlarm, Goto, TypeOK, apiVars,
      callVars
<1>11. CASE WaitFinalAlarm
  BY <1>11
  DEF StateInv, LatencyOf, ActiveInfo, Info, StateInfo, PmState,
      WaitFinalAlarm, Goto, TypeOK, rtcVars, apiVars, callVars
<1>12. CASE NoFinalAlarm
  BY <1>12
  DEF StateInv, LatencyOf, ActiveInfo, Info, StateInfo, PmState, NoFinalAlarm,
      Goto, TypeOK, rtcVars, apiVars, callVars
<1>13. CASE ResumeDone
  BY <1>13
  DEF StateInv, LatencyOf, ActiveInfo, Info, StateInfo, PmState, Return,
      ResumeDone, Goto, TypeOK, rtcVars, apiVars, callVars
<1>14. CASE ResumePostOps
  BY <1>14
  DEF StateInv, LatencyOf, ActiveInfo, Info, StateInfo, PmState,
      pm_state_exit_post_ops, ResumePostOps, Goto, TypeOK, rtcVars, apiVars,
      callVars
<1>15. CASE ResumeNotifyExit
  BY <1>15
  DEF StateInv, LatencyOf, ActiveInfo, Info, StateInfo, PmState,
      pm_state_notify_exit, ResumeNotifyExit, Goto, TypeOK, rtcVars, apiVars,
      callVars
<1>16. CASE ResumeActive
  BY <1>16
  DEF StateInv, LatencyOf, ActiveInfo, Info, StateInfo, PmState, Return,
      ResumeActive, Goto, TypeOK, rtcVars, apiVars, callVars
<1>17. CASE App
  BY <1>17
  DEF StateInv, LatencyOf, ActiveInfo, Info, StateInfo, PmState, Api, LockGet,
      LockPut, pm_policy_state_lock_get, pm_policy_state_lock_put,
      pm_notifier_register, pm_notifier_unregister, App, Goto, TypeOK,
      rtcVars, apiVars, callVars
<1>18. CASE RtcIsr
  BY <1>18
  DEF StateInv, LatencyOf, ActiveInfo, Info, StateInfo, PmState,
      RTC_IRQHandler, Asleep, RtcIsr, Goto, TypeOK, apiVars, callVars
<1>19. CASE AppIsr
  BY <1>19
  DEF StateInv, LatencyOf, ActiveInfo, Info, StateInfo, PmState, ServeIrq,
      Asleep, Api, LockGet, LockPut, pm_policy_state_lock_get,
      pm_policy_state_lock_put, pm_notifier_register, pm_notifier_unregister,
      AppIsr, Goto, TypeOK, rtcVars, apiVars, callVars
<1>20. CASE ResumeIsr
  BY <1>20
  DEF StateInv, LatencyOf, ActiveInfo, Info, StateInfo, PmState, ServeIrq,
      Asleep, pm_state_exit_post_ops, pm_state_notify_exit, ResumeIsr, Goto,
      TypeOK, rtcVars, apiVars, callVars
<1>21. CASE Tick
  BY <1>21
  DEF StateInv, LatencyOf, ActiveInfo, Info, StateInfo, PmState, RtcTick,
      NextCnt, Asleep, Requested, InCall, Tick, Goto, TypeOK, apiVars,
      callVars
<1>22. CASE RaiseIrq
  BY <1>22
  DEF StateInv, LatencyOf, ActiveInfo, Info, StateInfo, PmState, RaiseIrq,
      Goto, TypeOK, rtcVars, apiVars, callVars
<1>23. CASE UNCHANGED vars
  BY <1>23
  DEF StateInv, LatencyOf, ActiveInfo, Info, StateInfo, PmState, vars, Goto,
      TypeOK, rtcVars, apiVars, callVars
<1> QED
  BY <1>1, <1>2, <1>3, <1>4, <1>5, <1>6, <1>7, <1>8, <1>9, <1>10, <1>11,
     <1>12, <1>13, <1>14, <1>15, <1>16, <1>17, <1>18, <1>19, <1>20, <1>21,
     <1>22, <1>23
  DEF Next, Caller, Isr

\* Up to the first WFI: the policy chose a sleep longer than the CPU may run,
\* and the alarm is its end less the exit latency.
LEMMA PrologueInvStep == IInv /\ [Next]_vars => PrologueInv'
<1> SUFFICES ASSUME IInv, [Next]_vars PROVE PrologueInv'
  OBVIOUS
<1> /\ TypeOK /\ TypeOK' /\ ClockInv /\ StateInv /\ PrologueInv /\ SleepInv
    /\ NotifyInv /\ LockInv /\ ResumeInv
  BY TypeStep DEF IInv
<1> USE RtcAssumption, PolicyAssumption, PmAssumption, PrologueAssumption
<1>1. CASE \E t \in Cnt, i \in CallerIrqs : Suspend(t, i)
  BY <1>1
  DEF PrologueInv, LongEnough, AlarmSet, LatencyOf, StateInv, RtcTypeOK, Cnt,
      StateInfo, PmState, Suspend, SleepTicks, Goto, TypeOK, rtcVars, apiVars,
      callVars
<1>2. CASE StayAwake
  BY <1>2
  DEF PrologueInv, LongEnough, AlarmSet, LatencyOf, StateInv, RtcTypeOK, Cnt,
      StateInfo, PmState, Return, StayAwake, Goto, TypeOK, rtcVars, apiVars,
      callVars
<1>3. CASE Decide
  BY <1>3
  DEF PrologueInv, LongEnough, AlarmSet, LatencyOf, StateInv, RtcTypeOK, Cnt,
      StateInfo, PmState, StateFor, StateForUsecs, Info,
      pm_policy_next_state_is_null, pm_policy_state_lock_is_active, Decide,
      Goto, TypeOK, rtcVars, apiVars, callVars
<1>4. CASE SetAlarm
  BY <1>4
  DEF PrologueInv, LongEnough, AlarmSet, LatencyOf, StateInv, RtcTypeOK, Cnt,
      StateInfo, PmState, sys_clock_set_ticks, TrigValue, Sub32, SetAlarm,
      Goto, TypeOK, apiVars, callVars
<1>5. CASE NotifyEntry
  BY <1>5
  DEF PrologueInv, LongEnough, AlarmSet, LatencyOf, StateInv, RtcTypeOK, Cnt,
      StateInfo, PmState, pm_state_notify_entry, NotifyEntry, Goto, TypeOK,
      rtcVars, apiVars, callVars
<1>6. CASE SetPostOps
  BY <1>6
  DEF PrologueInv, LongEnough, AlarmSet, LatencyOf, StateInv, RtcTypeOK, Cnt,
      StateInfo, PmState, SetPostOps, Goto, TypeOK, rtcVars, apiVars, callVars
<1>7. CASE LoadState
  BY <1>7
  DEF PrologueInv, LongEnough, AlarmSet, LatencyOf, StateInv, RtcTypeOK, Cnt,
      StateInfo, PmState, LoadState, Goto, TypeOK, rtcVars, apiVars, callVars
<1>8. CASE pm_state_set
  BY <1>8
  DEF PrologueInv, LongEnough, AlarmSet, LatencyOf, StateInv, RtcTypeOK, Cnt,
      StateInfo, PmState, pm_state_set, Goto, TypeOK, rtcVars, apiVars,
      callVars
<1>9. CASE Wake
  BY <1>9
  DEF PrologueInv, LongEnough, AlarmSet, LatencyOf, StateInv, RtcTypeOK, Cnt,
      StateInfo, PmState, Asleep, Wake, Goto, TypeOK, rtcVars, apiVars,
      callVars
<1>10. CASE SetFinalAlarm
  BY <1>10
  DEF PrologueInv, LongEnough, AlarmSet, LatencyOf, StateInv, RtcTypeOK, Cnt,
      StateInfo, PmState, sys_clock_set_ticks, TrigValue, SetFinalAlarm, Goto,
      TypeOK, apiVars, callVars
<1>11. CASE WaitFinalAlarm
  BY <1>11
  DEF PrologueInv, LongEnough, AlarmSet, LatencyOf, StateInv, RtcTypeOK, Cnt,
      StateInfo, PmState, WaitFinalAlarm, Goto, TypeOK, rtcVars, apiVars,
      callVars
<1>12. CASE NoFinalAlarm
  BY <1>12
  DEF PrologueInv, LongEnough, AlarmSet, LatencyOf, StateInv, RtcTypeOK, Cnt,
      StateInfo, PmState, NoFinalAlarm, Goto, TypeOK, rtcVars, apiVars,
      callVars
<1>13. CASE ResumeDone
  BY <1>13
  DEF PrologueInv, LongEnough, AlarmSet, LatencyOf, StateInv, RtcTypeOK, Cnt,
      StateInfo, PmState, Return, ResumeDone, Goto, TypeOK, rtcVars, apiVars,
      callVars
<1>14. CASE ResumePostOps
  BY <1>14
  DEF PrologueInv, LongEnough, AlarmSet, LatencyOf, StateInv, RtcTypeOK, Cnt,
      StateInfo, PmState, pm_state_exit_post_ops, ResumePostOps, Goto, TypeOK,
      rtcVars, apiVars, callVars
<1>15. CASE ResumeNotifyExit
  BY <1>15
  DEF PrologueInv, LongEnough, AlarmSet, LatencyOf, StateInv, RtcTypeOK, Cnt,
      StateInfo, PmState, pm_state_notify_exit, ResumeNotifyExit, Goto,
      TypeOK, rtcVars, apiVars, callVars
<1>16. CASE ResumeActive
  BY <1>16
  DEF PrologueInv, LongEnough, AlarmSet, LatencyOf, StateInv, RtcTypeOK, Cnt,
      StateInfo, PmState, Return, ActiveInfo, Info, ResumeActive, Goto,
      TypeOK, rtcVars, apiVars, callVars
<1>17. CASE App
  BY <1>17
  DEF PrologueInv, LongEnough, AlarmSet, LatencyOf, StateInv, RtcTypeOK, Cnt,
      StateInfo, PmState, Api, LockGet, LockPut, pm_policy_state_lock_get,
      pm_policy_state_lock_put, pm_notifier_register, pm_notifier_unregister,
      App, Goto, TypeOK, rtcVars, apiVars, callVars
<1>18. CASE RtcIsr
  BY <1>18
  DEF PrologueInv, LongEnough, AlarmSet, LatencyOf, StateInv, RtcTypeOK, Cnt,
      StateInfo, PmState, RTC_IRQHandler, Asleep, RtcIsr, Goto, TypeOK,
      apiVars, callVars
<1>19. CASE AppIsr
  BY <1>19
  DEF PrologueInv, LongEnough, AlarmSet, LatencyOf, StateInv, RtcTypeOK, Cnt,
      StateInfo, PmState, ServeIrq, Asleep, Api, LockGet, LockPut,
      pm_policy_state_lock_get, pm_policy_state_lock_put,
      pm_notifier_register, pm_notifier_unregister, AppIsr, Goto, TypeOK,
      rtcVars, apiVars, callVars
<1>20. CASE ResumeIsr
  BY <1>20
  DEF PrologueInv, LongEnough, AlarmSet, LatencyOf, StateInv, RtcTypeOK, Cnt,
      StateInfo, PmState, ServeIrq, Asleep, pm_state_exit_post_ops,
      pm_state_notify_exit, ActiveInfo, Info, ResumeIsr, Goto, TypeOK,
      rtcVars, apiVars, callVars
<1>21. CASE Tick
  BY <1>21
  DEF PrologueInv, LongEnough, AlarmSet, LatencyOf, StateInv, RtcTypeOK, Cnt,
      StateInfo, PmState, RtcTick, NextCnt, Asleep, Requested, InCall, Tick,
      Goto, TypeOK, apiVars, callVars
<1>22. CASE RaiseIrq
  BY <1>22
  DEF PrologueInv, LongEnough, AlarmSet, LatencyOf, StateInv, RtcTypeOK, Cnt,
      StateInfo, PmState, RaiseIrq, Goto, TypeOK, rtcVars, apiVars, callVars
<1>23. CASE UNCHANGED vars
  BY <1>23
  DEF PrologueInv, LongEnough, AlarmSet, LatencyOf, StateInv, RtcTypeOK, Cnt,
      StateInfo, PmState, vars, Goto, TypeOK, rtcVars, apiVars, callVars
<1> QED
  BY <1>1, <1>2, <1>3, <1>4, <1>5, <1>6, <1>7, <1>8, <1>9, <1>10, <1>11,
     <1>12, <1>13, <1>14, <1>15, <1>16, <1>17, <1>18, <1>19, <1>20, <1>21,
     <1>22, <1>23
  DEF Next, Caller, Isr

\* The heart of NoOversleep: a tick while asleep brings the counter closer to
\* an alarm that is ahead, and the tick that reaches it requests the
\* interrupt.
LEMMA SleepInvStep == IInv /\ [Next]_vars => SleepInv'
<1> SUFFICES ASSUME IInv, [Next]_vars PROVE SleepInv'
  OBVIOUS
<1> /\ TypeOK /\ TypeOK' /\ ClockInv /\ StateInv /\ PrologueInv /\ SleepInv
    /\ NotifyInv /\ LockInv /\ ResumeInv
  BY TypeStep DEF IInv
<1> USE RtcAssumption, PolicyAssumption, PmAssumption, PrologueAssumption
<1>1. CASE \E t \in Cnt, i \in CallerIrqs : Suspend(t, i)
  BY <1>1
  DEF SleepInv, LatencyOf, StateInv, PrologueInv, LongEnough, AlarmSet,
      ClockInv, InCall, RtcTypeOK, Cnt, PmState, Suspend, SleepTicks, Goto,
      TypeOK, rtcVars, apiVars, callVars
<1>2. CASE StayAwake
  BY <1>2
  DEF SleepInv, LatencyOf, StateInv, PrologueInv, LongEnough, AlarmSet,
      ClockInv, InCall, RtcTypeOK, Cnt, PmState, Return, StayAwake, Goto,
      TypeOK, rtcVars, apiVars, callVars
<1>3. CASE Decide
  BY <1>3
  DEF SleepInv, LatencyOf, StateInv, PrologueInv, LongEnough, AlarmSet,
      ClockInv, InCall, RtcTypeOK, Cnt, PmState, StateFor, StateForUsecs,
      Info, pm_policy_next_state_is_null, pm_policy_state_lock_is_active,
      Decide, Goto, TypeOK, rtcVars, apiVars, callVars
<1>4. CASE SetAlarm
  BY <1>4
  DEF SleepInv, LatencyOf, StateInv, PrologueInv, LongEnough, AlarmSet,
      ClockInv, InCall, RtcTypeOK, Cnt, PmState, sys_clock_set_ticks,
      TrigValue, Sub32, SetAlarm, Goto, TypeOK, apiVars, callVars
<1>5. CASE NotifyEntry
  BY <1>5
  DEF SleepInv, LatencyOf, StateInv, PrologueInv, LongEnough, AlarmSet,
      ClockInv, InCall, RtcTypeOK, Cnt, PmState, pm_state_notify_entry,
      NotifyEntry, Goto, TypeOK, rtcVars, apiVars, callVars
<1>6. CASE SetPostOps
  BY <1>6
  DEF SleepInv, LatencyOf, StateInv, PrologueInv, LongEnough, AlarmSet,
      ClockInv, InCall, RtcTypeOK, Cnt, PmState, SetPostOps, Goto, TypeOK,
      rtcVars, apiVars, callVars
<1>7. CASE LoadState
  BY <1>7
  DEF SleepInv, LatencyOf, StateInv, PrologueInv, LongEnough, AlarmSet,
      ClockInv, InCall, RtcTypeOK, Cnt, PmState, LoadState, Goto, TypeOK,
      rtcVars, apiVars, callVars
<1>8. CASE pm_state_set
  BY <1>8
  DEF SleepInv, LatencyOf, StateInv, PrologueInv, LongEnough, AlarmSet,
      ClockInv, InCall, RtcTypeOK, Cnt, PmState, pm_state_set, Goto, TypeOK,
      rtcVars, apiVars, callVars
<1>9. CASE Wake
  BY <1>9
  DEF SleepInv, LatencyOf, StateInv, PrologueInv, LongEnough, AlarmSet,
      ClockInv, InCall, RtcTypeOK, Cnt, PmState, Asleep, Wake, Goto, TypeOK,
      rtcVars, apiVars, callVars
<1>10. CASE SetFinalAlarm
  BY <1>10
  DEF SleepInv, LatencyOf, StateInv, PrologueInv, LongEnough, AlarmSet,
      ClockInv, InCall, RtcTypeOK, Cnt, PmState, sys_clock_set_ticks,
      TrigValue, SetFinalAlarm, Goto, TypeOK, apiVars, callVars
<1>11. CASE WaitFinalAlarm
  BY <1>11
  DEF SleepInv, LatencyOf, StateInv, PrologueInv, LongEnough, AlarmSet,
      ClockInv, InCall, RtcTypeOK, Cnt, PmState, WaitFinalAlarm, Goto, TypeOK,
      rtcVars, apiVars, callVars
<1>12. CASE NoFinalAlarm
  BY <1>12
  DEF SleepInv, LatencyOf, StateInv, PrologueInv, LongEnough, AlarmSet,
      ClockInv, InCall, RtcTypeOK, Cnt, PmState, NoFinalAlarm, Goto, TypeOK,
      rtcVars, apiVars, callVars
<1>13. CASE ResumeDone
  BY <1>13
  DEF SleepInv, LatencyOf, StateInv, PrologueInv, LongEnough, AlarmSet,
      ClockInv, InCall, RtcTypeOK, Cnt, PmState, Return, ResumeDone, Goto,
      TypeOK, rtcVars, apiVars, callVars
<1>14. CASE ResumePostOps
  BY <1>14
  DEF SleepInv, LatencyOf, StateInv, PrologueInv, LongEnough, AlarmSet,
      ClockInv, InCall, RtcTypeOK, Cnt, PmState, pm_state_exit_post_ops,
      ResumePostOps, Goto, TypeOK, rtcVars, apiVars, callVars
<1>15. CASE ResumeNotifyExit
  BY <1>15
  DEF SleepInv, LatencyOf, StateInv, PrologueInv, LongEnough, AlarmSet,
      ClockInv, InCall, RtcTypeOK, Cnt, PmState, pm_state_notify_exit,
      ResumeNotifyExit, Goto, TypeOK, rtcVars, apiVars, callVars
<1>16. CASE ResumeActive
  BY <1>16
  DEF SleepInv, LatencyOf, StateInv, PrologueInv, LongEnough, AlarmSet,
      ClockInv, InCall, RtcTypeOK, Cnt, PmState, Return, ActiveInfo, Info,
      ResumeActive, Goto, TypeOK, rtcVars, apiVars, callVars
<1>17. CASE App
  BY <1>17
  DEF SleepInv, LatencyOf, StateInv, PrologueInv, LongEnough, AlarmSet,
      ClockInv, InCall, RtcTypeOK, Cnt, PmState, Api, LockGet, LockPut,
      pm_policy_state_lock_get, pm_policy_state_lock_put,
      pm_notifier_register, pm_notifier_unregister, App, Goto, TypeOK,
      rtcVars, apiVars, callVars
<1>18. CASE RtcIsr
  BY <1>18
  DEF SleepInv, LatencyOf, StateInv, PrologueInv, LongEnough, AlarmSet,
      ClockInv, InCall, RtcTypeOK, Cnt, PmState, RTC_IRQHandler, Asleep,
      RtcIsr, Goto, TypeOK, apiVars, callVars
<1>19. CASE AppIsr
  BY <1>19
  DEF SleepInv, LatencyOf, StateInv, PrologueInv, LongEnough, AlarmSet,
      ClockInv, InCall, RtcTypeOK, Cnt, PmState, ServeIrq, Asleep, Api,
      LockGet, LockPut, pm_policy_state_lock_get, pm_policy_state_lock_put,
      pm_notifier_register, pm_notifier_unregister, AppIsr, Goto, TypeOK,
      rtcVars, apiVars, callVars
<1>20. CASE ResumeIsr
  BY <1>20
  DEF SleepInv, LatencyOf, StateInv, PrologueInv, LongEnough, AlarmSet,
      ClockInv, InCall, RtcTypeOK, Cnt, PmState, ServeIrq, Asleep,
      pm_state_exit_post_ops, pm_state_notify_exit, ActiveInfo, Info,
      ResumeIsr, Goto, TypeOK, rtcVars, apiVars, callVars
<1>21. CASE Tick
  <2> USE DEF TypeOK, RtcTypeOK, Cnt
  <2>1. /\ cnt' = IF cnt + 1 = Day THEN 0 ELSE cnt + 1
        /\ UNCHANGED <<trig, ticks, want, cpu_state, pc, z_pm_state>>
    BY <1>21 DEF Tick, RtcTick, NextCnt
  <2>a. cnt' = trig => pending'
    BY <1>21, Zenon DEF Tick, RtcTick
  <2>2. CASE pc = "wfi"
    <3>1. ~pending /\ elapsed' = elapsed + 1
      BY <1>21, <2>2 DEF Tick, Asleep, Requested, InCall
    <3>2. SUFFICES ASSUME ticks >= LatencyOf(cpu_state)
                   PROVE  /\ elapsed' + LatencyOf(cpu_state) <= want
                          /\ elapsed' + LatencyOf(cpu_state) = want => pending'
      BY <2>1, <2>2 DEF SleepInv, LatencyOf
    <3>3. LatencyOf(cpu_state) \in Nat
      BY DEF LatencyOf
    <3>4. elapsed + LatencyOf(cpu_state) < want
      BY <2>2, <3>1, <3>2, <3>3 DEF SleepInv
    <3>5. trig = ticks - LatencyOf(cpu_state)
      BY <2>2, <3>2 DEF PrologueInv, AlarmSet, StateInv
    <3>6. \/ cnt + (want - elapsed) = ticks
          \/ cnt + (want - elapsed) = ticks + Day
      BY <2>2, <3>3, <3>4 DEF ClockInv, InCall
    <3>7. ASSUME elapsed' + LatencyOf(cpu_state) = want PROVE cnt' = trig
      BY <2>1, <3>1, <3>2, <3>3, <3>5, <3>6, <3>7
    <3> QED
      BY <2>a, <3>1, <3>3, <3>4, <3>7
  <2>3. CASE pc = "wfi2"
    <3>1. ~pending /\ elapsed' = elapsed + 1
      BY <1>21, <2>3 DEF Tick, Asleep, Requested, InCall
    <3>2. SUFFICES ASSUME ticks >= Latency
                   PROVE  /\ elapsed' <= want
                          /\ elapsed' = want => pending'
      BY <2>1, <2>3 DEF SleepInv
    <3>3. elapsed < want /\ trig = ticks
      BY <2>3, <3>1, <3>2 DEF SleepInv
    <3>4. \/ cnt + (want - elapsed) = ticks
          \/ cnt + (want - elapsed) = ticks + Day
      BY <2>3, <3>3 DEF ClockInv, InCall
    <3>5. ASSUME elapsed' = want PROVE cnt' = trig
      BY <2>1, <3>1, <3>3, <3>4, <3>5
    <3> QED
      BY <2>a, <3>1, <3>3, <3>5
  <2>4. CASE pc \notin {"wfi", "wfi2"}
    <3>1. pc \in {"branch", "wait"} => elapsed' = elapsed + 1 /\ busy' = busy + 1
      BY <1>21, <2>4 DEF Tick, Asleep, InCall
    <3>2. CASE pc \in {"branch", "wait"}
      <4>1. elapsed' = elapsed + 1 /\ busy' = busy + 1 /\ elapsed \in Int /\ busy \in Int
            /\ want \in Int /\ Latency \in Int
        BY <3>1, <3>2
      <4>2. elapsed + Latency <= want + busy => elapsed' + Latency <= want + busy'
        BY <4>1
      <4> QED
        BY <2>1, <2>4, <3>2, <4>2 DEF SleepInv
    <3>3. CASE pc \notin {"branch", "wait"}
      BY <2>1, <2>4, <3>3 DEF SleepInv
    <3> QED
      BY <3>2, <3>3
  <2> QED
    BY <2>2, <2>3, <2>4
<1>22. CASE RaiseIrq
  BY <1>22
  DEF SleepInv, LatencyOf, StateInv, PrologueInv, LongEnough, AlarmSet,
      ClockInv, InCall, RtcTypeOK, Cnt, PmState, RaiseIrq, Goto, TypeOK,
      rtcVars, apiVars, callVars
<1>23. CASE UNCHANGED vars
  BY <1>23
  DEF SleepInv, LatencyOf, StateInv, PrologueInv, LongEnough, AlarmSet,
      ClockInv, InCall, RtcTypeOK, Cnt, PmState, vars, Goto, TypeOK, rtcVars,
      apiVars, callVars
<1> QED
  BY <1>1, <1>2, <1>3, <1>4, <1>5, <1>6, <1>7, <1>8, <1>9, <1>10, <1>11,
     <1>12, <1>13, <1>14, <1>15, <1>16, <1>17, <1>18, <1>19, <1>20, <1>21,
     <1>22, <1>23
  DEF Next, Caller, Isr

\* Who has been told of the entry is still to be told of the exit.
LEMMA NotifyInvStep == IInv /\ [Next]_vars => NotifyInv'
<1> SUFFICES ASSUME IInv, [Next]_vars PROVE NotifyInv'
  OBVIOUS
<1> /\ TypeOK /\ TypeOK' /\ ClockInv /\ StateInv /\ PrologueInv /\ SleepInv
    /\ NotifyInv /\ LockInv /\ ResumeInv
  BY TypeStep DEF IInv
<1> USE RtcAssumption, PolicyAssumption, PmAssumption, PrologueAssumption
<1>1. CASE \E t \in Cnt, i \in CallerIrqs : Suspend(t, i)
  BY <1>1
  DEF NotifyInv, StateInv, PmState, StateInfo, ActiveInfo, Info, Suspend,
      SleepTicks, Goto, TypeOK, rtcVars, apiVars, callVars
<1>2. CASE StayAwake
  BY <1>2
  DEF NotifyInv, StateInv, PmState, StateInfo, ActiveInfo, Info, Return,
      StayAwake, Goto, TypeOK, rtcVars, apiVars, callVars
<1>3. CASE Decide
  BY <1>3
  DEF NotifyInv, StateInv, PmState, StateInfo, ActiveInfo, Info, StateFor,
      StateForUsecs, pm_policy_next_state_is_null,
      pm_policy_state_lock_is_active, Decide, Goto, TypeOK, rtcVars, apiVars,
      callVars
<1>4. CASE SetAlarm
  BY <1>4
  DEF NotifyInv, StateInv, PmState, StateInfo, ActiveInfo, Info,
      sys_clock_set_ticks, TrigValue, Sub32, SetAlarm, Goto, TypeOK, apiVars,
      callVars
<1>5. CASE NotifyEntry
  BY <1>5
  DEF NotifyInv, StateInv, PmState, StateInfo, ActiveInfo, Info,
      pm_state_notify_entry, NotifyEntry, Goto, TypeOK, rtcVars, apiVars,
      callVars
<1>6. CASE SetPostOps
  BY <1>6
  DEF NotifyInv, StateInv, PmState, StateInfo, ActiveInfo, Info, SetPostOps,
      Goto, TypeOK, rtcVars, apiVars, callVars
<1>7. CASE LoadState
  BY <1>7
  DEF NotifyInv, StateInv, PmState, StateInfo, ActiveInfo, Info, LoadState,
      Goto, TypeOK, rtcVars, apiVars, callVars
<1>8. CASE pm_state_set
  BY <1>8
  DEF NotifyInv, StateInv, PmState, StateInfo, ActiveInfo, Info, pm_state_set,
      Goto, TypeOK, rtcVars, apiVars, callVars
<1>9. CASE Wake
  BY <1>9
  DEF NotifyInv, StateInv, PmState, StateInfo, ActiveInfo, Info, Asleep, Wake,
      Goto, TypeOK, rtcVars, apiVars, callVars
<1>10. CASE SetFinalAlarm
  BY <1>10
  DEF NotifyInv, StateInv, PmState, StateInfo, ActiveInfo, Info,
      sys_clock_set_ticks, TrigValue, SetFinalAlarm, Goto, TypeOK, apiVars,
      callVars
<1>11. CASE WaitFinalAlarm
  BY <1>11
  DEF NotifyInv, StateInv, PmState, StateInfo, ActiveInfo, Info,
      WaitFinalAlarm, Goto, TypeOK, rtcVars, apiVars, callVars
<1>12. CASE NoFinalAlarm
  BY <1>12
  DEF NotifyInv, StateInv, PmState, StateInfo, ActiveInfo, Info, NoFinalAlarm,
      Goto, TypeOK, rtcVars, apiVars, callVars
<1>13. CASE ResumeDone
  BY <1>13
  DEF NotifyInv, StateInv, PmState, StateInfo, ActiveInfo, Info, Return,
      ResumeDone, Goto, TypeOK, rtcVars, apiVars, callVars
<1>14. CASE ResumePostOps
  BY <1>14
  DEF NotifyInv, StateInv, PmState, StateInfo, ActiveInfo, Info,
      pm_state_exit_post_ops, ResumePostOps, Goto, TypeOK, rtcVars, apiVars,
      callVars
<1>15. CASE ResumeNotifyExit
  BY <1>15
  DEF NotifyInv, StateInv, PmState, StateInfo, ActiveInfo, Info,
      pm_state_notify_exit, ResumeNotifyExit, Goto, TypeOK, rtcVars, apiVars,
      callVars
<1>16. CASE ResumeActive
  BY <1>16
  DEF NotifyInv, StateInv, PmState, StateInfo, ActiveInfo, Info, Return,
      ResumeActive, Goto, TypeOK, rtcVars, apiVars, callVars
<1>17. CASE App
  BY <1>17
  DEF NotifyInv, StateInv, PmState, StateInfo, ActiveInfo, Info, Api, LockGet,
      LockPut, pm_policy_state_lock_get, pm_policy_state_lock_put,
      pm_notifier_register, pm_notifier_unregister, App, Goto, TypeOK,
      rtcVars, apiVars, callVars
<1>18. CASE RtcIsr
  BY <1>18
  DEF NotifyInv, StateInv, PmState, StateInfo, ActiveInfo, Info,
      RTC_IRQHandler, Asleep, RtcIsr, Goto, TypeOK, apiVars, callVars
<1>19. CASE AppIsr
  BY <1>19
  DEF NotifyInv, StateInv, PmState, StateInfo, ActiveInfo, Info, ServeIrq,
      Asleep, Api, LockGet, LockPut, pm_policy_state_lock_get,
      pm_policy_state_lock_put, pm_notifier_register, pm_notifier_unregister,
      AppIsr, Goto, TypeOK, rtcVars, apiVars, callVars
<1>20. CASE ResumeIsr
  BY <1>20
  DEF NotifyInv, StateInv, PmState, StateInfo, ActiveInfo, Info, ServeIrq,
      Asleep, pm_state_exit_post_ops, pm_state_notify_exit, ResumeIsr, Goto,
      TypeOK, rtcVars, apiVars, callVars
<1>21. CASE Tick
  BY <1>21
  DEF NotifyInv, StateInv, PmState, StateInfo, ActiveInfo, Info, RtcTick,
      NextCnt, Asleep, Requested, InCall, Tick, Goto, TypeOK, apiVars,
      callVars
<1>22. CASE RaiseIrq
  BY <1>22
  DEF NotifyInv, StateInv, PmState, StateInfo, ActiveInfo, Info, RaiseIrq,
      Goto, TypeOK, rtcVars, apiVars, callVars
<1>23. CASE UNCHANGED vars
  BY <1>23
  DEF NotifyInv, StateInv, PmState, StateInfo, ActiveInfo, Info, vars, Goto,
      TypeOK, rtcVars, apiVars, callVars
<1> QED
  BY <1>1, <1>2, <1>3, <1>4, <1>5, <1>6, <1>7, <1>8, <1>9, <1>10, <1>11,
     <1>12, <1>13, <1>14, <1>15, <1>16, <1>17, <1>18, <1>19, <1>20, <1>21,
     <1>22, <1>23
  DEF Next, Caller, Isr

\* What has been locked since the call started is not entered.
LEMMA LockInvStep == IInv /\ [Next]_vars => LockInv'
<1> SUFFICES ASSUME IInv, [Next]_vars PROVE LockInv'
  OBVIOUS
<1> /\ TypeOK /\ TypeOK' /\ ClockInv /\ StateInv /\ PrologueInv /\ SleepInv
    /\ NotifyInv /\ LockInv /\ ResumeInv
  BY TypeStep DEF IInv
<1> USE RtcAssumption, PolicyAssumption, PmAssumption, PrologueAssumption
<1>1. CASE \E t \in Cnt, i \in CallerIrqs : Suspend(t, i)
  BY <1>1
  DEF LockInv, StateInv, PolicyTypeOK, PmState, Suspend, SleepTicks, Goto,
      TypeOK, rtcVars, apiVars, callVars
<1>2. CASE StayAwake
  BY <1>2
  DEF LockInv, StateInv, PolicyTypeOK, PmState, Return, StayAwake, Goto,
      TypeOK, rtcVars, apiVars, callVars
<1>3. CASE Decide
  BY <1>3
  DEF LockInv, StateInv, PolicyTypeOK, PmState, StateFor, StateForUsecs, Info,
      pm_policy_next_state_is_null, pm_policy_state_lock_is_active, Decide,
      Goto, TypeOK, rtcVars, apiVars, callVars
<1>4. CASE SetAlarm
  BY <1>4
  DEF LockInv, StateInv, PolicyTypeOK, PmState, sys_clock_set_ticks,
      TrigValue, Sub32, SetAlarm, Goto, TypeOK, apiVars, callVars
<1>5. CASE NotifyEntry
  BY <1>5
  DEF LockInv, StateInv, PolicyTypeOK, PmState, pm_state_notify_entry,
      NotifyEntry, Goto, TypeOK, rtcVars, apiVars, callVars
<1>6. CASE SetPostOps
  BY <1>6
  DEF LockInv, StateInv, PolicyTypeOK, PmState, SetPostOps, Goto, TypeOK,
      rtcVars, apiVars, callVars
<1>7. CASE LoadState
  BY <1>7
  DEF LockInv, StateInv, PolicyTypeOK, PmState, LoadState, Goto, TypeOK,
      rtcVars, apiVars, callVars
<1>8. CASE pm_state_set
  BY <1>8
  DEF LockInv, StateInv, PolicyTypeOK, PmState, pm_state_set, Goto, TypeOK,
      rtcVars, apiVars, callVars
<1>9. CASE Wake
  BY <1>9
  DEF LockInv, StateInv, PolicyTypeOK, PmState, Asleep, Wake, Goto, TypeOK,
      rtcVars, apiVars, callVars
<1>10. CASE SetFinalAlarm
  BY <1>10
  DEF LockInv, StateInv, PolicyTypeOK, PmState, sys_clock_set_ticks,
      TrigValue, SetFinalAlarm, Goto, TypeOK, apiVars, callVars
<1>11. CASE WaitFinalAlarm
  BY <1>11
  DEF LockInv, StateInv, PolicyTypeOK, PmState, WaitFinalAlarm, Goto, TypeOK,
      rtcVars, apiVars, callVars
<1>12. CASE NoFinalAlarm
  BY <1>12
  DEF LockInv, StateInv, PolicyTypeOK, PmState, NoFinalAlarm, Goto, TypeOK,
      rtcVars, apiVars, callVars
<1>13. CASE ResumeDone
  BY <1>13
  DEF LockInv, StateInv, PolicyTypeOK, PmState, Return, ResumeDone, Goto,
      TypeOK, rtcVars, apiVars, callVars
<1>14. CASE ResumePostOps
  BY <1>14
  DEF LockInv, StateInv, PolicyTypeOK, PmState, pm_state_exit_post_ops,
      ResumePostOps, Goto, TypeOK, rtcVars, apiVars, callVars
<1>15. CASE ResumeNotifyExit
  BY <1>15
  DEF LockInv, StateInv, PolicyTypeOK, PmState, pm_state_notify_exit,
      ResumeNotifyExit, Goto, TypeOK, rtcVars, apiVars, callVars
<1>16. CASE ResumeActive
  BY <1>16
  DEF LockInv, StateInv, PolicyTypeOK, PmState, Return, ActiveInfo, Info,
      ResumeActive, Goto, TypeOK, rtcVars, apiVars, callVars
<1>17. CASE App
  BY <1>17
  DEF LockInv, StateInv, PolicyTypeOK, PmState, Api, LockGet, LockPut,
      pm_policy_state_lock_get, pm_policy_state_lock_put,
      pm_notifier_register, pm_notifier_unregister, App, Goto, TypeOK,
      rtcVars, apiVars, callVars
<1>18. CASE RtcIsr
  BY <1>18
  DEF LockInv, StateInv, PolicyTypeOK, PmState, RTC_IRQHandler, Asleep,
      RtcIsr, Goto, TypeOK, apiVars, callVars
<1>19. CASE AppIsr
  BY <1>19
  DEF LockInv, StateInv, PolicyTypeOK, PmState, ServeIrq, Asleep, Api,
      LockGet, LockPut, pm_policy_state_lock_get, pm_policy_state_lock_put,
      pm_notifier_register, pm_notifier_unregister, AppIsr, Goto, TypeOK,
      rtcVars, apiVars, callVars
<1>20. CASE ResumeIsr
  BY <1>20
  DEF LockInv, StateInv, PolicyTypeOK, PmState, ServeIrq, Asleep,
      pm_state_exit_post_ops, pm_state_notify_exit, ActiveInfo, Info,
      ResumeIsr, Goto, TypeOK, rtcVars, apiVars, callVars
<1>21. CASE Tick
  BY <1>21
  DEF LockInv, StateInv, PolicyTypeOK, PmState, RtcTick, NextCnt, Asleep,
      Requested, InCall, Tick, Goto, TypeOK, apiVars, callVars
<1>22. CASE RaiseIrq
  BY <1>22
  DEF LockInv, StateInv, PolicyTypeOK, PmState, RaiseIrq, Goto, TypeOK,
      rtcVars, apiVars, callVars
<1>23. CASE UNCHANGED vars
  BY <1>23
  DEF LockInv, StateInv, PolicyTypeOK, PmState, vars, Goto, TypeOK, rtcVars,
      apiVars, callVars
<1> QED
  BY <1>1, <1>2, <1>3, <1>4, <1>5, <1>6, <1>7, <1>8, <1>9, <1>10, <1>11,
     <1>12, <1>13, <1>14, <1>15, <1>16, <1>17, <1>18, <1>19, <1>20, <1>21,
     <1>22, <1>23
  DEF Next, Caller, Isr

\* Without a resuming handler, the caller resumes what it entered.
LEMMA ResumeInvStep == IInv /\ [Next]_vars => ResumeInv'
<1> SUFFICES ASSUME IInv, [Next]_vars PROVE ResumeInv'
  OBVIOUS
<1> /\ TypeOK /\ TypeOK' /\ ClockInv /\ StateInv /\ PrologueInv /\ SleepInv
    /\ NotifyInv /\ LockInv /\ ResumeInv
  BY TypeStep DEF IInv
<1> USE RtcAssumption, PolicyAssumption, PmAssumption, PrologueAssumption
<1>1. CASE \E t \in Cnt, i \in CallerIrqs : Suspend(t, i)
  BY <1>1
  DEF ResumeInv, StateInv, ActiveInfo, Info, StateInfo, PmState, Suspend,
      SleepTicks, Goto, TypeOK, rtcVars, apiVars, callVars
<1>2. CASE StayAwake
  BY <1>2
  DEF ResumeInv, StateInv, ActiveInfo, Info, StateInfo, PmState, Return,
      StayAwake, Goto, TypeOK, rtcVars, apiVars, callVars
<1>3. CASE Decide
  BY <1>3
  DEF ResumeInv, StateInv, ActiveInfo, Info, StateInfo, PmState, StateFor,
      StateForUsecs, pm_policy_next_state_is_null,
      pm_policy_state_lock_is_active, Decide, Goto, TypeOK, rtcVars, apiVars,
      callVars
<1>4. CASE SetAlarm
  BY <1>4
  DEF ResumeInv, StateInv, ActiveInfo, Info, StateInfo, PmState,
      sys_clock_set_ticks, TrigValue, Sub32, SetAlarm, Goto, TypeOK, apiVars,
      callVars
<1>5. CASE NotifyEntry
  BY <1>5
  DEF ResumeInv, StateInv, ActiveInfo, Info, StateInfo, PmState,
      pm_state_notify_entry, NotifyEntry, Goto, TypeOK, rtcVars, apiVars,
      callVars
<1>6. CASE SetPostOps
  BY <1>6
  DEF ResumeInv, StateInv, ActiveInfo, Info, StateInfo, PmState, SetPostOps,
      Goto, TypeOK, rtcVars, apiVars, callVars
<1>7. CASE LoadState
  BY <1>7
  DEF ResumeInv, StateInv, ActiveInfo, Info, StateInfo, PmState, LoadState,
      Goto, TypeOK, rtcVars, apiVars, callVars
<1>8. CASE pm_state_set
  BY <1>8
  DEF ResumeInv, StateInv, ActiveInfo, Info, StateInfo, PmState, pm_state_set,
      Goto, TypeOK, rtcVars, apiVars, callVars
<1>9. CASE Wake
  BY <1>9
  DEF ResumeInv, StateInv, ActiveInfo, Info, StateInfo, PmState, Asleep, Wake,
      Goto, TypeOK, rtcVars, apiVars, callVars
<1>10. CASE SetFinalAlarm
  BY <1>10
  DEF ResumeInv, StateInv, ActiveInfo, Info, StateInfo, PmState,
      sys_clock_set_ticks, TrigValue, SetFinalAlarm, Goto, TypeOK, apiVars,
      callVars
<1>11. CASE WaitFinalAlarm
  BY <1>11
  DEF ResumeInv, StateInv, ActiveInfo, Info, StateInfo, PmState,
      WaitFinalAlarm, Goto, TypeOK, rtcVars, apiVars, callVars
<1>12. CASE NoFinalAlarm
  BY <1>12
  DEF ResumeInv, StateInv, ActiveInfo, Info, StateInfo, PmState, NoFinalAlarm,
      Goto, TypeOK, rtcVars, apiVars, callVars
<1>13. CASE ResumeDone
  BY <1>13
  DEF ResumeInv, StateInv, ActiveInfo, Info, StateInfo, PmState, Return,
      ResumeDone, Goto, TypeOK, rtcVars, apiVars, callVars
<1>14. CASE ResumePostOps
  BY <1>14
  DEF ResumeInv, StateInv, ActiveInfo, Info, StateInfo, PmState,
      pm_state_exit_post_ops, ResumePostOps, Goto, TypeOK, rtcVars, apiVars,
      callVars
<1>15. CASE ResumeNotifyExit
  BY <1>15
  DEF ResumeInv, StateInv, ActiveInfo, Info, StateInfo, PmState,
      pm_state_notify_exit, ResumeNotifyExit, Goto, TypeOK, rtcVars, apiVars,
      callVars
<1>16. CASE ResumeActive
  BY <1>16
  DEF ResumeInv, StateInv, ActiveInfo, Info, StateInfo, PmState, Return,
      ResumeActive, Goto, TypeOK, rtcVars, apiVars, callVars
<1>17. CASE App
  BY <1>17
  DEF ResumeInv, StateInv, ActiveInfo, Info, StateInfo, PmState, Api, LockGet,
      LockPut, pm_policy_state_lock_get, pm_policy_state_lock_put,
      pm_notifier_register, pm_notifier_unregister, App, Goto, TypeOK,
      rtcVars, apiVars, callVars
<1>18. CASE RtcIsr
  BY <1>18
  DEF ResumeInv, StateInv, ActiveInfo, Info, StateInfo, PmState,
      RTC_IRQHandler, Asleep, RtcIsr, Goto, TypeOK, apiVars, callVars
<1>19. CASE AppIsr
  BY <1>19
  DEF ResumeInv, StateInv, ActiveInfo, Info, StateInfo, PmState, ServeIrq,
      Asleep, Api, LockGet, LockPut, pm_policy_state_lock_get,
      pm_policy_state_lock_put, pm_notifier_register, pm_notifier_unregister,
      AppIsr, Goto, TypeOK, rtcVars, apiVars, callVars
<1>20. CASE ResumeIsr
  BY <1>20
  DEF ResumeInv, StateInv, ActiveInfo, Info, StateInfo, PmState, ServeIrq,
      Asleep, pm_state_exit_post_ops, pm_state_notify_exit, ResumeIsr, Goto,
      TypeOK, rtcVars, apiVars, callVars
<1>21. CASE Tick
  BY <1>21
  DEF ResumeInv, StateInv, ActiveInfo, Info, StateInfo, PmState, RtcTick,
      NextCnt, Asleep, Requested, InCall, Tick, Goto, TypeOK, apiVars,
      callVars
<1>22. CASE RaiseIrq
  BY <1>22
  DEF ResumeInv, StateInv, ActiveInfo, Info, StateInfo, PmState, RaiseIrq,
      Goto, TypeOK, rtcVars, apiVars, callVars
<1>23. CASE UNCHANGED vars
  BY <1>23
  DEF ResumeInv, StateInv, ActiveInfo, Info, StateInfo, PmState, vars, Goto,
      TypeOK, rtcVars, apiVars, callVars
<1> QED
  BY <1>1, <1>2, <1>3, <1>4, <1>5, <1>6, <1>7, <1>8, <1>9, <1>10, <1>11,
     <1>12, <1>13, <1>14, <1>15, <1>16, <1>17, <1>18, <1>19, <1>20, <1>21,
     <1>22, <1>23
  DEF Next, Caller, Isr

-----------------------------------------------------------------------------
(***************************************************************************)
(* Type correctness of the PM state (pm.c, policy.c, rtc_timer.c).         *)
(***************************************************************************)
THEOREM TypeCorrect == Spec => []TypeOK
  BY TypeInit, TypeStep, PTL DEF Spec

(***************************************************************************)
(* The inductive invariant holds in every state of every behaviour.        *)
(***************************************************************************)
THEOREM Invariance == Spec => []IInv
<1>1. Init => IInv
  <2> SUFFICES ASSUME Init PROVE IInv
    OBVIOUS
  <2>1. TypeOK
    BY TypeInit
  <2>2. ClockInv /\ StateInv /\ PrologueInv /\ SleepInv
    BY DEF Init, ClockInv, InCall, StateInv, ActiveInfo, Info, LatencyOf,
           PrologueInv, SleepInv
  <2>3. NotifyInv /\ LockInv /\ ResumeInv
    BY PmAssumption DEF Init, NotifyInv, LockInv, ResumeInv
  <2> QED
    BY <2>1, <2>2, <2>3 DEF IInv
<1>2. IInv /\ [Next]_vars => IInv'
  BY TypeStep, ClockInvStep, StateInvStep, PrologueInvStep, SleepInvStep,
     NotifyInvStep, LockInvStep, ResumeInvStep
  DEF IInv
<1> QED
  BY <1>1, <1>2, PTL DEF Spec

(***************************************************************************)
(* No WFI of pm_system_suspend outlasts the request (pm.c:81-122), for     *)
(* every day length, latency, residency and execution time that satisfy    *)
(* PrologueAssumption.                                                     *)
(***************************************************************************)
THEOREM SleepInTime == Spec => []NoOversleep
<1>1. IInv => NoOversleep
  <2> SUFFICES ASSUME IInv, Asleep,
                      cpu_state = SUSPEND_TO_RAM => ticks >= Latency
               PROVE  elapsed <= want
    BY DEF NoOversleep
  <2> USE RtcAssumption, PolicyAssumption DEF IInv, TypeOK, RtcTypeOK, Cnt
  <2>1. CASE pc = "wfi"
    BY <2>1 DEF SleepInv, LatencyOf
  <2>2. CASE pc = "wfi2"
    BY <2>2 DEF SleepInv, StateInv
  <2> QED
    BY <2>1, <2>2 DEF Asleep
<1> QED
  BY <1>1, Invariance, PTL

(***************************************************************************)
(* A notifier told of an entry is told of the matching exit before         *)
(* pm_system_suspend has returned (pm.c:38-78), also when a wake-up        *)
(* handler calls pm_system_resume first.                                   *)
(***************************************************************************)
THEOREM NotifiersPaired == Spec => []NotifierPaired
<1>1. IInv => NotifierPaired
  BY DEF IInv, NotifyInv, NotifierPaired
<1> QED
  BY <1>1, Invariance, PTL

(***************************************************************************)
(* The policy's lock check (policy.c:47) is not undone by handlers that    *)
(* take and release locks before the first pm_state_set of the call: the   *)
(* state chosen is not one that is locked throughout.  (Nothing of the     *)
(* kind holds of the second wait, pm.c:114.)                               *)
(***************************************************************************)
THEOREM ChosenStateNotLocked == Spec => []ChosenNotLocked
<1>1. IInv => ChosenNotLocked
  BY DEF IInv, LockInv, StateInv, ChosenNotLocked
<1> QED
  BY <1>1, Invariance, PTL

(***************************************************************************)
(* pm_system_suspend leaves the power state, the pending post operations   *)
(* and the crystal's current as it found them (pm.c:58-78).                *)
(***************************************************************************)
THEOREM ReturnsClean == Spec => []CleanReturn
<1>1. IInv => CleanReturn
  BY DEF IInv, TypeOK, StateInv, NotifyInv, ResumeInv, CleanReturn
<1> QED
  BY <1>1, Invariance, PTL

-----------------------------------------------------------------------------
(* What pm_system_suspend returns.                                         *)

\* The state the policy chose, the states slept in so far, and the result that
\* is already decided.
Chosen(w) == StateFor(w).state

SleptInv ==
  ~hooked =>
    /\ pc \in {"alarm", "notify", "post", "load"} => z_pm_state.state = Chosen(want)
    /\ pc \in {"enter", "wfi", "branch"} => cpu_state = Chosen(want)
    /\ pc \in {"resume", "exit", "done"} /\ ret = 1
         => Chosen(want) # SUSPEND_TO_RAM /\ slept = {Chosen(want)} \ {ACTIVE}
    /\ pc \in {"decide", "alarm", "notify", "post", "load", "enter"}
         => slept = {}
    /\ pc \in {"wfi", "branch"} => slept = {cpu_state} \ {ACTIVE}
    /\ pc \in {"wait", "wfi2"} => SUSPEND_TO_RAM \in slept
    /\ pc = "wfi2" => ret = 0
    /\ pc \in {"resume", "exit", "done"} => ret # 2
    /\ pc \in {"resume", "exit", "done", "run"}
         => (ret = 0 <=> SUSPEND_TO_RAM \in slept)
    /\ pc = "run" /\ ret = 2 => slept = {}

\* A state without exit latency is not SUSPEND_TO_RAM.
LEMMA LatencyTells ==
  ASSUME IInv
  PROVE  z_pm_state.exit_latency_ticks = 0 <=> z_pm_state.state # SUSPEND_TO_RAM
<1>1. Latency # 0
  BY RtcAssumption, PolicyAssumption, PmAssumption, PrologueAssumption
<1>2. QED BY <1>1 DEF IInv, StateInv, LatencyOf

LEMMA SleptInvStep == IInv /\ SleptInv /\ [Next]_vars => SleptInv'
<1> SUFFICES ASSUME IInv, SleptInv, [Next]_vars PROVE SleptInv'
  OBVIOUS
<1> USE DEF SleptInv
\* Steps of handlers and of the world.
<1>1. ASSUME UNCHANGED <<pc, cpu_state, slept, ret, want>>,
             ~hooked' => ~hooked /\ z_pm_state' = z_pm_state
      PROVE  SleptInv'
  BY <1>1
<1>2. CASE App \/ RtcIsr \/ AppIsr \/ ResumeIsr \/ Tick \/ RaiseIrq \/ UNCHANGED vars
  <2>1. UNCHANGED <<pc, cpu_state, slept, ret, want>>
    BY <1>2 DEF App, Goto, RtcIsr, AppIsr, ResumeIsr, ServeIrq, Tick, RaiseIrq,
       callVars, vars
  <2>2. ~hooked' => ~hooked /\ z_pm_state' = z_pm_state
    BY <1>2 DEF App, RtcIsr, AppIsr, ResumeIsr, ServeIrq, Tick, RaiseIrq, vars
  <2>3. QED BY <1>1, <2>1, <2>2
<1>3. CASE \E t \in Cnt, i \in CallerIrqs : Suspend(t, i)
  BY <1>3 DEF Suspend, Goto
<1>4. CASE StayAwake
  BY <1>4 DEF StayAwake, Return, Goto
<1>5. CASE Decide \/ SetAlarm \/ NotifyEntry \/ SetPostOps
  BY <1>5 DEF Decide, SetAlarm, NotifyEntry, SetPostOps, Goto, callVars, Chosen
<1>6. CASE LoadState
  BY <1>6 DEF LoadState, Goto
<1>7. CASE pm_state_set
  BY <1>7 DEF pm_state_set, Goto, callVars
<1>8. CASE Wake
  BY <1>8 DEF Wake, Asleep
<1>9. CASE SetFinalAlarm
  <2>1. z_pm_state.state = SUSPEND_TO_RAM
    BY <1>9, LatencyTells DEF SetFinalAlarm
  <2>2. ~hooked => cpu_state = SUSPEND_TO_RAM
    BY <1>9, <2>1 DEF SetFinalAlarm, Goto, IInv, ResumeInv
  <2>3. QED BY <1>9, <2>2 DEF SetFinalAlarm, Goto, callVars
<1>10. CASE WaitFinalAlarm
  BY <1>10 DEF WaitFinalAlarm, Goto
<1>11. CASE NoFinalAlarm
  <2>1. z_pm_state.state # SUSPEND_TO_RAM
    BY <1>11, LatencyTells DEF NoFinalAlarm
  <2>2. ~hooked => cpu_state # SUSPEND_TO_RAM
    BY <1>11, <2>1 DEF NoFinalAlarm, Goto, IInv, ResumeInv
  <2>3. QED BY <1>11, <2>2 DEF NoFinalAlarm, Goto, callVars
<1>12. CASE ResumeDone \/ ResumePostOps \/ ResumeNotifyExit \/ ResumeActive
  BY <1>12 DEF ResumeDone, ResumePostOps, ResumeNotifyExit, ResumeActive,
     Return, Goto, callVars
<1>13. QED
  BY <1>2, <1>3, <1>4, <1>5, <1>6, <1>7, <1>8, <1>9, <1>10, <1>11, <1>12
  DEF Next, Caller, Isr

\* Of the states other than deep sleep, the policy idles in long requests only.
LEMMA ChosenLight ==
  ASSUME NEW w \in Nat, Chosen(w) # SUSPEND_TO_RAM
  PROVE  {Chosen(w)} \ {ACTIVE}
           = IF Usecs(w) >= PM_ACTIVE_USEC THEN {SUSPEND_TO_IDLE} ELSE {}
<1>1. PICK u : u = Usecs(w)
  OBVIOUS
<1>2. u \in Nat
  BY <1>1, PolicyAssumption DEF Usecs
<1>3. PM_IDLE_USEC \in Nat /\ PM_ACTIVE_USEC \in Nat
  BY PolicyAssumption
<1>4. StateForUsecs(u).state = Chosen(w)
  BY <1>1 DEF Chosen, StateFor
<1>5. CASE u > PM_IDLE_USEC
  BY <1>2, <1>3, <1>4, <1>5 DEF StateForUsecs, Info
<1>6. CASE u <= PM_IDLE_USEC /\ u >= PM_ACTIVE_USEC
  <2>1. Chosen(w) = SUSPEND_TO_IDLE
    BY <1>2, <1>3, <1>4, <1>6 DEF StateForUsecs, Info
  <2>2. QED
    BY <1>1, <1>6, <2>1 DEF SUSPEND_TO_IDLE, ACTIVE
<1>7. CASE ~(u > PM_IDLE_USEC) /\ ~(u >= PM_ACTIVE_USEC)
  <2>1. Chosen(w) = ACTIVE
    BY <1>2, <1>3, <1>4, <1>7 DEF StateForUsecs, Info
  <2>2. QED
    BY <1>1, <1>7, <2>1
<1>8. QED
  BY <1>2, <1>3, <1>5, <1>6, <1>7

(***************************************************************************)
(* The result of pm_system_suspend tells 0: it was in SUSPEND_TO_RAM, 1:   *)
(* not, and it idled exactly when PM_ACTIVE_USEC or more were asked for,   *)
(* 2: it did not sleep, for all lengths of the day, latencies and          *)
(* interrupts, as long as no handler has called pm_system_resume           *)
(* (pm.c:81-124, policy.c:34-46).                                          *)
(***************************************************************************)
THEOREM ReturnsResult == Spec => []ReturnCode
<1>1. Init => SleptInv
  BY DEF Init, SleptInv
<1>2. IInv /\ SleptInv => ReturnCode
  <2> SUFFICES ASSUME IInv, SleptInv, ~hooked PROVE ReturnCode
    BY DEF ReturnCode
  <2>1. PICK w : w = want
    OBVIOUS
  <2>2. w \in Nat
    BY <2>1, RtcAssumption DEF IInv, TypeOK
  <2>3. pc = "done" /\ ret = 1 =>
          slept = IF Usecs(w) >= PM_ACTIVE_USEC THEN {SUSPEND_TO_IDLE} ELSE {}
    BY <2>1, <2>2, ChosenLight DEF SleptInv
  <2>4. pc = "run" => (ret = 0 <=> SUSPEND_TO_RAM \in slept)
                      /\ (ret = 2 => slept = {})
    BY DEF SleptInv
  <2>5. QED
    BY <2>1, <2>3, <2>4 DEF ReturnCode
<1>3. QED
  BY <1>1, <1>2, SleptInvStep, Invariance, PTL DEF Spec
=============================================================================
