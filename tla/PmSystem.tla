------------------------------ MODULE PmSystem ------------------------------
(***************************************************************************)
(* System power management: pm_system_suspend and pm_system_resume         *)
(* (subsys/pm/pm.c) over the policy, the RTC alarm and the SoC's power     *)
(* states (soc/riscv/ch5xx/power.c).                                       *)
(*                                                                         *)
(* The CPU runs the caller of pm_system_suspend (pc) and, between any two  *)
(* of its steps where interrupts are open, interrupt handlers.  A step of  *)
(* pm_system_suspend ends where it touches what a handler also touches; a  *)
(* section under irq_lock is one step.                                     *)
(***************************************************************************)
EXTENDS RtcTimer, PmPolicy

CONSTANTS
  Lockable,     \* the states that the application locks
  Notifiers,    \* the struct pm_notifier objects of the application
  HasEntry,     \* those whose state_entry is not NULL
  HasExit,      \* those whose state_exit is not NULL
  CallerIrqs,   \* how callers have interrupts: subset of {"open", "locked"}
  MaxRun        \* ticks that may pass while the CPU runs inside one call,
                \* from the call, or from a wake-up, to the next WFI

ASSUME PmAssumption ==
  /\ Lockable \subseteq PmState
  /\ HasEntry \subseteq Notifiers /\ HasExit \subseteq Notifiers
  /\ CallerIrqs \subseteq {"open", "locked"}
  /\ MaxRun \in Nat /\ Latency < Day

\* The CPU reaches the WFI before the shortest sleep, the residency and the
\* exit latency are over.
ASSUME PrologueAssumption ==
  /\ MaxRun < Residency /\ MaxRun < Latency
  /\ \A t \in Cnt : Usecs(t) >= PM_ACTIVE_USEC => t > MaxRun

VARIABLES
  pc,            \* where the caller of pm_system_suspend is
  irqs,          \* "locked" if the caller has disabled interrupts
  ticks,         \* the argument: the RTC count to be awake at
  z_pm_state,
  post_ops,      \* bit 0 of z_post_ops_required
  cpu_state,     \* the state argument of the first pm_state_set
  hse,           \* HSE_CURRENT_100 or HSE_CURRENT_150
  pm_notifiers,  \* the registered notifiers
  ret,           \* what the last pm_system_suspend returned
  irq,           \* another wake-up interrupt (GPIO, BLE) is requested
  \* History, for the properties only:
  want,          \* sleep_ticks of the call in progress
  elapsed,       \* ticks since the call read the counter
  busy,          \* ticks since the CPU last started to run in the call
  slept,         \* the low-power states that the call entered
  hooked,        \* an interrupt handler has called pm_system_resume
  held,          \* states locked when the call started, and ever since
  noted          \* the state each notifier was last told is entered

\* What a call of pm_system_suspend starts with and forgets on return.
callVars == <<irqs, ticks, want, held, elapsed, busy, cpu_state>>
\* What the API shared with the application changes.
apiVars == <<state_lock_cnt, pm_notifiers, noted>>
vars == <<rtcVars, apiVars, callVars, pc, z_pm_state, post_ops, hse, ret,
          irq, slept, hooked>>

None == "None"
Asleep == pc \in {"wfi", "wfi2"}
InCall == pc # "run"

TypeOK ==
  /\ RtcTypeOK /\ PolicyTypeOK
  /\ pc \in {"run", "decide", "alarm", "notify", "post", "load", "enter",
             "wfi", "branch", "wait", "wfi2", "resume", "exit", "done"}
  /\ irqs \in {"open", "locked"}
  /\ ticks \in Cnt /\ want \in 0 .. Day - 1
  /\ z_pm_state \in StateInfo
  /\ post_ops \in BOOLEAN
  /\ cpu_state \in PmState
  /\ hse \in {100, 150}
  /\ pm_notifiers \subseteq Notifiers
  /\ ret \in 0 .. 2
  /\ irq \in BOOLEAN
  /\ elapsed \in Nat /\ busy \in 0 .. MaxRun
  /\ hooked \in BOOLEAN
  /\ slept \subseteq PmState /\ held \subseteq PmState
  /\ noted \in [Notifiers -> PmState \union {None}]

ActiveInfo == Info(ACTIVE, 0, 0)

Init ==
  /\ RtcInit /\ PolicyInit
  /\ pc = "run" /\ irqs = "open"
  /\ ticks = 0 /\ want = 0 /\ held = {}
  /\ z_pm_state = ActiveInfo
  /\ post_ops = FALSE
  /\ cpu_state = ACTIVE
  /\ hse = 100
  /\ pm_notifiers = {}
  /\ ret = 2
  /\ irq = FALSE
  /\ elapsed = 0 /\ busy = 0 /\ slept = {} /\ hooked = FALSE
  /\ noted = [n \in Notifiers |-> None]

-----------------------------------------------------------------------------
(* Who runs.  With interrupts open a request is served before the next     *)
(* instruction of the caller; asleep, it ends the WFI first.               *)

IrqOpen == irqs = "open"
Requested == pending \/ irq
Goto(from, to) ==
  /\ pc = from
  /\ ~(IrqOpen /\ Requested)
  /\ pc' = to

\* The end of pm_system_suspend: its parameter and locals are gone.
Return(from) ==
  /\ Goto(from, "run")
  /\ irqs' = "open"
  /\ ticks' = 0 /\ want' = 0 /\ held' = {} /\ elapsed' = 0 /\ busy' = 0
  /\ cpu_state' = ACTIVE

-----------------------------------------------------------------------------
(* pm_state_notify, under irq_lock.                                        *)

pm_state_notify_entry ==
  noted' = [n \in Notifiers |-> IF n \in pm_notifiers \intersect HasEntry
                                THEN z_pm_state.state ELSE noted[n]]

pm_state_notify_exit ==
  noted' = [n \in Notifiers |->
              IF n \in pm_notifiers \intersect HasExit
                 /\ noted[n] = z_pm_state.state
              THEN None ELSE noted[n]]

\* Mutant: the case of SUSPEND_TO_RAM is missing.
exit_post_ops_NoRam(s) == UNCHANGED hse

\* The crystal's drive current goes back.
pm_state_exit_post_ops(s) == hse' = IF s = SUSPEND_TO_RAM THEN 100 ELSE hse

-----------------------------------------------------------------------------
(* pm_system_suspend.                                                      *)

\* The distance from the counter to the argument, over the end of the day.
SleepTicks(t, now) == IF t >= now THEN t - now ELSE t + Day - now

Suspend(t, i) ==
  /\ Goto("run", "decide")
  /\ irqs' = i
  /\ ticks' = t
  /\ want' = SleepTicks(t, cnt)
  /\ held' = {s \in PmState : state_lock_cnt[s] # 0}
  /\ slept' = {}
  /\ UNCHANGED <<rtcVars, apiVars, elapsed, busy, cpu_state, z_pm_state,
                 post_ops, hse, ret, irq, hooked>>

StayAwake ==
  /\ pm_policy_next_state_is_null(want)
  /\ Return("decide")
  /\ ret' = 2
  /\ UNCHANGED <<rtcVars, apiVars, z_pm_state, post_ops, hse, irq, slept,
                 hooked>>

Decide ==
  /\ ~pm_policy_next_state_is_null(want)
  /\ Goto("decide", "alarm")
  /\ z_pm_state' = StateFor(want)
  /\ UNCHANGED <<rtcVars, apiVars, callVars, post_ops, hse, ret, irq, slept,
                 hooked>>

SetAlarm ==
  /\ Goto("alarm", "notify")
  /\ sys_clock_set_ticks(Sub32(ticks, z_pm_state.exit_latency_ticks))
  /\ UNCHANGED <<apiVars, callVars, z_pm_state, post_ops, hse, ret, irq,
                 slept, hooked>>

NotifyEntry ==
  /\ Goto("notify", "post")
  /\ pm_state_notify_entry
  /\ UNCHANGED <<rtcVars, state_lock_cnt, pm_notifiers, callVars, z_pm_state,
                 post_ops, hse, ret, irq, slept, hooked>>

SetPostOps ==
  /\ Goto("post", "load")
  /\ post_ops' = TRUE
  /\ UNCHANGED <<rtcVars, apiVars, callVars, z_pm_state, hse, ret, irq,
                 slept, hooked>>

\* The arguments of pm_state_set are read here and used in the next step.
LoadState ==
  /\ Goto("load", "enter")
  /\ cpu_state' = z_pm_state.state
  /\ UNCHANGED <<rtcVars, apiVars, irqs, ticks, want, held, elapsed, busy,
                 z_pm_state, post_ops, hse, ret, irq, slept, hooked>>

\* pm_state_set: SUSPEND_TO_RAM raises the crystal's current and sleeps,
\* SUSPEND_TO_IDLE only waits, PM_STATE_ACTIVE is the switch's default.
pm_state_set ==
  /\ Goto("enter", IF cpu_state = ACTIVE THEN "branch" ELSE "wfi")
  /\ hse' = IF cpu_state = SUSPEND_TO_RAM THEN 150 ELSE hse
  /\ slept' = slept \union ({cpu_state} \ {ACTIVE})
  /\ UNCHANGED <<rtcVars, apiVars, callVars, z_pm_state, post_ops, ret, irq,
                 hooked>>

\* WFI ends when an interrupt is requested, open or not.
Wake ==
  /\ Asleep
  /\ Requested
  /\ pc' = IF pc = "wfi" THEN "branch" ELSE "resume"
  /\ busy' = 0
  /\ UNCHANGED <<rtcVars, apiVars, irqs, ticks, want, held, elapsed, cpu_state,
                 z_pm_state, post_ops, hse, ret, irq, slept, hooked>>

\* A state with an exit latency was left early: wait for ticks itself.
SetFinalAlarm ==
  /\ z_pm_state.exit_latency_ticks # 0
  /\ Goto("branch", "wait")
  /\ sys_clock_set_ticks(ticks)
  /\ UNCHANGED <<apiVars, callVars, z_pm_state, post_ops, hse, ret, irq,
                 slept, hooked>>

\* Mutant: falls into the return of the other branch.
WaitFinalAlarm_Returns1 ==
  /\ Goto("wait", "wfi2")
  /\ slept' = slept \union {SUSPEND_TO_IDLE}
  /\ ret' = 1
  /\ UNCHANGED <<rtcVars, apiVars, callVars, z_pm_state, post_ops, hse, irq,
                 hooked>>

\* pm_state_set(PM_STATE_SUSPEND_TO_IDLE, 0), before the return of 0.
WaitFinalAlarm ==
  /\ Goto("wait", "wfi2")
  /\ slept' = slept \union {SUSPEND_TO_IDLE}
  /\ ret' = 0
  /\ UNCHANGED <<rtcVars, apiVars, callVars, z_pm_state, post_ops, hse, irq,
                 hooked>>

NoFinalAlarm ==
  /\ z_pm_state.exit_latency_ticks = 0
  /\ Goto("branch", "resume")
  /\ ret' = 1
  /\ UNCHANGED <<rtcVars, apiVars, callVars, z_pm_state, post_ops, hse, irq,
                 slept, hooked>>

(* pm_system_resume, called by pm_system_suspend.                          *)

ResumeDone ==
  /\ ~post_ops
  /\ Return("resume")
  /\ UNCHANGED <<rtcVars, apiVars, z_pm_state, post_ops, hse, ret, irq,
                 slept, hooked>>

ResumePostOps ==
  /\ post_ops
  /\ Goto("resume", "exit")
  /\ post_ops' = FALSE
  /\ pm_state_exit_post_ops(z_pm_state.state)
  /\ UNCHANGED <<rtcVars, apiVars, callVars, z_pm_state, ret, irq, slept,
                 hooked>>

ResumeNotifyExit ==
  /\ Goto("exit", "done")
  /\ pm_state_notify_exit
  /\ UNCHANGED <<rtcVars, state_lock_cnt, pm_notifiers, callVars, z_pm_state,
                 post_ops, hse, ret, irq, slept, hooked>>

ResumeActive ==
  /\ Return("done")
  /\ z_pm_state' = ActiveInfo
  /\ UNCHANGED <<rtcVars, apiVars, post_ops, hse, ret, irq, slept, hooked>>

-----------------------------------------------------------------------------
(* The API that the application and its interrupt handlers share.          *)

LockGet(s) ==
  /\ pm_policy_state_lock_get(s)
  /\ UNCHANGED <<held, pm_notifiers, noted>>

LockPut(s) ==
  /\ pm_policy_state_lock_put(s)
  /\ held' = IF state_lock_cnt[s] = 1 THEN held \ {s} ELSE held
  /\ UNCHANGED <<pm_notifiers, noted>>

pm_notifier_register(n) ==
  /\ n \notin pm_notifiers
  /\ pm_notifiers' = pm_notifiers \union {n}
  /\ UNCHANGED <<state_lock_cnt, held, noted>>

\* A notifier that has left is told nothing more.
pm_notifier_unregister(n) ==
  /\ pm_notifiers' = pm_notifiers \ {n}
  /\ noted' = [noted EXCEPT ![n] = None]
  /\ UNCHANGED <<state_lock_cnt, held>>

Api ==
  \/ \E s \in Lockable : LockGet(s) \/ LockPut(s)
  \/ \E n \in Notifiers : pm_notifier_register(n) \/ pm_notifier_unregister(n)

App ==
  /\ Goto("run", "run")
  /\ Api
  /\ UNCHANGED <<rtcVars, irqs, ticks, want, elapsed, busy, cpu_state,
                 z_pm_state, post_ops, hse, ret, irq, slept, hooked>>

(* Interrupt handlers.                                                     *)

RtcIsr ==
  /\ IrqOpen /\ ~Asleep
  /\ RTC_IRQHandler
  /\ UNCHANGED <<apiVars, callVars, pc, z_pm_state, post_ops, hse, ret, irq,
                 slept, hooked>>

ServeIrq ==
  /\ IrqOpen /\ ~Asleep
  /\ irq
  /\ irq' = FALSE
  /\ UNCHANGED <<rtcVars, pc, irqs, ticks, want, elapsed, busy, cpu_state, ret,
                 slept>>

AppIsr ==
  /\ ServeIrq
  /\ Api \/ UNCHANGED <<apiVars, held>>
  /\ UNCHANGED <<z_pm_state, post_ops, hse, hooked>>

\* Mutant: the hook restores the state without telling the notifiers.
ResumeIsr_NoNotify ==
  /\ ServeIrq
  /\ hooked' = TRUE
  /\ post_ops
  /\ post_ops' = FALSE
  /\ pm_state_exit_post_ops(z_pm_state.state)
  /\ z_pm_state' = ActiveInfo
  /\ UNCHANGED <<apiVars, held>>

\* pm_system_resume as the wake-up handler's hook.
ResumeIsr ==
  /\ ServeIrq
  /\ hooked' = TRUE
  /\ post_ops
  /\ post_ops' = FALSE
  /\ pm_state_exit_post_ops(z_pm_state.state)
  /\ pm_state_notify_exit
  /\ z_pm_state' = ActiveInfo
  /\ UNCHANGED <<state_lock_cnt, held, pm_notifiers>>

(* The world: time passes, other interrupts arrive.                        *)

Tick ==
  /\ RtcTick
  /\ Asleep => ~Requested
  /\ elapsed' = IF InCall THEN elapsed + 1 ELSE elapsed
  /\ IF InCall /\ ~Asleep THEN busy < MaxRun /\ busy' = busy + 1
                          ELSE UNCHANGED busy
  /\ UNCHANGED <<apiVars, irqs, ticks, want, held, cpu_state, pc, z_pm_state,
                 post_ops, hse, ret, irq, slept, hooked>>

RaiseIrq ==
  /\ ~irq
  /\ irq' = TRUE
  /\ UNCHANGED <<rtcVars, apiVars, callVars, pc, z_pm_state, post_ops, hse,
                 ret, slept, hooked>>

-----------------------------------------------------------------------------
Caller ==
  \/ StayAwake \/ Decide \/ SetAlarm \/ NotifyEntry \/ SetPostOps
  \/ LoadState \/ pm_state_set \/ SetFinalAlarm \/ WaitFinalAlarm
  \/ NoFinalAlarm \/ ResumeDone \/ ResumePostOps \/ ResumeNotifyExit
  \/ ResumeActive

Isr == RtcIsr \/ AppIsr \/ ResumeIsr

Next ==
  \/ \E t \in Cnt, i \in CallerIrqs : Suspend(t, i)
  \/ Caller \/ Wake \/ App \/ Isr \/ Tick \/ RaiseIrq

Spec == Init /\ [][Next]_vars

(***************************************************************************)
(* The CPU does not stop between two instructions, the RTC does not stop,  *)
(* and requested interrupts are served.  Nothing makes the application     *)
(* call, nor another interrupt arrive.  ISRs may arrive between any two    *)
(* steps, so a step of the caller needs strong fairness: an interrupt      *)
(* handler delays it, it does not cancel it.                               *)
(***************************************************************************)
Fairness ==
  /\ SF_vars(Caller) /\ WF_vars(Wake) /\ WF_vars(RtcIsr) /\ WF_vars(AppIsr)
  /\ WF_vars(Tick)

FairSpec == Spec /\ Fairness

-----------------------------------------------------------------------------
(* Properties.                                                             *)

(***************************************************************************)
(* A sleep does not outlast the time it was asked for: whenever the CPU    *)
(* waits for an interrupt, the requested count has not passed.  The        *)
(* alarm must still be ahead at the WFI although time passes between       *)
(* reading the counter and sleeping, which is what min_residency_ticks is  *)
(* for (pm.c:81-114, policy.c:52-55).  An alarm in the first exit-latency  *)
(* ticks of the day is excluded: see AlarmInTime.                          *)
(***************************************************************************)
NoOversleep ==
  Asleep /\ (cpu_state = SUSPEND_TO_RAM => ticks >= Latency)
    => elapsed <= want

(***************************************************************************)
(* Whatever happened in the call, the system is as before once             *)
(* pm_system_suspend has returned: the state is ACTIVE, no post operation  *)
(* is outstanding and the crystal's current is back (pm.c:58-78), as long  *)
(* as no interrupt handler calls pm_system_resume itself.                  *)
(***************************************************************************)
CleanReturn ==
  ~hooked /\ pc = "run" => z_pm_state = ActiveInfo /\ ~post_ops /\ hse = 100

(***************************************************************************)
(* A notifier that was told a state is entered is told that this state is  *)
(* left before the call returns, whichever interrupt handlers register or  *)
(* unregister notifiers meanwhile (pm.c:38-56).                            *)
(***************************************************************************)
NotifierPaired ==
  \A n \in HasExit : pc = "run" => noted[n] = None

(***************************************************************************)
(* What the caller learns from the result (pm.c:96-123): 0 exactly when    *)
(* the system was in deep sleep; 2 only when nothing was entered; with 1   *)
(* it idled exactly when the request was at least PM_ACTIVE_USEC long, and *)
(* did not sleep at all otherwise, unless a handler has called             *)
(* pm_system_resume.  The last is not what the documentation says: see     *)
(* ReturnDocumented.                                                       *)
(***************************************************************************)
ReturnCode ==
  ~hooked =>
    /\ pc = "run" => /\ ret = 0 <=> SUSPEND_TO_RAM \in slept
                     /\ ret = 2 => slept = {}
    /\ pc = "done" /\ ret = 1 =>
         slept = IF Usecs(want) >= PM_ACTIVE_USEC THEN {SUSPEND_TO_IDLE} ELSE {}

(***************************************************************************)
(* The state that the policy chooses, and that pm_system_suspend enters    *)
(* first, is not one that was locked before the call and has stayed        *)
(* locked, although the policy reads the counters while handlers change    *)
(* them (policy.c:48, pm.c:96-110).  With interrupts disabled by the       *)
(* caller these are all the locked states.  The second wait of the same    *)
(* call asks nobody: see LockedNotSlept.                                   *)
(***************************************************************************)
ChosenNotLocked == pc = "wfi" => cpu_state \notin held

(***************************************************************************)
(* Every pm_system_suspend returns: some interrupt always ends its waits,  *)
(* because every value hal_rtc_set_ticks writes is one the counter takes   *)
(* (hal_rtc.c:45-54).                                                      *)
(***************************************************************************)
SuspendReturns == InCall ~> ~InCall

-----------------------------------------------------------------------------
(* The inductive invariant behind NoOversleep, NotifierPaired,             *)
(* ChosenNotLocked and CleanReturn.                                        *)

LatencyOf(s) == IF s = SUSPEND_TO_RAM THEN Latency ELSE 0

\* How long a state must be slept in: what the policy promises.
LongEnough(s) == s # ACTIVE => want > MaxRun + LatencyOf(s)

\* The alarm of a state s, where the subtraction does not go below zero.
AlarmSet(s) == s # ACTIVE /\ ticks >= LatencyOf(s)
                 => trig = ticks - LatencyOf(s)

\* The counter, the argument and the time that is left agree.
ClockInv ==
  InCall /\ elapsed <= want =>
    \/ cnt + (want - elapsed) = ticks
    \/ cnt + (want - elapsed) = ticks + Day

\* Which state is being entered, and by whom it may have been left already.
StateInv ==
  /\ z_pm_state.exit_latency_ticks = LatencyOf(z_pm_state.state)
  /\ pc \in {"run", "decide"} => z_pm_state = ActiveInfo
  /\ pc \in {"load", "enter", "wfi", "branch", "wait", "wfi2", "resume"} =>
       post_ops \/ z_pm_state = ActiveInfo
  /\ pc \in {"enter", "wfi", "branch", "wait", "wfi2"} =>
       z_pm_state.state \in {cpu_state, ACTIVE}
  /\ pc \in {"wait", "wfi2"} => cpu_state = SUSPEND_TO_RAM
  /\ pc = "wfi" => cpu_state # ACTIVE

\* Before the first WFI.
PrologueInv ==
  /\ pc = "run" => elapsed = 0 /\ busy = 0
  /\ pc \in {"decide", "alarm", "notify", "post", "load", "enter"} =>
       elapsed = busy
  /\ pc \in {"alarm", "notify", "post", "load"} =>
       LongEnough(z_pm_state.state)
  /\ pc \in {"notify", "post", "load"} => AlarmSet(z_pm_state.state)
  /\ pc \in {"enter", "wfi"} => LongEnough(cpu_state) /\ AlarmSet(cpu_state)

\* At a WFI the alarm is ahead, or its request is there.
SleepInv ==
  /\ pc = "wfi" /\ ticks >= LatencyOf(cpu_state) =>
       /\ elapsed + LatencyOf(cpu_state) <= want
       /\ elapsed + LatencyOf(cpu_state) = want => pending
  /\ pc \in {"branch", "wait"} /\ z_pm_state.state = SUSPEND_TO_RAM
         /\ ticks >= Latency =>
       elapsed + Latency <= want + busy
  /\ pc = "wait" /\ ticks >= Latency =>
       elapsed + Latency <= want + busy
  /\ pc \in {"wait", "wfi2"} => trig = ticks
  /\ pc = "wfi2" /\ ticks >= Latency =>
       /\ elapsed <= want
       /\ elapsed = want => pending

\* A notifier that waits for its exit call is still listed, and the call is
\* still to come.
NotifyInv ==
  /\ post_ops =>
       pc \in {"load", "enter", "wfi", "branch", "wait", "wfi2", "resume"}
  /\ \A n \in HasExit : noted[n] # None =>
       /\ n \in pm_notifiers
       /\ noted[n] = z_pm_state.state
       /\ pc \in {"post", "exit"} \/ post_ops

LockInv ==
  /\ \A s \in held : state_lock_cnt[s] # 0
  /\ pc \in {"alarm", "notify", "post", "load"} /\ z_pm_state.state # ACTIVE
       => z_pm_state.state \notin held
  /\ pc \in {"enter", "wfi"} /\ cpu_state # ACTIVE => cpu_state \notin held

\* Without a handler that resumes, the post operations are the caller's.
ResumeInv ==
  ~hooked =>
    /\ pc \in {"load", "enter", "wfi", "branch", "wait", "wfi2", "resume"}
         => post_ops
    /\ pc \in {"enter", "wfi", "branch", "wait", "wfi2", "resume"}
         => z_pm_state.state = cpu_state
    /\ hse = 150 => /\ pc \in {"wfi", "branch", "wait", "wfi2", "resume"}
                    /\ z_pm_state.state = SUSPEND_TO_RAM

IInv ==
  /\ TypeOK /\ ClockInv /\ StateInv /\ PrologueInv /\ SleepInv /\ NotifyInv
  /\ LockInv /\ ResumeInv

-----------------------------------------------------------------------------
(* What the documentation says and the code does not do.                   *)

(***************************************************************************)
(* include/pm/pm.h:156-157, "performs power operations that can be done in *)
(* the available time": no sleep outlasts the request, wherever in the day *)
(* it ends.                                                                *)
(***************************************************************************)
AlarmInTime == Asleep => elapsed <= want

(***************************************************************************)
(* include/pm/pm.h:166-168, "0: system entered deepsleep", "1: system      *)
(* entered idle", "2: system did not suspended".  The policy returns the   *)
(* state PM_STATE_ACTIVE, not NULL, for a short request (policy.c:42-46),  *)
(* which pm_system_suspend takes for a state it has entered.               *)
(***************************************************************************)
ReturnDocumented ==
  ~hooked /\ pc = "run" =>
    CASE ret = 0 -> SUSPEND_TO_RAM \in slept
      [] ret = 1 -> slept = {SUSPEND_TO_IDLE}
      [] ret = 2 -> slept = {}

(***************************************************************************)
(* include/pm/policy.h:65-68, "A power state will not be allowed on the    *)
(* first call of pm_policy_state_lock_get()" until it is put again.  The   *)
(* wait for the end of the exit latency (pm.c:114) is in SUSPEND_TO_IDLE,  *)
(* locked or not.                                                          *)
(***************************************************************************)
SleptIn == IF pc = "wfi2" THEN SUSPEND_TO_IDLE ELSE cpu_state

LockedNotSlept == Asleep => SleptIn \notin held
=============================================================================
