------------------------------ MODULE PmPolicy ------------------------------
(***************************************************************************)
(* subsys/pm/policy.c: which power state a sleep of a given length may     *)
(* use, and the reference-counted locks that forbid a state.               *)
(***************************************************************************)
EXTENDS Integers

CONSTANTS
  UsecPerTick,    \* microseconds in a tick
  UsecWord,       \* 2^32: the uint32_t that holds the microseconds
  PM_IDLE_USEC,   \* CONFIG_PM_IDLE_USEC
  PM_ACTIVE_USEC, \* CONFIG_PM_ACTIVE_USEC
  Latency,        \* k_us_to_ticks_ceil32(1400)
  Residency,      \* k_us_to_ticks_ceil32(100)
  MaxLocks        \* bound: locks taken on one state at a time

ASSUME PolicyAssumption ==
  /\ UsecPerTick \in Nat \ {0} /\ UsecWord \in Nat \ {0}
  /\ PM_IDLE_USEC \in Nat /\ PM_ACTIVE_USEC \in Nat \ {0}
  /\ Latency \in Nat \ {0} /\ Residency \in Nat \ {0}
  /\ MaxLocks \in Nat

VARIABLE state_lock_cnt

ACTIVE == "ACTIVE"
SUSPEND_TO_IDLE == "SUSPEND_TO_IDLE"
SUSPEND_TO_RAM == "SUSPEND_TO_RAM"

\* The states of enum pm_state that the default policy chooses among.
PmState == {ACTIVE, SUSPEND_TO_IDLE, SUSPEND_TO_RAM}

\* struct pm_state_info; the substate is always 0.
StateInfo == [state : PmState, exit_latency_ticks : {0, Latency},
              min_residency_ticks : {0, Residency}]

PolicyTypeOK == state_lock_cnt \in [PmState -> 0 .. MaxLocks]

PolicyInit == state_lock_cnt = [s \in PmState |-> 0]

\* k_ticks_to_us_floor64(ticks), stored in a uint32_t.
Usecs(ticks) == (ticks * UsecPerTick) % UsecWord

Info(s, latency, residency) ==
  [state |-> s, exit_latency_ticks |-> latency,
   min_residency_ticks |-> residency]

StateForUsecs(usecs) ==
  CASE usecs > PM_IDLE_USEC -> Info(SUSPEND_TO_RAM, Latency, Residency)
    [] usecs <= PM_IDLE_USEC /\ usecs >= PM_ACTIVE_USEC
         -> Info(SUSPEND_TO_IDLE, 0, 0)
    [] OTHER -> Info(ACTIVE, 0, 0)

\* Mutant: one lock does not count.
lock_is_active_OffByOne(s) == state_lock_cnt[s] > 1

pm_policy_state_lock_is_active(s) == state_lock_cnt[s] # 0

\* pm_policy_next_state returns &state or NULL: the info, and whether it is
\* returned.  (K_TICKS_FOREVER is not a distance between two counter values.)
StateFor(ticks) == StateForUsecs(Usecs(ticks))

\* Mutant: min_residency_ticks is not considered.
next_state_is_null_NoResidency(ticks) ==
  LET info == StateFor(ticks)
  IN  \/ pm_policy_state_lock_is_active(info.state)
      \/ ticks < info.exit_latency_ticks

pm_policy_next_state_is_null(ticks) ==
  LET info == StateFor(ticks)
  IN  \/ pm_policy_state_lock_is_active(info.state)
      \/ ticks < info.exit_latency_ticks + info.min_residency_ticks

pm_policy_state_lock_get(s) ==
  /\ state_lock_cnt[s] < MaxLocks
  /\ state_lock_cnt' = [state_lock_cnt EXCEPT ![s] = @ + 1]

\* Callers put what they got: __ASSERT(cnt >= 1).
pm_policy_state_lock_put(s) ==
  /\ state_lock_cnt[s] >= 1
  /\ state_lock_cnt' = [state_lock_cnt EXCEPT ![s] = @ - 1]
=============================================================================
