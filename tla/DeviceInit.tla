----------------------------- MODULE DeviceInit -----------------------------
(***************************************************************************)
(* How the system starts (kernel/init.c, kernel/device.c) and what it      *)
(* keeps of every device: its status and, for a wake-up source, its flags  *)
(* (subsys/pm/device.c).  The chip may be reset at any time; the RAM then  *)
(* still holds what it held.                                               *)
(***************************************************************************)
EXTENDS Integers, Sequences

CONSTANTS
  Entries,     \* __init_start .. __init_end in the order of the linker:
               \* level, and device or NoDevice
  NoDevice,    \* entry->dev is NULL
  Stateless,   \* devices without a struct device_state: rtc
  Sources,     \* devices that are wake-up sources, with dev->pm
  NotRun,      \* the init function has not run since the reset
  Results,     \* what init functions return
  UINT8_MAX

Devices == {Entries[i].dev : i \in DOMAIN Entries} \ {NoDevice}

Levels == {"KERNEL", "DRIVER", "APPLICATION"}

ASSUME DeviceAssumption ==
  /\ Entries \in Seq([level : Levels, dev : Devices \union {NoDevice}])
  /\ \A i, j \in DOMAIN Entries :
       i # j /\ Entries[i].dev # NoDevice => Entries[i].dev # Entries[j].dev
  /\ Sources \subseteq Devices /\ Stateless \subseteq Devices
  /\ Results \subseteq Int /\ UINT8_MAX \in Nat \ {0}
  /\ NotRun \notin Results \union {0}

VARIABLES
  stage,           \* the step of sys_init that is next, or "main"
  entry,           \* the init entry that is next
  init_result,     \* struct device_state of every device
  is_initialized,
  flags,           \* struct pm_device of every wake-up source
  wake_ctrl,       \* R8_SLP_WAKE_CTRL, cleared by a reset
  caller,          \* a call of pm_device_wakeup_enable that main is in
  outcome          \* history: what the init function returned since reset

bootVars == <<stage, entry, init_result, is_initialized, flags, wake_ctrl,
              caller, outcome>>
stateVars == <<init_result, is_initialized>>

NoCaller == [pc |-> "none"]
Tracked == Devices \ Stateless
Magnitude(rc) == IF rc < 0 THEN -rc ELSE rc
Recorded(rc) == IF Magnitude(rc) > UINT8_MAX THEN UINT8_MAX ELSE Magnitude(rc)

device_is_ready(d) == is_initialized[d] /\ init_result[d] = 0

\* Power on: RAM holds anything.
BootInit ==
  /\ stage = "bss" /\ entry = 1
  /\ init_result \in [Tracked -> {0, 1}]
  /\ is_initialized \in [Tracked -> BOOLEAN]
  /\ flags \in [Sources -> SUBSET {"CAPABLE", "ENABLED"}]
  /\ wake_ctrl = {} /\ caller = NoCaller
  /\ outcome = [d \in Devices |-> NotRun]

Reset ==
  /\ stage' = "bss" /\ entry' = 1
  /\ wake_ctrl' = {} /\ caller' = NoCaller
  /\ outcome' = [d \in Devices |-> NotRun]
  /\ UNCHANGED <<stateVars, flags>>

\* Mutant: the static status of devices is not cleared.
bss_zero_Nothing ==
  /\ stage = "bss" /\ stage' = "data"
  /\ UNCHANGED <<entry, stateVars, flags, wake_ctrl, caller, outcome>>

bss_zero ==
  /\ stage = "bss" /\ stage' = "data"
  /\ init_result' = [d \in Tracked |-> 0]
  /\ is_initialized' = [d \in Tracked |-> FALSE]
  /\ UNCHANGED <<entry, flags, wake_ctrl, caller, outcome>>

\* Mutant: the flags keep what they were before the reset.
data_copy_Nothing ==
  /\ stage = "data" /\ stage' = "KERNEL"
  /\ UNCHANGED <<entry, stateVars, flags, wake_ctrl, caller, outcome>>

\* data_copy, highcode_copy and arch_kernel_init (see Pmp).
data_copy ==
  /\ stage = "data" /\ stage' = "KERNEL"
  /\ flags' = [d \in Sources |-> {"CAPABLE"}]
  /\ UNCHANGED <<entry, stateVars, wake_ctrl, caller, outcome>>

NextStage == CASE stage = "KERNEL" -> "DRIVER"
               [] stage = "DRIVER" -> "APPLICATION"
               [] stage = "APPLICATION" -> "main"

InLevel == entry <= Len(Entries) /\ Entries[entry].level = stage

\* One turn of z_sys_init_run_level.  The status of a stateless device is
\* written through a null pointer; no other variable is at that address.
RunEntry(rc) ==
  /\ stage \in Levels /\ InLevel
  /\ entry' = entry + 1
  /\ LET d == Entries[entry].dev
     IN  /\ outcome' = [e \in Devices |-> IF e = d THEN rc ELSE outcome[e]]
         /\ IF d \in Tracked
            THEN /\ is_initialized' = [is_initialized EXCEPT ![d] = TRUE]
                 /\ init_result' = IF rc = 0 THEN init_result
                                   ELSE [init_result EXCEPT ![d] = Recorded(rc)]
            ELSE UNCHANGED stateVars
  /\ UNCHANGED <<stage, flags, wake_ctrl, caller>>

\* z_sys_init_run_level returns.
LevelDone ==
  /\ stage \in Levels /\ ~InLevel
  /\ stage' = NextStage
  /\ UNCHANGED <<entry, stateVars, flags, wake_ctrl, caller, outcome>>

-----------------------------------------------------------------------------
\* pm_device_wakeup_enable(d, enable): read the flags; set up the hardware,
\* on for either value of enable; swap.
ReadFlags(d, enable) ==
  /\ stage = "main" /\ caller = NoCaller
  /\ "CAPABLE" \in flags[d]
  /\ caller' = [pc |-> "source", dev |-> d, enable |-> enable,
                flags |-> flags[d]]
  /\ UNCHANGED <<stage, entry, stateVars, flags, wake_ctrl, outcome>>

pm_device_wakeup_source ==
  /\ caller.pc = "source"
  /\ wake_ctrl' = wake_ctrl \cup {caller.dev}
  /\ caller' = [caller EXCEPT !.pc = "cas"]
  /\ UNCHANGED <<stage, entry, stateVars, flags, outcome>>

CasFlags ==
  /\ caller.pc = "cas"
  /\ flags' = IF flags[caller.dev] # caller.flags THEN flags
              ELSE [flags EXCEPT ![caller.dev] =
                      IF caller.enable THEN @ \cup {"ENABLED"}
                      ELSE @ \ {"ENABLED"}]
  /\ caller' = NoCaller
  /\ UNCHANGED <<stage, entry, stateVars, wake_ctrl, outcome>>

BootNext ==
  \/ Reset \/ bss_zero \/ data_copy \/ LevelDone
  \/ \E rc \in Results : RunEntry(rc)
  \/ \E d \in Sources, enable \in BOOLEAN : ReadFlags(d, enable)
  \/ pm_device_wakeup_source \/ CasFlags

BootSpec == BootInit /\ [][BootNext]_bootVars

-----------------------------------------------------------------------------
Running == stage \in Levels \cup {"main"}

(***************************************************************************)
(* From the first init function on, a device is ready exactly if its own   *)
(* init function has run since the reset and returned 0, whatever an       *)
(* earlier start left in RAM (device.c:30-45, init.c:36-48).               *)
(***************************************************************************)
ReadyIsInitialised ==
  Running => \A d \in Tracked : device_is_ready(d) <=> outcome[d] = 0

(***************************************************************************)
(* A device that is marked as an enabled wake-up source can wake the chip: *)
(* its source is on in the power controller, also after a reset, which     *)
(* clears the controller but not the RAM (device.c:24-34, hal.c:70-72).    *)
(***************************************************************************)
EnabledCanWake ==
  Running => \A d \in Sources : "ENABLED" \in flags[d] => d \in wake_ctrl
=============================================================================
