------------------------------ MODULE MCKernel ------------------------------
(***************************************************************************)
(* One instance of the kernel's and the architecture's components: the     *)
(* clock, the conversions of time units, the start of the system, and      *)
(* memory protection.  They share no variable and call each other in no    *)
(* modelled operation, so one of them runs at a time while the others      *)
(* rest: TLC explores the sum of their states, not the product.            *)
(***************************************************************************)
EXTENDS KernelClock, TimeUnits, DeviceInit, MCPmp

VARIABLE part  \* the component that runs

MCVars == <<vars, unitVars, bootVars, pmpVars, part>>

InitEntry(level, dev) == [level |-> level, dev |-> dev]

MCEntries ==
  <<InitEntry("KERNEL", NoDevice), InitEntry("DRIVER", "rtc"),
    InitEntry("DRIVER", "gpioa"), InitEntry("DRIVER", "uart0"),
    InitEntry("APPLICATION", NoDevice)>>

\* Success, an error, and more than a uint8_t holds.
MCResults == {0, -22, 300}

-----------------------------------------------------------------------------
UnitsRest ==
  /\ hz = <<>> /\ ccyc = TRUE /\ call = NoCall /\ converted = 0

BootRest ==
  /\ BootInit
  /\ init_result = [d \in Tracked |-> 0]
  /\ is_initialized = [d \in Tracked |-> FALSE]
  /\ flags = [d \in Sources |-> {}]

\* Static regions are set up, both contexts have their stack.
PmpRest ==
  /\ mode = "TOR" /\ static_regions_num = UsedEntries /\ inits = 0
  /\ csr = [i \in Slot |-> Empty(0)]
  /\ u_pmp = [c \in Ctx |-> Translate(csr, 0, StackRegion).entries]
  /\ added = [c \in Ctx |-> <<>>]

MCInit ==
  /\ part \in {"clock", "units", "boot", "pmp"}
  /\ Init
  /\ IF part = "units" THEN UnitsInit ELSE UnitsRest
  /\ IF part = "boot" THEN BootInit ELSE BootRest
  /\ IF part = "pmp" THEN PmpInit ELSE PmpRest

MCNext ==
  /\ \/ part = "clock" /\ Next /\ UNCHANGED <<unitVars, bootVars, pmpVars>>
     \/ part = "units" /\ UnitsNext /\ UNCHANGED <<vars, bootVars, pmpVars>>
     \/ part = "boot" /\ BootNext /\ UNCHANGED <<vars, unitVars, pmpVars>>
     \/ part = "pmp" /\ PmpNext /\ UNCHANGED <<vars, unitVars, bootVars>>
  /\ UNCHANGED part

MCSpec == MCInit /\ [][MCNext]_MCVars
=============================================================================
