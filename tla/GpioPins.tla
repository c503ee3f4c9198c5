------------------------------ MODULE GpioPins ------------------------------
(***************************************************************************)
(* The pins of a GPIO port: configuration, output and interrupts, from the *)
(* calls of include/drivers/gpio.h through drivers/gpio/gpio.c to the      *)
(* registers (ch58x_hal_gpio.c), and the port's interrupt handler up to    *)
(* the call of gpio_fire_callbacks, which GpioCallbacks models.            *)
(*                                                                         *)
(* A register is the set of its bits that are one.  The output register    *)
(* also holds the level, or the edge, that triggers an interrupt.  So the  *)
(* application writes the output of a pin only while the pin has no        *)
(* interrupt; a masked write reaches the other pins of the port too.       *)
(* Pull-ups and pull-downs are left out.                                   *)
(***************************************************************************)
EXTENDS Integers

CONSTANT PortPins  \* port_pin_mask of the ports "A" and "B"

ASSUME PinAssumption ==
  /\ DOMAIN PortPins = {"A", "B"}
  /\ PortPins["A"] \subseteq 0 .. 15
  /\ PortPins["B"] \subseteq (0 .. 15 \union {22, 23}) \ {8, 9}

VARIABLES
  port,      \* the port that the behaviour is about
  OUT, DIR,  \* its registers
  INT_EN, INT_MODE, INT_IF,  \* its interrupt registers, of 16 bits
  level,     \* the pins that are driven high from outside
  invert,    \* data->invert
  irq,       \* where the interrupt handler is
  int_pins,  \* its local
  \* History, for the properties only:
  trigger,   \* the pins with an interrupt, and the trigger asked for
  unseen,    \* pins with an interrupt that no callback has been called for
  swept      \* pins with an interrupt that were high when a masked write was
             \* made at other pins, since the interrupt was configured

pinVars == <<port, OUT, DIR, INT_EN, INT_MODE, INT_IF, level, invert, irq,
             int_pins, trigger, unseen, swept>>

Pin == PortPins[port]

-----------------------------------------------------------------------------
(* The registers.                                                          *)

\* The bits of the 16-bit registers for pins of a port: bits 8 and 9 of port
\* B belong to pins 22 and 23.
IntBits(pins) ==
  (pins \union IF port = "A" THEN {} ELSE {p - 14 : p \in pins \intersect {22, 23}})
    \intersect 0 .. 15

hal_gpio_port_get == (DIR \intersect OUT) \union (level \ DIR)

hal_gpio_pins_set(pins) == OUT' = OUT \union pins
hal_gpio_pins_reset(pins) == OUT' = OUT \ pins
hal_gpio_pins_invert(pins) == OUT' = (OUT \ pins) \union (pins \ OUT)

hal_gpio_mode_config(p, output) == DIR' = IF output THEN DIR \union {p} ELSE DIR \ {p}

hal_gpio_int_flag_port_get ==
  IF port = "A" THEN INT_IF
  ELSE (INT_IF \ {8, 9}) \union {b + 14 : b \in INT_IF \intersect {8, 9}}

\* Mutant: all flags are cleared.
int_flag_pins_clear_All(pins) == INT_IF' = {}

hal_gpio_int_flag_pins_clear(pins) == INT_IF' = INT_IF \ IntBits(pins)

hal_gpio_int_pins_disable(pins) == INT_EN' = INT_EN \ IntBits(pins)

\* Mutant: port B's trigger level is written at the interrupt's bit.
int_mode_config_Bit(p, edge, high) ==
  /\ INT_MODE' = IF edge THEN INT_MODE \union IntBits({p}) ELSE INT_MODE \ IntBits({p})
  /\ IF high THEN hal_gpio_pins_set(IntBits({p})) ELSE hal_gpio_pins_reset(IntBits({p}))
  /\ INT_IF' = INT_IF \ IntBits({p})
  /\ INT_EN' = INT_EN \union IntBits({p})

\* GPIO_IT_MODE_*: edge or level, and which one.
hal_gpio_int_mode_config(p, edge, high) ==
  /\ INT_MODE' = IF edge THEN INT_MODE \union IntBits({p}) ELSE INT_MODE \ IntBits({p})
  /\ IF high THEN hal_gpio_pins_set({p}) ELSE hal_gpio_pins_reset({p})
  /\ INT_IF' = INT_IF \ IntBits({p})
  /\ INT_EN' = INT_EN \union IntBits({p})

-----------------------------------------------------------------------------
(* The calls of the application, between interrupts.                       *)

NoTrigger == [edge |-> FALSE, high |-> FALSE, on |-> FALSE]

\* gpio_wch_init: all pins are inputs.
PinsInit ==
  /\ port \in DOMAIN PortPins
  /\ OUT = {} /\ DIR = {} /\ INT_EN = {} /\ INT_MODE = {} /\ INT_IF = {}
  /\ level = {} /\ invert = {}
  /\ irq = "off" /\ int_pins = {}
  /\ trigger = [p \in Pin |-> NoTrigger] /\ unseen = {} /\ swept = {}

\* A call that does not concern interrupts.
OutputCall ==
  /\ irq = "off"
  /\ UNCHANGED <<port, INT_EN, INT_MODE, INT_IF, level, irq, int_pins, trigger, unseen>>

\* Flags that no assertion of gpio_pin_configure refuses.
Flags ==
  {f \in [output : BOOLEAN, single_ended : BOOLEAN, active_low : BOOLEAN,
          init : {"no", "low", "high"}, logical : BOOLEAN] :
     ~f.output => ~f.single_ended /\ f.init = "no" /\ ~f.logical}

Opposite(init) == [no |-> "no", low |-> "high", high |-> "low"][init]

\* An output is initialised to the opposite of GPIO_OUTPUT_INIT_*.
gpio_wch_pin_configure(p, f, init) ==
  \/ f.output /\ f.single_ended /\ UNCHANGED <<OUT, DIR>>
  \/ /\ ~(f.output /\ f.single_ended)
     /\ CASE init = "low" -> hal_gpio_pins_set({p})
          [] init = "high" -> hal_gpio_pins_reset({p})
          [] OTHER -> UNCHANGED OUT
     /\ hal_gpio_mode_config(p, f.output)

gpio_pin_configure(p, f) ==
  /\ f.init # "no" => ~trigger[p].on
  /\ OutputCall
  /\ gpio_wch_pin_configure(p, f,
       IF f.logical /\ f.active_low THEN Opposite(f.init) ELSE f.init)
  /\ invert' = IF f.active_low THEN invert \union {p} ELSE invert \ {p}
  /\ UNCHANGED swept

\* gpio_pin_set_raw, gpio_port_set_bits_raw and gpio_port_clear_bits_raw.
Output(pins, high) ==
  /\ \A p \in pins : ~trigger[p].on
  /\ OutputCall
  /\ IF high THEN hal_gpio_pins_set(pins) ELSE hal_gpio_pins_reset(pins)
  /\ UNCHANGED <<DIR, invert, swept>>

gpio_pin_set(p, value) == Output({p}, IF p \in invert THEN ~value ELSE value)

gpio_port_toggle_bits(pins) ==
  /\ \A p \in pins : ~trigger[p].on
  /\ OutputCall
  /\ hal_gpio_pins_invert(pins)
  /\ UNCHANGED <<DIR, invert, swept>>

\* It sets what is to be one and what is high outside the mask, and clears
\* nothing.
gpio_port_set_masked_raw(mask, value) ==
  /\ \A p \in mask : ~trigger[p].on
  /\ OutputCall
  /\ hal_gpio_pins_set((mask \intersect value) \union (hal_gpio_port_get \ mask))
  /\ swept' = swept \union {p \in (level \ DIR) \ mask : trigger[p].on}
  /\ UNCHANGED <<DIR, invert>>

\* gpio_port_set_bits, _clear_bits and _set_clr_bits are calls of it.
gpio_port_set_masked(mask, value) ==
  gpio_port_set_masked_raw(mask, (value \ invert) \union (invert \ value))

gpio_wch_pin_interrupt_configure(p, mode, trig) ==
  \/ /\ mode = "disabled"
     /\ hal_gpio_int_pins_disable({p})
     /\ trigger' = [trigger EXCEPT ![p] = NoTrigger]
     /\ UNCHANGED <<OUT, INT_MODE, INT_IF>>
  \/ /\ mode # "disabled"
     /\ hal_gpio_int_mode_config(p, mode = "edge", trig = "high")
     /\ trigger' = [trigger EXCEPT ![p] =
                      [edge |-> mode = "edge", high |-> trig = "high", on |-> TRUE]]

\* Both edges are not supported, and change nothing.
gpio_pin_interrupt_configure(p, mode, trig, logical) ==
  /\ irq = "off"
  /\ gpio_wch_pin_interrupt_configure(p, mode,
       IF logical /\ p \in invert THEN Opposite(trig) ELSE trig)
  /\ unseen' = unseen \ {p} /\ swept' = swept \ {p}
  /\ UNCHANGED <<port, DIR, level, invert, irq, int_pins>>

-----------------------------------------------------------------------------
(* The hardware.                                                           *)

\* The interrupt of p occurs.
Occurs(p) ==
  /\ INT_IF' = INT_IF \union IntBits({p})
  /\ unseen' = unseen \union {p}

Enabled(p) == IntBits({p}) \subseteq INT_EN
Edge(p) == IntBits({p}) \subseteq INT_MODE

\* The level of an input changes; this may be the edge that is waited for.
Change(p) ==
  /\ p \notin DIR
  /\ level' = IF p \in level THEN level \ {p} ELSE level \union {p}
  /\ IF Enabled(p) /\ Edge(p) /\ (p \in level') = (p \in OUT)
     THEN Occurs(p)
     ELSE UNCHANGED <<INT_IF, unseen>>
  /\ UNCHANGED <<port, OUT, DIR, INT_EN, INT_MODE, invert, irq, int_pins,
                 trigger, swept>>

\* The level that is waited for is there.
LevelReached(p) ==
  /\ p \notin DIR /\ Enabled(p) /\ ~Edge(p)
  /\ (p \in level) = (p \in OUT)
  /\ Occurs(p)
  /\ UNCHANGED <<port, OUT, DIR, INT_EN, INT_MODE, level, invert, irq, int_pins,
                 trigger, swept>>

(* GPIOA_IRQHandler, GPIOB_IRQHandler.                                     *)

PortHandler(from, to) ==
  /\ irq = from /\ irq' = to
  /\ UNCHANGED <<port, OUT, DIR, INT_EN, INT_MODE, level, invert, trigger, swept>>

GetFlags ==
  /\ INT_IF \intersect INT_EN # {}
  /\ PortHandler("off", "clear")
  /\ int_pins' = hal_gpio_int_flag_port_get
  /\ UNCHANGED <<INT_IF, unseen>>

ClearFlags ==
  /\ PortHandler("clear", "fire")
  /\ hal_gpio_int_flag_pins_clear(int_pins)
  /\ UNCHANGED <<int_pins, unseen>>

FireCallbacks ==
  /\ PortHandler("fire", "off")
  /\ unseen' = unseen \ int_pins
  /\ int_pins' = {}
  /\ UNCHANGED INT_IF

-----------------------------------------------------------------------------
PinsNext ==
  \/ \E p \in Pin :
       \/ \E f \in Flags : gpio_pin_configure(p, f)
       \/ \E value \in BOOLEAN : gpio_pin_set(p, value)
       \/ \E mode \in {"disabled", "level", "edge"}, trig \in {"low", "high"},
             logical \in BOOLEAN : gpio_pin_interrupt_configure(p, mode, trig, logical)
       \/ Change(p)
       \/ LevelReached(p)
  \/ \E pins \in SUBSET Pin :
       \/ \E high \in BOOLEAN : Output(pins, high)
       \/ gpio_port_toggle_bits(pins)
       \/ \E value \in SUBSET Pin :
            gpio_port_set_masked_raw(pins, value) \/ gpio_port_set_masked(pins, value)
  \/ GetFlags \/ ClearFlags \/ FireCallbacks

PinsSpec == PinsInit /\ [][PinsNext]_pinVars

-----------------------------------------------------------------------------
(***************************************************************************)
(* An interrupt that occurs at a pin is never forgotten: its flag is set   *)
(* or the handler that is running calls the callbacks for the pin, also    *)
(* when it occurs between the handler's reading of the flags and its       *)
(* clearing them, at the same or at another pin, and for the pins of port  *)
(* B whose flag has another number (gpio.c:28-50, ch58x_hal_gpio.h:160-190)*)
(***************************************************************************)
EventReported ==
  \A p \in unseen :
    IntBits({p}) \subseteq INT_IF \/ (irq # "off" /\ p \in int_pins)

(***************************************************************************)
(* The interrupt that gpio_pin_interrupt_configure has set up for a pin    *)
(* stays enabled in its mode whatever is configured and written at other   *)
(* pins, and a trigger at the high level or the rising edge stays one: the *)
(* three registers agree although one of them is also the output register  *)
(* and two number pins 22 and 23 differently (ch58x_hal_gpio.c:41-94).  A  *)
(* trigger at the low level or the falling edge stays one too, but for     *)
(* masked writes: one at other pins turns it around when the pin is high   *)
(* (gpio.c:89-102; see TriggerKept).                                       *)
(***************************************************************************)
TriggerAsAsked ==
  \A p \in Pin :
    trigger[p].on =>
      /\ Enabled(p)
      /\ Edge(p) = trigger[p].edge
      /\ p \in OUT <=> trigger[p].high \/ p \in swept

-----------------------------------------------------------------------------
(* What the documentation says and the code does not do.                   *)

(***************************************************************************)
(* include/drivers/gpio.h:657, "mask Mask indicating which pins will be    *)
(* modified": a masked write leaves the trigger of a pin outside its mask  *)
(* as it was asked for.                                                    *)
(***************************************************************************)
TriggerKept ==
  \A p \in Pin : trigger[p].on => (p \in OUT <=> trigger[p].high)
=============================================================================
