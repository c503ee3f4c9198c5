------------------------------ MODULE MCDrivers ------------------------------
(***************************************************************************)
(* One instance of the drivers: the callbacks and the pins of a GPIO port, *)
(* the ADC, and the data path and the configuration of a UART.  They share *)
(* no variable, so one of them runs at a time while the others rest: TLC   *)
(* explores the sum of their states, not the product.                      *)
(***************************************************************************)
EXTENDS GpioCallbacks, GpioPins, Adc, Uart, UartConfig

VARIABLE part  \* the component that runs

MCVars == <<callbackVars, pinVars, adcVars, uartVars, configVars, part>>

\* Two pins of port B, one with another bit in the interrupt registers; port A
\* has one register layout, and one pin.
MCPortPins == [A |-> {4}, B |-> {4, 22}]

\* sys_clk_source_t, without the sources whose divider field is 0 and those
\* that have no whole number of MHz.
MCClock ==
  [HSE_16MHZ |-> <<0, 2, 16>>, HSE_8MHZ |-> <<0, 4, 8>>, HSE_4MHZ |-> <<0, 8, 4>>,
   HSE_2MHZ |-> <<0, 16, 2>>, PLL_80MHZ |-> <<1, 6, 80>>, PLL_60MHZ |-> <<1, 8, 60>>,
   PLL_48MHZ |-> <<1, 10, 48>>, PLL_40MHZ |-> <<1, 12, 40>>,
   PLL_32MHZ |-> <<1, 15, 32>>, PLL_30MHZ |-> <<1, 16, 30>>,
   PLL_24MHZ |-> <<1, 20, 24>>, PLL_20MHZ |-> <<1, 24, 20>>]
MCSource == DOMAIN MCClock
MCMode == [s \in MCSource |-> MCClock[s][1]]
MCDiv == [s \in MCSource |-> MCClock[s][2]]
MCMhz == [s \in MCSource |-> MCClock[s][3]]

\* Every format, the refused ones too, at one rate, and one format at others and
\* without a rate.
MCRequests ==
  [baudrate : {115200}, parity : 0 .. 5, data_bits : 0 .. 5, stop_bits : 0 .. 4]
    \union [baudrate : {0, 1200, 9600, 19200, 38400, 57600, 230400}, parity : {0},
            data_bits : {3}, stop_bits : {1}]

-----------------------------------------------------------------------------
PinsRest == PinsInit /\ port = "A"
\* The clock source has no part in the flow control: one of them for the UARTs
\* and the builds without it.
ConfigStart == ConfigInit /\ (source = "PLL_60MHZ" \/ (WCH_UART_0 /\ uart0))
ConfigRest == ConfigInit /\ source = "PLL_60MHZ" /\ WCH_UART_0 /\ uart0

MCInit ==
  /\ part \in {"callbacks", "pins", "adc", "uart", "config"}
  /\ CallbackInit /\ AdcInit /\ UartInit
  /\ IF part = "pins" THEN PinsInit ELSE PinsRest
  /\ IF part = "config" THEN ConfigStart ELSE ConfigRest

MCNext ==
  /\ \/ /\ part = "callbacks" /\ CallbackNext
        /\ UNCHANGED <<pinVars, adcVars, uartVars, configVars>>
     \/ /\ part = "pins" /\ PinsNext
        /\ UNCHANGED <<callbackVars, adcVars, uartVars, configVars>>
     \/ /\ part = "adc" /\ AdcNext
        /\ UNCHANGED <<callbackVars, pinVars, uartVars, configVars>>
     \/ /\ part = "uart" /\ UartNext
        /\ UNCHANGED <<callbackVars, pinVars, adcVars, configVars>>
     \/ /\ part = "config" /\ ConfigNext
        /\ UNCHANGED <<callbackVars, pinVars, adcVars, uartVars>>
  /\ UNCHANGED part

MCSpec ==
  MCInit /\ [][MCNext]_MCVars /\ AdcFairness /\ UartFairness
=============================================================================
