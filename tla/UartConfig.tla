----------------------------- MODULE UartConfig -----------------------------
(***************************************************************************)
(* The format and the rate of a UART: uart_wch_configure and               *)
(* uart_wch_configure_get (drivers/uart/uart.c) down to the line control   *)
(* register and the divisor, and the system clock that the divisor is      *)
(* computed from (ch58x_hal_clk.c).                                        *)
(***************************************************************************)
EXTENDS Naturals

CONSTANTS
  Source,    \* the clock sources that the build may choose: names
  Mode, Div, \* the fields of their values in sys_clk_source_t
  Mhz,       \* the frequency in their names
  Requests,  \* the struct uart_config that the application passes
  Nothing

\* A source with a divider field of 0 means 32 to the hardware and a division
\* by zero to hal_clk_sys_get; the values of the mode need two bits.  The
\* frequency in the name is that of the oscillator or of the PLL, divided.
ASSUME SourceAssumption ==
  \A s \in Source :
    /\ Mode[s] \in {0, 1} /\ Div[s] \in 1 .. 31 /\ Mhz[s] \in Nat
    /\ Mhz[s] * Div[s] = IF Mode[s] = 1 THEN 480 ELSE 32
\* The divisor of a rate fits its 16 bits and is not zero.
ASSUME RequestAssumption ==
  \A cfg \in Requests, s \in Source :
    cfg.baudrate \in Nat /\ (cfg.baudrate # 0 =>
      (Mhz[s] * 1000000) \div (8 * cfg.baudrate) \in 1 .. 2^16 - 2)

VARIABLES
  source,  \* the clock source that was selected at start-up
  clkcfg,  \* R16_CLK_SYS_CFG
  WCH_UART_0, \* the build defines CONFIG_WCH_UART_0; no Kconfig does
  uart0,   \* the UART is UART0, the only one with modem lines
  lcr,     \* LCR, 8 bits
  dl,      \* DL, 16 bits
  uflow,   \* bits of UART0's IER that uart_wch_set_flow_ctrl writes
  ret,     \* what the last uart_wch_configure returned
  applied  \* history: the last request, when all of its format was written

configVars ==
  <<source, clkcfg, WCH_UART_0, uart0, lcr, dl, uflow, ret, applied>>

-----------------------------------------------------------------------------
(* Fields of a register: the width low bits from pos on.                   *)

FieldGet(reg, pos, width) == (reg \div 2^pos) % 2^width
FieldSet(reg, pos, width, v) ==
  reg - FieldGet(reg, pos, width) * 2^pos + (v % 2^width) * 2^pos

(* The system clock.                                                       *)

FHSE == 32000000
FPLL == FHSE * 15

hal_clk_sys_setup(s) ==
  FieldSet(FieldSet(0, 6, 2, IF Mode[s] = 1 THEN 1 ELSE 0), 0, 5, Div[s])

hal_clk_sys_get ==
  (IF FieldGet(clkcfg, 6, 2) = 1 THEN FPLL ELSE FHSE) \div FieldGet(clkcfg, 0, 5)

-----------------------------------------------------------------------------
(* The line control register.                                              *)

\* Mutant: the old mode is not cleared.
pairty_set_Keeps(reg, mode) ==
  LET old == FieldGet(reg, 4, 2)
  IN  FieldSet(FieldSet(reg, 3, 1, 1), 4, 2, IF old > mode THEN old ELSE mode)

hal_uart_pairty_set(reg, mode) == FieldSet(FieldSet(reg, 3, 1, 1), 4, 2, mode)

hal_uart_pairty_disable(reg) == FieldSet(reg, 3, 1, 0)
hal_uart_stop_bit_set(reg, b) == FieldSet(reg, 2, 1, b)
hal_uart_word_size_set(reg, w) == FieldSet(reg, 0, 2, w)

\* enum uart_config_parity: none, odd, even, mark, space.
ParityOk(parity) == parity \in 0 .. 4
uart_wch_set_pairty(reg, parity) ==
  IF parity = 0 THEN hal_uart_pairty_disable(reg)
  ELSE hal_uart_pairty_set(reg, parity - 1)
uart_wch_get_pairty ==
  IF FieldGet(lcr, 3, 1) = 0 THEN 0 ELSE FieldGet(lcr, 4, 2) + 1

\* enum uart_config_data_bits: 5 to 9; 9 is refused.
DataBitsOk(bits) == bits \in 0 .. 3
uart_wch_get_data_bits == IF FieldGet(lcr, 0, 2) = 0 THEN 0 ELSE 1

\* enum uart_config_stop_bits: 0.5, 1, 1.5, 2; only 1 and 2 are supported.
StopBitsOk(bits) == bits \in {1, 3}
uart_wch_set_stop_bits(reg, bits) ==
  hal_uart_stop_bit_set(reg, IF bits = 1 THEN 0 ELSE 1)
uart_wch_get_stop_bits == IF FieldGet(lcr, 2, 1) = 0 THEN 1 ELSE 3

\* Mutant: the divisor is truncated instead of rounded.
baudrate_set_Truncates(baudrate) ==
  (((10 * hal_clk_sys_get * 2) \div (16 * baudrate)) \div 10) % 2^16

\* WCH_ROUNDED_DIV; the divisor has 16 bits.  SETUP.DIV is 1.
hal_uart_baudrate_set(baudrate) ==
  (((10 * hal_clk_sys_get * 2) \div (16 * baudrate) + 5) \div 10) % 2^16

hal_uart_baudrate_get == (hal_clk_sys_get * 2) \div (16 * dl)

\* Without CONFIG_WCH_UART_0 and on the other UARTs nothing is written.  The
\* bits of MCR go into IER, where RB_MCR_RTS is the interrupt enable of the
\* empty transmitter and RB_MCR_AU_FLOW_EN the RTS pin.
uart_wch_set_flow_ctrl(on) ==
  \/ /\ ~WCH_UART_0 \/ ~uart0
     /\ ret' = "ENOTSUP" /\ UNCHANGED uflow
  \/ /\ WCH_UART_0 /\ uart0
     /\ ret' = "OK" /\ uflow' = IF on THEN {"THR_EMPTY", "RTS_EN"} ELSE {}

-----------------------------------------------------------------------------
\* Start-up: the clock, then hal_uart_definit and the device's configuration.
ConfigInit ==
  /\ source \in Source
  /\ clkcfg = hal_clk_sys_setup(source)
  /\ WCH_UART_0 \in BOOLEAN /\ uart0 \in BOOLEAN
  /\ lcr = hal_uart_word_size_set(0, 3)
  /\ dl = hal_uart_baudrate_set(115200)
  /\ uflow = {}
  /\ ret = "OK" /\ applied = Nothing

\* The fields are written one after the other up to the first that is refused.
\* The flow control comes last, with the number of data bits as its argument.
uart_wch_configure(cfg) ==
  LET parity == uart_wch_set_pairty(lcr, cfg.parity)
      bits == hal_uart_word_size_set(parity, cfg.data_bits)
      stop == uart_wch_set_stop_bits(bits, cfg.stop_bits)
      Refuse(err) == ret' = err /\ applied' = Nothing /\ UNCHANGED uflow
  IN  /\ \/ /\ cfg.baudrate = 0 /\ ret' = "EINVAL"
            /\ UNCHANGED <<lcr, dl, uflow, applied>>
         \/ /\ cfg.baudrate # 0 /\ dl' = hal_uart_baudrate_set(cfg.baudrate)
            /\ \/ /\ ~ParityOk(cfg.parity)
                  /\ UNCHANGED lcr /\ Refuse("EINVAL")
               \/ /\ ParityOk(cfg.parity) /\ ~DataBitsOk(cfg.data_bits)
                  /\ lcr' = parity
                  /\ Refuse(IF cfg.data_bits = 4 THEN "ENOSYS" ELSE "EINVAL")
               \/ /\ ParityOk(cfg.parity) /\ DataBitsOk(cfg.data_bits)
                  /\ ~StopBitsOk(cfg.stop_bits) /\ lcr' = bits
                  /\ Refuse(IF cfg.stop_bits \in {0, 2} THEN "ENOTSUP"
                            ELSE "EINVAL")
               \/ /\ ParityOk(cfg.parity) /\ DataBitsOk(cfg.data_bits)
                  /\ StopBitsOk(cfg.stop_bits)
                  /\ lcr' = stop /\ applied' = cfg
                  /\ uart_wch_set_flow_ctrl(cfg.data_bits # 0)
      /\ UNCHANGED <<source, clkcfg, WCH_UART_0, uart0>>

\* What is stored in *cfg: nothing without CONFIG_WCH_UART_0, where reading the
\* flow control fails.  With it, UART0's is read for every UART.
uart_wch_configure_get ==
  IF ~WCH_UART_0 THEN Nothing
  ELSE [baudrate |-> hal_uart_baudrate_get, parity |-> uart_wch_get_pairty,
        data_bits |-> uart_wch_get_data_bits, stop_bits |-> uart_wch_get_stop_bits,
        flow_ctrl |-> "RTS_EN" \in uflow]

ConfigNext == \E cfg \in Requests : uart_wch_configure(cfg)

ConfigSpec == ConfigInit /\ [][ConfigNext]_configVars

-----------------------------------------------------------------------------
(***************************************************************************)
(* When uart_wch_configure has written all of a format, LCR decodes to     *)
(* that format, whatever formats and whatever requests given up half-way   *)
(* came before, and also when the call goes on to fail at the flow         *)
(* control; and the parity and the stop bits that uart_wch_configure_get   *)
(* reports, if it reports anything, are those of the request               *)
(* (uart.c:67-163, 304-367; ch58x_hal_uart.h).  The number of data bits    *)
(* that it reports is the subject of DataBitsReadBack.                     *)
(***************************************************************************)
FormatWritten ==
  applied # Nothing =>
    LET got == uart_wch_configure_get
    IN  /\ uart_wch_get_pairty = applied.parity
        /\ uart_wch_get_stop_bits = applied.stop_bits
        /\ FieldGet(lcr, 0, 2) = applied.data_bits
        /\ got # Nothing => /\ got.parity = applied.parity
                            /\ got.stop_bits = applied.stop_bits

(***************************************************************************)
(* As uart.h:372 says, uart_config_get "Stores current UART configuration  *)
(* to *cfg", the number of data bits too.  It does not:                    *)
(* uart_wch_get_data_bits reports 6 for 7 and for 8 (uart.c:202-207).      *)
(***************************************************************************)
DataBitsReadBack ==
  applied # Nothing /\ uart_wch_configure_get # Nothing =>
    uart_wch_configure_get.data_bits = applied.data_bits

(***************************************************************************)
(* As uart.h:352 says, a configuration that was set is answered with 0     *)
(* ("If successful").  It is not: the call goes on to the flow control,    *)
(* asked for or not, and answers -ENOTSUP on UART1 to UART3 and in every   *)
(* build without CONFIG_WCH_UART_0, with the format and the rate in effect *)
(* (uart.c:216-237, 328).                                                  *)
(***************************************************************************)
SetIsSuccess == applied # Nothing => ret # "ENOTSUP"

(***************************************************************************)
(* The divisor gives the rate nearest to the requested one, from the       *)
(* frequency that the selected clock source is named for: selecting the    *)
(* source, reading its frequency back from the register and rounding the   *)
(* quotient fit together (ch58x_hal_clk.c:76-170, ch58x_hal_uart.c:10-17). *)
(***************************************************************************)
RateNearest ==
  applied # Nothing =>
    LET clk == Mhz[source] * 1000000
        got == 8 * dl * applied.baudrate
    IN  2 * (IF clk > got THEN clk - got ELSE got - clk)
          =< 8 * applied.baudrate
=============================================================================
