-------------------------------- MODULE Uart --------------------------------
(***************************************************************************)
(* The UART driver's data path (drivers/uart/uart.c, ch58x_hal_uart.c):    *)
(* polled characters from a thread, and an interrupt handler that, as      *)
(* samples/drivers/uart/src/main.c does, fills the transmit FIFO when      *)
(* uart_irq_tx_ready says so and reads the receive FIFO when               *)
(* uart_irq_rx_ready says so.  The thread polls for input only while the   *)
(* receive interrupt is disabled, for output only while the line status    *)
(* interrupt is, and sets the callback before it enables an interrupt.     *)
(***************************************************************************)
EXTENDS Naturals, Sequences

CONSTANTS
  FIFO_SIZE,  \* UART_FIFO_SIZE
  TRIG,       \* the level of the receive FIFO that raises an interrupt
  MaxFill,    \* bound: characters that the handler gives to one fifo_fill
  MaxSize,    \* bound: containers that the handler gives to fifo_read
  MaxRead     \* bound: characters that one fifo_read meets

ASSUME UartAssumption ==
  /\ FIFO_SIZE \in Nat /\ TRIG \in 1 .. FIFO_SIZE
  /\ MaxFill \in 1 .. FIFO_SIZE - 1
  /\ MaxSize \in Nat \ {0} /\ MaxRead > MaxSize

VARIABLES
  \* the UART
  ier,         \* interrupt enables: subset of {"RCV_RDY", "THR_EMPTY", "LINE_STAT"}
  rxf,         \* receive FIFO: the numbers of the characters, see held
  rxto,        \* characters have waited below the trigger level
  txn,         \* characters in the transmit FIFO
  shifting,    \* the transmitter sends one
  thre,        \* the transmit FIFO has run empty since the last look at IIR
  lerr,        \* an error is in the line status
  \* the driver and the program
  set_cb,      \* data->callback is set
  tpc,         \* the thread: "poll_out" between the check and the write
  hpc,         \* where the interrupt handler is
  left,        \* hal_uart_fifo_tx: characters left
  size, num_rx, len,  \* uart_wch_fifo_read and hal_uart_fifo_rx
  rx_data,     \* what they have stored
  \* History, for the properties only:
  owed,        \* characters given to the driver that are not on the line
  held         \* characters in the UART or in rx_data, numbered from 1

uartVars == <<ier, rxf, rxto, txn, shifting, thre, lerr, set_cb, tpc, hpc, left,
              size, num_rx, len, rx_data, owed, held>>
rxVars == <<rxf, rxto, held>>
txVars == <<txn, shifting, thre, owed>>
readVars == <<size, num_rx, len, rx_data>>

\* uart_wch_init; nothing is enabled.
UartInit ==
  /\ ier = {} /\ rxf = << >> /\ rxto = FALSE
  /\ txn = 0 /\ shifting = FALSE /\ thre = TRUE /\ lerr = FALSE
  /\ set_cb = FALSE /\ tpc = "idle" /\ hpc = "off" /\ left = 0
  /\ size = 0 /\ num_rx = 0 /\ len = 0 /\ rx_data = << >>
  /\ owed = 0 /\ held = 0

-----------------------------------------------------------------------------
(* The hardware.                                                           *)

\* A character comes in; without room for it, it is lost and noted.
Arrive ==
  /\ Len(rx_data) + Len(rxf) < MaxRead
  /\ IF Len(rxf) < FIFO_SIZE
     THEN rxf' = Append(rxf, held + 1) /\ held' = held + 1 /\ UNCHANGED lerr
     ELSE lerr' = TRUE /\ UNCHANGED <<rxf, held>>
  /\ UNCHANGED <<ier, rxto, txVars, set_cb, tpc, hpc, left, readVars>>

RxTimeout ==
  /\ rxf # << >> /\ Len(rxf) < TRIG
  /\ rxto' = TRUE
  /\ UNCHANGED <<ier, rxf, held, txVars, lerr, set_cb, tpc, hpc, left, readVars>>

Shift ==
  /\ ~shifting /\ txn > 0
  /\ shifting' = TRUE /\ txn' = txn - 1
  /\ thre' = (thre \/ txn' = 0)
  /\ UNCHANGED <<ier, rxVars, owed, lerr, set_cb, tpc, hpc, left, readVars>>

Sent ==
  /\ shifting
  /\ shifting' = FALSE /\ owed' = owed - 1
  /\ UNCHANGED <<ier, rxVars, txn, thre, lerr, set_cb, tpc, hpc, left, readVars>>

\* The interrupt that IIR shows.
IIR ==
  IF "LINE_STAT" \in ier /\ lerr THEN "LINE_STAT"
  ELSE IF "RCV_RDY" \in ier /\ Len(rxf) >= TRIG THEN "RCV_RDY"
  ELSE IF "RCV_RDY" \in ier /\ rxto THEN "RCV_TIMEOUT"
  ELSE IF "THR_EMPTY" \in ier /\ thre THEN "THR_EMPTY"
  ELSE "NO_INTER"

\* hal_uart_tx: a write into a full FIFO is lost.
hal_uart_tx ==
  /\ txn' = IF txn < FIFO_SIZE THEN txn + 1 ELSE txn
  /\ thre' = FALSE
  /\ owed' = owed + 1
  /\ UNCHANGED shifting

\* The numbers that remain when n characters have been delivered.
Renumbered(s, n) == [i \in 1 .. Len(s) |-> s[i] - n]

-----------------------------------------------------------------------------
(* The thread, which the handler interrupts.                               *)

ThreadStep(from, to) ==
  /\ hpc = "off" /\ IIR = "NO_INTER"
  /\ tpc = from /\ tpc' = to
  /\ UNCHANGED <<hpc, left, readVars>>

uart_wch_irq_callback_set ==
  /\ ThreadStep("idle", "idle")
  /\ set_cb' = TRUE
  /\ UNCHANGED <<ier, rxVars, txVars, lerr>>

\* An empty transmitter interrupts when its interrupt is enabled.
uart_wch_irq_enable(i) ==
  /\ set_cb
  /\ ThreadStep("idle", "idle")
  /\ ier' = ier \union {i}
  /\ thre' = (thre \/ (i = "THR_EMPTY" /\ txn = 0))
  /\ UNCHANGED <<rxVars, txn, shifting, owed, lerr, set_cb>>

uart_wch_irq_disable(i) ==
  /\ ThreadStep("idle", "idle")
  /\ ier' = ier \ {i}
  /\ UNCHANGED <<rxVars, txVars, lerr, set_cb>>

uart_wch_poll_in ==
  /\ "RCV_RDY" \notin ier
  /\ rxf # << >>
  /\ ThreadStep("idle", "idle")
  /\ rxf' = Renumbered(Tail(rxf), 1) /\ held' = held - 1 /\ rxto' = FALSE
  /\ UNCHANGED <<ier, txVars, lerr, set_cb>>

uart_wch_err_check ==
  /\ ThreadStep("idle", "idle")
  /\ lerr' = FALSE
  /\ UNCHANGED <<ier, rxVars, txVars, set_cb>>

\* Mutant: the output is not waited for.
PollOutReady_Always ==
  /\ "LINE_STAT" \notin ier
  /\ ThreadStep("idle", "poll_out")
  /\ UNCHANGED <<ier, rxVars, txVars, lerr, set_cb>>

\* uart_wch_poll_out: UART_LINE_TX_ALL_EMP, then the write.
PollOutReady ==
  /\ "LINE_STAT" \notin ier
  /\ txn = 0 /\ ~shifting
  /\ ThreadStep("idle", "poll_out")
  /\ UNCHANGED <<ier, rxVars, txVars, lerr, set_cb>>

PollOutWrite ==
  /\ ThreadStep("poll_out", "idle")
  /\ hal_uart_tx
  /\ UNCHANGED <<ier, rxVars, lerr, set_cb>>

-----------------------------------------------------------------------------
(* The interrupt handler.                                                  *)

HandlerStep(from, to) ==
  /\ hpc = from /\ hpc' = to
  /\ UNCHANGED <<set_cb, tpc>>

\* uart_isr_handler; uart_irq_update does nothing.
uart_isr_handler ==
  /\ IIR # "NO_INTER" /\ set_cb
  /\ HandlerStep("off", "tx")
  /\ UNCHANGED <<ier, rxVars, txVars, lerr, left, readVars>>

\* The flag of the empty transmitter is a bit of the flag of the line status.
\* Reading it takes back the interrupt of the empty transmitter.
uart_wch_irq_tx_ready ==
  LET ready == IIR \in {"THR_EMPTY", "LINE_STAT"} /\ "THR_EMPTY" \in ier
  IN  /\ \/ ready /\ HandlerStep("tx", "fill") /\ left' \in 1 .. MaxFill
         \/ ~ready /\ HandlerStep("tx", "rx") /\ UNCHANGED left
      /\ thre' = (thre /\ IIR # "THR_EMPTY")
      /\ UNCHANGED <<ier, rxVars, txn, shifting, owed, lerr, readVars>>

\* Mutant: the characters are not counted.
fifo_tx_NoCount ==
  /\ left > 0 /\ txn # FIFO_SIZE
  /\ HandlerStep("fill", "fill")
  /\ hal_uart_tx
  /\ UNCHANGED <<ier, rxVars, lerr, left, readVars>>

\* One round of the loop that finds room; the others change nothing.
hal_uart_fifo_tx ==
  /\ left > 0 /\ txn # FIFO_SIZE
  /\ HandlerStep("fill", "fill")
  /\ hal_uart_tx
  /\ left' = left - 1
  /\ UNCHANGED <<ier, rxVars, lerr, readVars>>

\* The handler may find that it has sent everything: uart_irq_tx_disable.
uart_wch_fifo_fill ==
  /\ left = 0
  /\ HandlerStep("fill", "rx")
  /\ ier' \in {ier, ier \ {"THR_EMPTY"}}
  /\ UNCHANGED <<rxVars, txVars, lerr, left, readVars>>

\* It looks at the enable only, so the FIFO may be empty.
uart_wch_irq_rx_ready ==
  /\ \/ /\ "RCV_RDY" \in ier
        /\ HandlerStep("rx", "read")
        /\ size' \in 1 .. MaxSize
        /\ UNCHANGED <<num_rx, len, rx_data>>
     \/ "RCV_RDY" \notin ier /\ HandlerStep("rx", "end") /\ UNCHANGED readVars
  /\ UNCHANGED <<ier, rxVars, txVars, lerr, left>>

\* d[i] = c, where d may have to grow by one.
Stored(d, i, c) == [k \in 1 .. (IF i > Len(d) THEN i ELSE Len(d)) |->
                      IF k = i THEN c ELSE d[k]]

\* Mutant: every round begins at the start of the container.
fifo_rx_FromStart ==
  /\ rxf # << >>
  /\ HandlerStep("read", "read")
  /\ rx_data' = Stored(rx_data, len + 1, Head(rxf))
  /\ len' = len + 1
  /\ rxf' = Tail(rxf) /\ rxto' = FALSE
  /\ UNCHANGED <<ier, held, txVars, lerr, left, size, num_rx>>

\* One round: until the FIFO is empty, whatever the container's size.
hal_uart_fifo_rx ==
  /\ rxf # << >>
  /\ HandlerStep("read", "read")
  /\ rx_data' = Stored(rx_data, num_rx + len + 1, Head(rxf))
  /\ len' = len + 1
  /\ rxf' = Tail(rxf) /\ rxto' = FALSE
  /\ UNCHANGED <<ier, held, txVars, lerr, left, size, num_rx>>

\* Without a character the loop goes round and changes nothing.
uart_wch_fifo_read ==
  /\ rxf = << >> /\ len > 0
  /\ HandlerStep("read", IF size > num_rx + len THEN "read" ELSE "got")
  /\ num_rx' = num_rx + len /\ len' = 0
  /\ UNCHANGED <<ier, rxVars, txVars, lerr, left, size, rx_data>>

\* The handler has used the num_rx characters; uart_irq_rx_disable, or not.
Delivered ==
  /\ HandlerStep("got", "end")
  /\ held' = held - num_rx /\ rxf' = Renumbered(rxf, num_rx)
  /\ rx_data' = << >> /\ num_rx' = 0 /\ size' = 0
  /\ ier' \in {ier, ier \ {"RCV_RDY"}}
  /\ UNCHANGED <<rxto, txVars, lerr, left, len>>

\* The handler asks for errors and returns.
HandlerEnds ==
  /\ HandlerStep("end", "off")
  /\ lerr' = FALSE
  /\ UNCHANGED <<ier, rxVars, txVars, left, readVars>>

-----------------------------------------------------------------------------
Interrupt == {"RCV_RDY", "THR_EMPTY", "LINE_STAT"}

Isr ==
  \/ uart_isr_handler \/ uart_wch_irq_tx_ready \/ hal_uart_fifo_tx
  \/ uart_wch_fifo_fill \/ uart_wch_irq_rx_ready \/ hal_uart_fifo_rx
  \/ uart_wch_fifo_read \/ Delivered \/ HandlerEnds

UartNext ==
  \/ Arrive \/ RxTimeout \/ Shift \/ Sent
  \/ uart_wch_irq_callback_set
  \/ \E i \in Interrupt : uart_wch_irq_enable(i) \/ uart_wch_irq_disable(i)
  \/ uart_wch_poll_in \/ uart_wch_err_check \/ PollOutReady \/ PollOutWrite
  \/ Isr

UartSpec == UartInit /\ [][UartNext]_uartVars

\* The transmitter sends what it has, and the handler goes on.
UartFairness == WF_uartVars(Shift) /\ WF_uartVars(Sent) /\ WF_uartVars(Isr)

-----------------------------------------------------------------------------
(***************************************************************************)
(* Every character given to the driver is in the transmitter until it is   *)
(* on the line: a handler that runs between the check and the write of     *)
(* uart_wch_poll_out, and fills the FIFO up to one place, overwrites       *)
(* nothing (uart.c:268-277, ch58x_hal_uart.c:24-36).                       *)
(***************************************************************************)
NoneLostOut == owed = txn + IF shifting THEN 1 ELSE 0

(***************************************************************************)
(* The characters that the UART has taken are, in their order, what        *)
(* uart_wch_fifo_read has stored and what is still in the FIFO, also when  *)
(* characters come in while it reads and when it takes several rounds      *)
(* (uart.c:376-387, ch58x_hal_uart.c:38-48).                               *)
(***************************************************************************)
ReadInOrder == rx_data \o rxf = [i \in 1 .. held |-> i]

(***************************************************************************)
(* hal_uart_fifo_tx ends, which waits for room in the interrupt handler    *)
(* (ch58x_hal_uart.c:28-33).                                               *)
(***************************************************************************)
FillEnds == hpc = "fill" ~> hpc # "fill"

(***************************************************************************)
(* include/drivers/uart.h:499-500, "@param rx_data Data container. @param  *)
(* size Container size.": nothing is stored beyond the container.          *)
(***************************************************************************)
ReadWithinContainer == hpc = "read" => Len(rx_data) =< size

(***************************************************************************)
(* include/drivers/uart.h:732, uart_irq_rx_ready returns 1 "If a received  *)
(* char is ready": the handler that goes on to uart_fifo_read finds one.   *)
(* It need not when it came for the transmitter, and then spins in the     *)
(* read until a character arrives (uart.c:376-387, 431-436).               *)
(***************************************************************************)
RxReadyHasChar == hpc = "read" /\ num_rx = 0 /\ len = 0 => rxf # << >>
=============================================================================
