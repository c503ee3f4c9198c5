---------------------------- MODULE DriverProofs ----------------------------
(***************************************************************************)
(* Proofs about the drivers: Uart, for every size of the FIFOs, every      *)
(* trigger level and any number of characters; UartConfig, for every set   *)
(* of requests and clock sources; GpioPins, for every set of pins that a   *)
(* port may have; Adc, for every set of channels, every buffer and any     *)
(* number of samplings, reads and measurements.                            *)
(***************************************************************************)
EXTENDS Uart, UartConfig, GpioPins, Adc, Integers, TLAPS

(* Uart and UartConfig.                                                    *)

Handler == {"off", "tx", "fill", "rx", "read", "got", "end"}

UartTypeOK ==
  /\ ier \subseteq Interrupt
  /\ rxf \in Seq(Int) /\ rx_data \in Seq(Int)
  /\ txn \in 0 .. FIFO_SIZE /\ left \in Nat
  /\ tpc \in {"idle", "poll_out"} /\ hpc \in Handler
  /\ num_rx \in Nat /\ len \in Nat /\ held \in Int /\ owed \in Int
  /\ shifting \in BOOLEAN /\ thre \in BOOLEAN

\* Between the check and the write of uart_wch_poll_out there is room: the
\* handler can only have filled an empty FIFO.
RoomInv ==
  /\ thre => txn = 0
  /\ tpc = "poll_out" => /\ "LINE_STAT" \notin ier
                         /\ txn =< MaxFill
                         /\ hpc = "fill" => txn + left =< MaxFill

\* What has been stored and what is in the FIFO follow each other; there is
\* stored data in the loops of uart_wch_fifo_read only.
InInv ==
  /\ num_rx + len = Len(rx_data)
  /\ hpc \notin {"read", "got"} => rx_data = << >>
  /\ hpc # "read" => len = 0
  /\ held = Len(rx_data) + Len(rxf)
  /\ \A i \in 1 .. Len(rx_data) : rx_data[i] = i
  /\ \A i \in 1 .. Len(rxf) : rxf[i] = Len(rx_data) + i

UartInv == UartTypeOK /\ RoomInv /\ NoneLostOut /\ InInv

LEMMA UartInitInv == UartInit => UartInv
<1> SUFFICES ASSUME UartInit PROVE UartInv
  OBVIOUS
<1> USE UartAssumption DEF UartInit
<1>0. shifting \in BOOLEAN /\ thre \in BOOLEAN
  BY Zenon
<1>1. UartTypeOK
  BY <1>0 DEF UartTypeOK, Handler, Interrupt
<1>2. RoomInv /\ NoneLostOut
  BY DEF RoomInv, NoneLostOut
<1>3. InInv
  BY DEF InInv
<1>4. QED BY <1>1, <1>2, <1>3 DEF UartInv

-----------------------------------------------------------------------------
(* The receiver.                                                           *)

\* Storing at the first free place appends.
LEMMA StoredAppends ==
  ASSUME NEW d \in Seq(Int), NEW c \in Int
  PROVE  Stored(d, Len(d) + 1, c) = Append(d, c)
<1>1. Len(d) \in Nat
  OBVIOUS
<1>2. Stored(d, Len(d) + 1, c) =
        [k \in 1 .. Len(d) + 1 |-> IF k = Len(d) + 1 THEN c ELSE d[k]]
  BY <1>1 DEF Stored
<1>3. QED BY <1>1, <1>2

\* The numbers of the characters that remain.
LEMMA RenumberedSeq ==
  ASSUME NEW s \in Seq(Int), NEW n \in Nat
  PROVE  /\ Renumbered(s, n) \in Seq(Int)
         /\ Len(Renumbered(s, n)) = Len(s)
         /\ \A i \in 1 .. Len(s) : Renumbered(s, n)[i] = s[i] - n
<1>1. Renumbered(s, n) \in [1 .. Len(s) -> Int] /\ Len(s) \in Nat
  BY DEF Renumbered
<1>2. QED BY <1>1 DEF Renumbered

\* A character is taken out of the FIFO and put behind those in the buffer.
LEMMA TakenInOrder ==
  ASSUME UartInv, hal_uart_fifo_rx
  PROVE  InInv' /\ rxf' \in Seq(Int) /\ rx_data' \in Seq(Int)
<1> USE DEF UartInv, UartTypeOK, InInv
<1>1. /\ rxf # << >> /\ rxf' = Tail(rxf) /\ Head(rxf) \in Int
      /\ num_rx' = num_rx /\ len' = len + 1 /\ held' = held
      /\ hpc = "read" /\ hpc' = "read"
  BY DEF hal_uart_fifo_rx, HandlerStep
<1>2. rx_data' = Append(rx_data, Head(rxf))
  BY <1>1, StoredAppends DEF hal_uart_fifo_rx
<1>3. /\ rxf' \in Seq(Int) /\ rx_data' \in Seq(Int)
      /\ Len(rxf') = Len(rxf) - 1 /\ Len(rx_data') = Len(rx_data) + 1
  BY <1>1, <1>2
<1>4. \A i \in 1 .. Len(rx_data') : rx_data'[i] = i
  BY <1>1, <1>2, <1>3
<1>5. \A i \in 1 .. Len(rxf') : rxf'[i] = Len(rx_data') + i
  BY <1>1, <1>3
<1>6. num_rx' + len' = Len(rx_data') /\ held' = Len(rx_data') + Len(rxf')
  BY <1>1, <1>3
<1>7. QED BY <1>1, <1>3, <1>4, <1>5, <1>6

\* Characters are delivered, from the FIFO or from the buffer.
LEMMA DeliveredInOrder ==
  ASSUME UartInv, uart_wch_poll_in \/ Delivered
  PROVE  InInv' /\ rxf' \in Seq(Int) /\ rx_data' \in Seq(Int)
<1> USE DEF UartInv, UartTypeOK, InInv
<1>1. CASE uart_wch_poll_in
  <2>1. /\ rxf # << >> /\ rxf' = Renumbered(Tail(rxf), 1)
        /\ held' = held - 1 /\ hpc = "off" /\ hpc' = "off"
        /\ num_rx' = num_rx /\ len' = len /\ rx_data' = rx_data
    BY <1>1 DEF uart_wch_poll_in, ThreadStep, readVars
  <2>2. Tail(rxf) \in Seq(Int) /\ Len(Tail(rxf)) = Len(rxf) - 1
    BY <2>1
  <2>3. /\ rxf' \in Seq(Int) /\ Len(rxf') = Len(rxf) - 1
        /\ \A i \in 1 .. Len(rxf') : rxf'[i] = Tail(rxf)[i] - 1
    BY <2>1, <2>2, RenumberedSeq
  <2>4. ASSUME NEW i \in 1 .. Len(rxf') PROVE rxf'[i] = Len(rx_data') + i
    <3>1. i + 1 \in 1 .. Len(rxf) /\ Tail(rxf)[i] = rxf[i + 1]
      BY <2>1, <2>2, <2>3
    <3>2. rxf[i + 1] = Len(rx_data) + (i + 1)
      BY <3>1
    <3>3. rxf'[i] = rxf[i + 1] - 1
      BY <2>3, <3>1
    <3>4. QED BY <2>1, <3>1, <3>2, <3>3
  <2>5. num_rx' + len' = Len(rx_data')
    BY <2>1
  <2>6. held' = Len(rx_data') + Len(rxf')
    BY <2>1, <2>3
  <2>7. QED BY <2>1, <2>3, <2>4, <2>5, <2>6
<1>2. CASE Delivered
  <2>1. /\ rxf' = Renumbered(rxf, num_rx) /\ rx_data' = << >>
        /\ held' = held - num_rx /\ num_rx' = 0 /\ len' = len
        /\ hpc = "got" /\ hpc' = "end"
    BY <1>2 DEF Delivered, HandlerStep
  <2>2. /\ rxf' \in Seq(Int) /\ Len(rxf') = Len(rxf)
        /\ \A i \in 1 .. Len(rxf') : rxf'[i] = rxf[i] - num_rx
    BY <2>1, RenumberedSeq
  <2>3. rx_data' \in Seq(Int) /\ Len(rx_data') = 0
    BY <2>1
  <2>4. num_rx = Len(rx_data) /\ len = 0
    BY <2>1
  <2>5. \A i \in 1 .. Len(rxf') : rxf'[i] = Len(rx_data') + i
    BY <2>2, <2>3, <2>4
  <2>6. QED BY <2>1, <2>2, <2>3, <2>4, <2>5
<1>3. QED BY <1>1, <1>2

\* Steps that move no received character.
InUnchanged ==
  /\ rxf' = rxf /\ held' = held
  /\ rx_data' = rx_data /\ num_rx' = num_rx /\ len' = len
  /\ hpc' = hpc \/ hpc \notin {"read", "got"}

LEMMA InUnchangedInv == InInv /\ InUnchanged => InInv'
BY DEF InInv, InUnchanged

LEMMA InStep ==
  ASSUME UartInv, [UartNext]_uartVars
  PROVE  InInv' /\ rxf' \in Seq(Int) /\ rx_data' \in Seq(Int)
<1> USE DEF UartInv, UartTypeOK
<1>1. CASE InUnchanged
  BY <1>1, InUnchangedInv DEF InUnchanged
<1>2. CASE Arrive
  <2>1. CASE Len(rxf) < FIFO_SIZE
    <3>1. /\ rxf' = Append(rxf, held + 1) /\ held' = held + 1
          /\ rx_data' = rx_data /\ num_rx' = num_rx /\ len' = len /\ hpc' = hpc
      BY <1>2, <2>1 DEF Arrive, readVars
    <3>2. rxf' \in Seq(Int) /\ Len(rxf') = Len(rxf) + 1
      BY <3>1
    <3>3. ASSUME NEW i \in 1 .. Len(rxf') PROVE rxf'[i] = Len(rx_data') + i
      <4>1. CASE i = Len(rxf) + 1
        BY <3>1, <4>1 DEF InInv
      <4>2. CASE i # Len(rxf) + 1
        <5>1. i \in 1 .. Len(rxf) /\ rxf'[i] = rxf[i]
          BY <3>1, <3>2, <4>2
        <5>2. QED BY <3>1, <5>1 DEF InInv
      <4>3. QED BY <4>1, <4>2
    <3>4. QED BY <3>1, <3>2, <3>3 DEF InInv
  <2>2. CASE ~(Len(rxf) < FIFO_SIZE)
    <3>1. InUnchanged
      BY <1>2, <2>2 DEF Arrive, readVars, InUnchanged
    <3>2. QED BY <3>1, <1>1
  <2>3. QED BY <2>1, <2>2
<1>3. CASE hal_uart_fifo_rx
  BY <1>3, TakenInOrder
<1>4. CASE uart_wch_poll_in \/ Delivered
  BY <1>4, DeliveredInOrder
<1>5. CASE uart_wch_fifo_read
  <2>1. /\ rxf' = rxf /\ held' = held /\ rx_data' = rx_data
        /\ num_rx' = num_rx + len /\ len' = 0
        /\ hpc' \in {"read", "got"}
    BY <1>5 DEF uart_wch_fifo_read, HandlerStep, rxVars
  <2>2. QED BY <2>1 DEF InInv
<1>6. ASSUME \/ UNCHANGED uartVars \/ RxTimeout \/ Shift \/ Sent
             \/ uart_wch_irq_callback_set
             \/ \E i \in Interrupt : uart_wch_irq_enable(i) \/ uart_wch_irq_disable(i)
             \/ uart_wch_err_check \/ PollOutReady \/ PollOutWrite
      PROVE  InUnchanged
  BY <1>6 DEF InUnchanged, uartVars, rxVars, readVars, RxTimeout, Shift, Sent,
     uart_wch_irq_callback_set, uart_wch_irq_enable, uart_wch_irq_disable,
     uart_wch_err_check, PollOutReady, PollOutWrite, ThreadStep
<1>7. ASSUME \/ uart_isr_handler \/ uart_wch_irq_tx_ready \/ hal_uart_fifo_tx
             \/ uart_wch_fifo_fill \/ uart_wch_irq_rx_ready \/ HandlerEnds
      PROVE  InUnchanged
  BY <1>7 DEF InUnchanged, rxVars, readVars, uart_isr_handler,
     uart_wch_irq_tx_ready, hal_uart_fifo_tx, uart_wch_fifo_fill,
     uart_wch_irq_rx_ready, HandlerEnds, HandlerStep
<1>8. QED
  BY <1>1, <1>2, <1>3, <1>4, <1>5, <1>6, <1>7 DEF UartNext, Isr

-----------------------------------------------------------------------------
(* The transmitter.                                                        *)

\* A character goes into a FIFO that has room.
LEMMA TxKeepsCount ==
  ASSUME UartInv, hal_uart_tx, txn < FIFO_SIZE
  PROVE  txn' = txn + 1 /\ txn' \in 0 .. FIFO_SIZE /\ owed' \in Int
         /\ thre' = FALSE /\ NoneLostOut'
BY UartAssumption DEF UartInv, UartTypeOK, NoneLostOut, hal_uart_tx

\* Steps that give no character to the transmitter and take none.
OutUnchanged ==
  /\ txn' = txn /\ shifting' = shifting /\ thre' = thre /\ owed' = owed
  /\ ier' \subseteq ier /\ tpc' = tpc
  /\ left' = left /\ (hpc' = "fill" => hpc = "fill")

OutInv == RoomInv /\ NoneLostOut /\ txn \in 0 .. FIFO_SIZE /\ owed \in Int

LEMMA OutUnchangedInv == OutInv /\ OutUnchanged => OutInv'
BY DEF OutInv, RoomInv, NoneLostOut, OutUnchanged

\* An interrupt of the empty transmitter comes when its FIFO is empty.
LEMMA ReadyIsEmpty ==
  ASSUME RoomInv, tpc = "poll_out", IIR \in {"THR_EMPTY", "LINE_STAT"}
  PROVE  txn = 0
BY DEF RoomInv, IIR

LEMMA OutStep ==
  ASSUME UartInv, [UartNext]_uartVars
  PROVE  OutInv' /\ left' \in Nat
<1> USE UartAssumption DEF UartInv, UartTypeOK
<1>1. CASE OutUnchanged
  BY <1>1, OutUnchangedInv DEF OutUnchanged, OutInv
<1>2. CASE Shift
  BY <1>2 DEF Shift, OutInv, RoomInv, NoneLostOut
<1>3. CASE Sent
  BY <1>3 DEF Sent, OutInv, RoomInv, NoneLostOut
<1>4. ASSUME NEW i \in Interrupt, uart_wch_irq_enable(i)
      PROVE  OutInv' /\ left' \in Nat
  BY <1>4 DEF uart_wch_irq_enable, ThreadStep, OutInv, RoomInv, NoneLostOut
<1>5. CASE PollOutReady
  BY <1>5 DEF PollOutReady, ThreadStep, txVars, OutInv, RoomInv, NoneLostOut
<1>6. CASE PollOutWrite
  <2>1. txn < FIFO_SIZE
    BY <1>6 DEF PollOutWrite, ThreadStep, RoomInv
  <2>2. QED
    BY <1>6, <2>1, TxKeepsCount DEF PollOutWrite, ThreadStep, OutInv, RoomInv
<1>7. CASE uart_wch_irq_tx_ready
  <2>1. /\ txn' = txn /\ shifting' = shifting /\ owed' = owed /\ ier' = ier
        /\ tpc' = tpc
    BY <1>7 DEF uart_wch_irq_tx_ready, HandlerStep
  <2>2. thre' => txn' = 0
    BY <1>7, <2>1, Zenon DEF uart_wch_irq_tx_ready, RoomInv
  <2>3. NoneLostOut' /\ txn' \in 0 .. FIFO_SIZE /\ owed' \in Int
    BY <2>1 DEF NoneLostOut
  <2>4. CASE hpc' = "fill"
    <3>1. IIR \in {"THR_EMPTY", "LINE_STAT"} /\ left' \in 1 .. MaxFill
      BY <1>7, <2>4 DEF uart_wch_irq_tx_ready, HandlerStep
    <3>2. tpc' = "poll_out" => txn' = 0 /\ "LINE_STAT" \notin ier'
      BY <2>1, <3>1, ReadyIsEmpty DEF RoomInv
    <3>3. left' \in Nat /\ (tpc' = "poll_out" => txn' + left' =< MaxFill)
      BY <3>1, <3>2
    <3>4. RoomInv'
      BY <2>2, <3>2, <3>3 DEF RoomInv
    <3>5. QED BY <2>3, <3>3, <3>4 DEF OutInv
  <2>5. CASE hpc' # "fill"
    <3>1. left' = left
      BY <1>7, <2>5 DEF uart_wch_irq_tx_ready, HandlerStep
    <3>2. QED BY <2>1, <2>5, <2>2, <2>3, <3>1 DEF OutInv, RoomInv
  <2>6. QED BY <2>4, <2>5
<1>8. CASE hal_uart_fifo_tx
  <2>1. txn < FIFO_SIZE
    BY <1>8 DEF hal_uart_fifo_tx
  <2>2. /\ txn' = txn + 1 /\ txn' \in 0 .. FIFO_SIZE /\ owed' \in Int
        /\ thre' = FALSE /\ NoneLostOut'
    BY <1>8, <2>1, TxKeepsCount DEF hal_uart_fifo_tx
  <2>3. /\ left > 0 /\ left' = left - 1 /\ hpc = "fill" /\ hpc' = "fill"
        /\ tpc' = tpc /\ ier' = ier
    BY <1>8 DEF hal_uart_fifo_tx, HandlerStep
  <2>4. RoomInv'
    BY <2>2, <2>3 DEF RoomInv
  <2>5. QED BY <2>2, <2>3, <2>4 DEF OutInv
<1>9. ASSUME \/ UNCHANGED uartVars \/ Arrive \/ RxTimeout
             \/ uart_wch_irq_callback_set
             \/ \E i \in Interrupt : uart_wch_irq_disable(i)
             \/ uart_wch_poll_in \/ uart_wch_err_check
      PROVE  OutUnchanged
  BY <1>9 DEF OutUnchanged, uartVars, txVars, Arrive, RxTimeout,
     uart_wch_irq_callback_set, uart_wch_irq_disable, uart_wch_poll_in,
     uart_wch_err_check, ThreadStep
<1>10. ASSUME \/ uart_isr_handler \/ uart_wch_fifo_fill
              \/ uart_wch_irq_rx_ready \/ hal_uart_fifo_rx
              \/ uart_wch_fifo_read \/ Delivered \/ HandlerEnds
       PROVE  OutUnchanged
  BY <1>10 DEF OutUnchanged, txVars, uart_isr_handler, uart_wch_fifo_fill,
     uart_wch_irq_rx_ready, hal_uart_fifo_rx, uart_wch_fifo_read, Delivered,
     HandlerEnds, HandlerStep
<1>11. QED
  BY <1>1, <1>2, <1>3, <1>4, <1>5, <1>6, <1>7, <1>8, <1>9, <1>10
     DEF UartNext, Isr

-----------------------------------------------------------------------------
LEMMA UartTypeStep ==
  ASSUME UartInv, [UartNext]_uartVars
  PROVE  UartTypeOK'
<1> USE DEF UartInv, UartTypeOK
<1>1. /\ rxf' \in Seq(Int) /\ rx_data' \in Seq(Int)
      /\ txn' \in 0 .. FIFO_SIZE /\ left' \in Nat /\ owed' \in Int
  BY InStep, OutStep DEF OutInv
<1>2. ier' \subseteq Interrupt
  BY DEF UartNext, Isr, uartVars, Arrive, RxTimeout, Shift, Sent,
     uart_wch_irq_callback_set, uart_wch_irq_enable, uart_wch_irq_disable,
     uart_wch_poll_in, uart_wch_err_check, PollOutReady, PollOutWrite,
     uart_isr_handler, uart_wch_irq_tx_ready, hal_uart_fifo_tx,
     uart_wch_fifo_fill, uart_wch_irq_rx_ready, hal_uart_fifo_rx,
     uart_wch_fifo_read, Delivered, HandlerEnds, Interrupt
<1>3. tpc' \in {"idle", "poll_out"} /\ hpc' \in Handler
  BY DEF UartNext, Isr, uartVars, Arrive, RxTimeout, Shift, Sent,
     uart_wch_irq_callback_set, uart_wch_irq_enable, uart_wch_irq_disable,
     uart_wch_poll_in, uart_wch_err_check, PollOutReady, PollOutWrite,
     uart_isr_handler, uart_wch_irq_tx_ready, hal_uart_fifo_tx,
     uart_wch_fifo_fill, uart_wch_irq_rx_ready, hal_uart_fifo_rx,
     uart_wch_fifo_read, Delivered, HandlerEnds, ThreadStep, HandlerStep, Handler
<1>4. num_rx' \in Nat /\ len' \in Nat /\ held' \in Int
  BY DEF UartNext, Isr, uartVars, rxVars, readVars, Arrive, RxTimeout, Shift, Sent,
     uart_wch_irq_callback_set, uart_wch_irq_enable, uart_wch_irq_disable,
     uart_wch_poll_in, uart_wch_err_check, PollOutReady, PollOutWrite,
     uart_isr_handler, uart_wch_irq_tx_ready, hal_uart_fifo_tx,
     uart_wch_fifo_fill, uart_wch_irq_rx_ready, hal_uart_fifo_rx,
     uart_wch_fifo_read, Delivered, HandlerEnds, ThreadStep
<1>5. shifting' \in BOOLEAN /\ thre' \in BOOLEAN
  BY Zenon DEF UartNext, Isr, uartVars, txVars, Arrive, RxTimeout, Shift, Sent,
     uart_wch_irq_callback_set, uart_wch_irq_enable, uart_wch_irq_disable,
     uart_wch_poll_in, uart_wch_err_check, PollOutReady, PollOutWrite,
     uart_isr_handler, uart_wch_irq_tx_ready, hal_uart_fifo_tx, hal_uart_tx,
     uart_wch_fifo_fill, uart_wch_irq_rx_ready, hal_uart_fifo_rx,
     uart_wch_fifo_read, Delivered, HandlerEnds
<1>6. QED BY <1>1, <1>2, <1>3, <1>4, <1>5

LEMMA UartNextInv == UartInv /\ [UartNext]_uartVars => UartInv'
BY UartTypeStep, InStep, OutStep DEF UartInv, OutInv

LEMMA UartAlways == UartSpec => []UartInv
BY UartInitInv, UartNextInv, PTL DEF UartSpec

(***************************************************************************)
(* No character given to the driver is lost on its way out, at any size of *)
(* the FIFO: the handler that runs between the check and the write of      *)
(* uart_wch_poll_out leaves a place for the write (uart.c:268-277).        *)
(***************************************************************************)
THEOREM NothingLostOut == UartSpec => []NoneLostOut
<1>1. UartInv => NoneLostOut
  BY DEF UartInv
<1>2. QED BY <1>1, UartAlways, PTL

(***************************************************************************)
(* What uart_wch_fifo_read has stored, followed by what is in the FIFO, is *)
(* every character the UART has taken, in order, however many rounds it    *)
(* takes and whatever comes in meanwhile (uart.c:376-387).                 *)
(***************************************************************************)
THEOREM ReadsInOrder == UartSpec => []ReadInOrder
<1>1. UartInv => ReadInOrder
  <2> SUFFICES ASSUME UartInv PROVE ReadInOrder
    OBVIOUS
  <2> DEFINE s == rx_data \o rxf
  <2> USE DEF UartInv, UartTypeOK, InInv
  <2>1. s \in Seq(Int) /\ Len(s) = held /\ held \in Nat
    OBVIOUS
  <2>2. ASSUME NEW i \in 1 .. held PROVE s[i] = i
    <3>1. CASE i =< Len(rx_data)
      BY <3>1
    <3>2. CASE i > Len(rx_data)
      <4>1. i - Len(rx_data) \in 1 .. Len(rxf)
        BY <3>2
      <4>2. s[i] = rxf[i - Len(rx_data)]
        BY <3>2, <4>1
      <4>3. QED BY <4>1, <4>2
    <3>3. QED BY <3>1, <3>2
  <2>3. s = [i \in 1 .. held |-> i]
    <3> HIDE DEF s
    <3>1. DOMAIN s = 1 .. held /\ s = [i \in DOMAIN s |-> s[i]]
      BY <2>1
    <3>2. QED BY <2>2, <3>1
  <2>4. QED BY <2>3 DEF ReadInOrder
<1>2. QED BY <1>1, UartAlways, PTL

-----------------------------------------------------------------------------
(* The format.                                                             *)

\* The fields of LCR do not overlap: each is read back as it was written, and
\* a write leaves the others.
LEMMA WordSizeField ==
  ASSUME NEW r \in 0 .. 255, NEW w \in 0 .. 3
  PROVE  /\ hal_uart_word_size_set(r, w) \in 0 .. 255
         /\ FieldGet(hal_uart_word_size_set(r, w), 0, 2) = w
         /\ FieldGet(hal_uart_word_size_set(r, w), 3, 1) = FieldGet(r, 3, 1)
         /\ FieldGet(hal_uart_word_size_set(r, w), 4, 2) = FieldGet(r, 4, 2)
BY DEF hal_uart_word_size_set, FieldSet, FieldGet

LEMMA StopBitField ==
  ASSUME NEW r \in 0 .. 255, NEW b \in 0 .. 1
  PROVE  /\ hal_uart_stop_bit_set(r, b) \in 0 .. 255
         /\ FieldGet(hal_uart_stop_bit_set(r, b), 2, 1) = b
         /\ FieldGet(hal_uart_stop_bit_set(r, b), 0, 2) = FieldGet(r, 0, 2)
         /\ FieldGet(hal_uart_stop_bit_set(r, b), 3, 1) = FieldGet(r, 3, 1)
         /\ FieldGet(hal_uart_stop_bit_set(r, b), 4, 2) = FieldGet(r, 4, 2)
BY DEF hal_uart_stop_bit_set, FieldSet, FieldGet

LEMMA ParityField ==
  ASSUME NEW r \in 0 .. 255, NEW m \in 0 .. 3
  PROVE  /\ hal_uart_pairty_set(r, m) \in 0 .. 255
         /\ FieldGet(hal_uart_pairty_set(r, m), 3, 1) = 1
         /\ FieldGet(hal_uart_pairty_set(r, m), 4, 2) = m
         /\ hal_uart_pairty_disable(r) \in 0 .. 255
         /\ FieldGet(hal_uart_pairty_disable(r), 3, 1) = 0
<1>1. /\ FieldSet(r, 3, 1, 1) \in 0 .. 255
      /\ FieldGet(FieldSet(r, 3, 1, 1), 3, 1) = 1
      /\ FieldSet(r, 3, 1, 0) \in 0 .. 255
      /\ FieldGet(FieldSet(r, 3, 1, 0), 3, 1) = 0
  BY DEF FieldSet, FieldGet
<1>2. ASSUME NEW x \in 0 .. 255, FieldGet(x, 3, 1) = 1
      PROVE  /\ FieldSet(x, 4, 2, m) \in 0 .. 255
             /\ FieldGet(FieldSet(x, 4, 2, m), 3, 1) = 1
             /\ FieldGet(FieldSet(x, 4, 2, m), 4, 2) = m
  BY <1>2 DEF FieldSet, FieldGet
<1>3. QED BY <1>1, <1>2 DEF hal_uart_pairty_set, hal_uart_pairty_disable

(* The rate.                                                               *)

\* The division of the code, by what it says about the quotient.
LEMMA Quotient ==
  ASSUME NEW a \in Nat, NEW b \in Nat \ {0}
  PROVE  /\ a \div b \in Nat
         /\ b * (a \div b) =< a /\ a < b * (a \div b) + b
OBVIOUS

\* The frequency is read back from the register as the source's name has it.
LEMMA ClockReadBack ==
  ASSUME NEW s \in Source, clkcfg = hal_clk_sys_setup(s)
  PROVE  hal_clk_sys_get = Mhz[s] * 1000000
<1> DEFINE m == IF Mode[s] = 1 THEN 1 ELSE 0
<1>1. /\ m \in {0, 1} /\ Div[s] \in 1 .. 31 /\ Mhz[s] \in Nat
      /\ Mhz[s] * Div[s] = IF m = 1 THEN 480 ELSE 32
  BY SourceAssumption
<1>2. FieldGet(clkcfg, 6, 2) = m /\ FieldGet(clkcfg, 0, 5) = Div[s]
  <2>1. FieldSet(0, 6, 2, m) = 64 * m
    BY <1>1 DEF FieldSet, FieldGet
  <2>2. FieldSet(64 * m, 0, 5, Div[s]) = 64 * m + Div[s]
    BY <1>1 DEF FieldSet, FieldGet
  <2>3. clkcfg = 64 * m + Div[s]
    BY <2>1, <2>2 DEF hal_clk_sys_setup
  <2>4. ASSUME NEW k \in {0, 1}, NEW v \in 1 .. 31
        PROVE  FieldGet(64 * k + v, 6, 2) = k /\ FieldGet(64 * k + v, 0, 5) = v
    BY DEF FieldGet
  <2>5. QED BY <1>1, <2>3, <2>4
<1>3. (IF m = 1 THEN FPLL ELSE FHSE) = Div[s] * (Mhz[s] * 1000000)
  BY <1>1, SMT DEF FPLL, FHSE
<1>4. ASSUME NEW d \in Nat \ {0}, NEW x \in Nat PROVE (d * x) \div d = x
  OBVIOUS
<1>5. QED BY <1>1, <1>2, <1>3, <1>4, SMT DEF hal_clk_sys_get

\* WCH_ROUNDED_DIV rounds to the nearest divisor, and the divisor fits.
LEMMA RoundedDivisor ==
  ASSUME NEW f \in Nat, NEW b \in Nat \ {0}, hal_clk_sys_get = f,
         f \div (8 * b) \in 1 .. 2^16 - 2
  PROVE  LET got == 8 * hal_uart_baudrate_set(b) * b
         IN  got \in Nat /\ 2 * (f - got) =< 8 * b /\ 2 * (got - f) =< 8 * b
<1> DEFINE x == (10 * f * 2) \div (16 * b)
           d == (x + 5) \div 10
<1>1. x \in Nat /\ 16 * (b * x) =< 20 * f /\ 20 * f < 16 * (b * x) + 16 * b
  <2>1. 10 * f * 2 \in Nat /\ 16 * b \in Nat \ {0} /\ 10 * f * 2 = 20 * f
    OBVIOUS
  <2>2. x \in Nat /\ (16 * b) * x =< 20 * f /\ 20 * f < (16 * b) * x + 16 * b
    BY <2>1, Quotient
  <2>3. (16 * b) * x = 16 * (b * x)
    BY <2>2
  <2>4. QED BY <2>2, <2>3
<1>2. d \in Nat /\ 10 * d =< x + 5 /\ x + 5 < 10 * d + 10
  BY <1>1
<1> HIDE DEF x
<1> HIDE DEF d
<1>3. 10 * (b * d) =< b * x + 5 * b /\ b * x + b + 5 * b =< 10 * (b * d) + 10 * b
  BY <1>1, <1>2
<1>4. 2 * (f - 8 * (b * d)) =< 8 * b /\ 2 * (8 * (b * d) - f) =< 8 * b
  <2>1. ASSUME NEW p \in Int, NEW q \in Int,
               16 * p =< 20 * f, 20 * f < 16 * p + 16 * b,
               10 * q =< p + 5 * b, p + b + 5 * b =< 10 * q + 10 * b
        PROVE  2 * (f - 8 * q) =< 8 * b /\ 2 * (8 * q - f) =< 8 * b
    BY <2>1, SMT
  <2>2. b * x \in Int /\ b * d \in Int
    BY <1>1, <1>2
  <2>3. QED BY <1>1, <1>3, <2>1, <2>2
<1>5. d < 2^16
  <2>1. f < 8 * b * 65535
    BY Quotient, SMT
  <2>2. b * x < b * 655350
    BY <1>1, <2>1, SMT
  <2>3. x < 655350
    BY <1>1, <2>2, SMT
  <2>4. 10 * d < 655355
    BY <1>1, <1>2, <2>3, SMT
  <2>5. 2^16 = 65536
    BY SMT
  <2>6. QED BY <1>2, <2>4, <2>5, SMT
<1>6. hal_uart_baudrate_set(b) = d
  BY <1>2, <1>5, SMT DEF hal_uart_baudrate_set, d, x
<1>7. 8 * d * b = 8 * (b * d) /\ 8 * d * b \in Nat
  BY <1>2
<1>8. QED BY <1>4, <1>6, <1>7

-----------------------------------------------------------------------------
\* The divisor belongs to the last request whose format was written, and the
\* format in LCR is its format.
ConfigInv ==
  /\ source \in Source /\ clkcfg = hal_clk_sys_setup(source)
  /\ lcr \in 0 .. 255
  /\ applied # Nothing => /\ applied \in Requests /\ applied.baudrate # 0
                          /\ dl = hal_uart_baudrate_set(applied.baudrate)
  /\ FormatWritten

LEMMA ConfigInitInv == ConfigInit => ConfigInv
<1> SUFFICES ASSUME ConfigInit PROVE ConfigInv
  OBVIOUS
<1>1. 0 \in 0 .. 255 /\ 3 \in 0 .. 3
  OBVIOUS
<1>2. hal_uart_word_size_set(0, 3) \in 0 .. 255
  BY <1>1, WordSizeField
<1>3. lcr \in 0 .. 255
  BY <1>2, SMT DEF ConfigInit
<1>4. QED BY <1>3, SMT DEF ConfigInit, ConfigInv, FormatWritten

\* What uart_wch_configure_get reports of the parity and the stop bits, if it
\* reports anything, is what LCR decodes to.
LEMMA ReadBackIsDecoded ==
  ASSUME uart_wch_configure_get' # Nothing
  PROVE  /\ uart_wch_configure_get'.parity = uart_wch_get_pairty'
         /\ uart_wch_configure_get'.stop_bits = uart_wch_get_stop_bits'
BY DEF uart_wch_configure_get

\* A request sets the fields up to the first that is refused.
LEMMA ConfigureFormat ==
  ASSUME ConfigInv, NEW cfg \in Requests, uart_wch_configure(cfg)
  PROVE  lcr' \in 0 .. 255 /\ FormatWritten'
<1> DEFINE parity == uart_wch_set_pairty(lcr, cfg.parity)
           bits == hal_uart_word_size_set(parity, cfg.data_bits)
           stop == uart_wch_set_stop_bits(bits, cfg.stop_bits)
<1>1. \/ UNCHANGED <<WCH_UART_0, lcr, applied>>
      \/ lcr' = lcr /\ applied' = Nothing
      \/ ParityOk(cfg.parity) /\ lcr' = parity /\ applied' = Nothing
      \/ /\ ParityOk(cfg.parity) /\ DataBitsOk(cfg.data_bits)
         /\ lcr' = bits /\ applied' = Nothing
      \/ /\ ParityOk(cfg.parity) /\ DataBitsOk(cfg.data_bits)
         /\ StopBitsOk(cfg.stop_bits) /\ lcr' = stop /\ applied' = cfg
  BY DEF uart_wch_configure
<1>2. ASSUME ParityOk(cfg.parity)
      PROVE  /\ parity \in 0 .. 255
             /\ cfg.parity = 0 => FieldGet(parity, 3, 1) = 0
             /\ cfg.parity # 0 => /\ FieldGet(parity, 3, 1) = 1
                                  /\ FieldGet(parity, 4, 2) = cfg.parity - 1
  <2>1. lcr \in 0 .. 255
    BY DEF ConfigInv
  <2>2. CASE cfg.parity = 0
    <3>1. 0 \in 0 .. 3
      OBVIOUS
    <3>2. QED BY <2>1, <2>2, <3>1, ParityField DEF uart_wch_set_pairty
  <2>3. CASE cfg.parity # 0
    <3>1. cfg.parity - 1 \in 0 .. 3
      BY <1>2, <2>3 DEF ParityOk
    <3>2. QED BY <2>1, <2>3, <3>1, ParityField DEF uart_wch_set_pairty
  <2>4. QED BY <2>2, <2>3
<1> HIDE DEF parity
<1>3. ASSUME ParityOk(cfg.parity), DataBitsOk(cfg.data_bits)
      PROVE  /\ bits \in 0 .. 255
             /\ FieldGet(bits, 0, 2) = cfg.data_bits
             /\ FieldGet(bits, 3, 1) = FieldGet(parity, 3, 1)
             /\ FieldGet(bits, 4, 2) = FieldGet(parity, 4, 2)
  BY <1>2, <1>3, WordSizeField DEF DataBitsOk
<1> HIDE DEF bits
<1>4. ASSUME ParityOk(cfg.parity), DataBitsOk(cfg.data_bits),
             StopBitsOk(cfg.stop_bits)
      PROVE  /\ stop \in 0 .. 255
             /\ FieldGet(stop, 2, 1) = IF cfg.stop_bits = 1 THEN 0 ELSE 1
             /\ FieldGet(stop, 0, 2) = FieldGet(bits, 0, 2)
             /\ FieldGet(stop, 3, 1) = FieldGet(bits, 3, 1)
             /\ FieldGet(stop, 4, 2) = FieldGet(bits, 4, 2)
  <2> DEFINE b == IF cfg.stop_bits = 1 THEN 0 ELSE 1
  <2>1. b \in 0 .. 1 /\ bits \in 0 .. 255
    BY <1>3, <1>4
  <2>2. stop = hal_uart_stop_bit_set(bits, b)
    BY DEF uart_wch_set_stop_bits
  <2> HIDE DEF b
  <2>3. /\ hal_uart_stop_bit_set(bits, b) \in 0 .. 255
        /\ FieldGet(hal_uart_stop_bit_set(bits, b), 2, 1) = b
        /\ FieldGet(hal_uart_stop_bit_set(bits, b), 0, 2) = FieldGet(bits, 0, 2)
        /\ FieldGet(hal_uart_stop_bit_set(bits, b), 3, 1) = FieldGet(bits, 3, 1)
        /\ FieldGet(hal_uart_stop_bit_set(bits, b), 4, 2) = FieldGet(bits, 4, 2)
    BY <2>1, StopBitField
  <2>4. QED BY <2>2, <2>3 DEF b
<1> HIDE DEF stop
<1>5. lcr' \in 0 .. 255
  BY <1>1, <1>2, <1>3, <1>4 DEF ConfigInv
<1>6. ASSUME ParityOk(cfg.parity), DataBitsOk(cfg.data_bits),
             StopBitsOk(cfg.stop_bits), lcr' = stop, applied' = cfg
      PROVE  FormatWritten'
  <2>1. uart_wch_get_pairty' = cfg.parity
    BY <1>2, <1>3, <1>4, <1>6 DEF uart_wch_get_pairty, ParityOk
  <2>2. uart_wch_get_stop_bits' = cfg.stop_bits
    BY <1>4, <1>6 DEF uart_wch_get_stop_bits, StopBitsOk
  <2>3. FieldGet(lcr', 0, 2) = cfg.data_bits
    BY <1>3, <1>4, <1>6
  <2>4. QED BY <1>6, <2>1, <2>2, <2>3, ReadBackIsDecoded DEF FormatWritten
<1>7. applied' = Nothing => FormatWritten'
  BY DEF FormatWritten
<1>8. ASSUME UNCHANGED <<WCH_UART_0, lcr, applied>> PROVE FormatWritten'
  <2>1. FormatWritten /\ uart_wch_get_pairty' = uart_wch_get_pairty
        /\ uart_wch_get_stop_bits' = uart_wch_get_stop_bits
    BY <1>8 DEF ConfigInv, uart_wch_get_pairty, uart_wch_get_stop_bits
  <2>2. QED BY <1>8, <2>1, ReadBackIsDecoded DEF FormatWritten
<1>9. QED BY <1>1, <1>5, <1>6, <1>7, <1>8

LEMMA ConfigNextInv == ConfigInv /\ [ConfigNext]_configVars => ConfigInv'
<1> SUFFICES ASSUME ConfigInv, [ConfigNext]_configVars PROVE ConfigInv'
  OBVIOUS
<1>1. CASE UNCHANGED configVars
  BY <1>1 DEF configVars, ConfigInv, FormatWritten, uart_wch_configure_get,
     hal_uart_baudrate_set, hal_uart_baudrate_get, hal_clk_sys_get,
     uart_wch_get_pairty, uart_wch_get_data_bits, uart_wch_get_stop_bits
<1>2. ASSUME NEW cfg \in Requests, uart_wch_configure(cfg)
      PROVE  ConfigInv'
  <2>1. lcr' \in 0 .. 255 /\ FormatWritten'
    BY <1>2, ConfigureFormat
  <2>2. source' = source /\ clkcfg' = clkcfg
    BY <1>2 DEF uart_wch_configure
  <2>3. \/ UNCHANGED <<dl, applied>>
        \/ /\ cfg.baudrate # 0 /\ dl' = hal_uart_baudrate_set(cfg.baudrate)
           /\ applied' \in {Nothing, cfg}
    BY <1>2 DEF uart_wch_configure
  <2>4. UNCHANGED applied =>
          hal_uart_baudrate_set(applied.baudrate)'
            = hal_uart_baudrate_set(applied.baudrate)
    BY <2>2 DEF hal_uart_baudrate_set, hal_clk_sys_get
  <2>5. hal_uart_baudrate_set(cfg.baudrate)' = hal_uart_baudrate_set(cfg.baudrate)
    BY <2>2 DEF hal_uart_baudrate_set, hal_clk_sys_get
  <2>6. hal_clk_sys_setup(source)' = hal_clk_sys_setup(source)
    BY <2>2 DEF hal_clk_sys_setup
  <2>7. applied' # Nothing => /\ applied' \in Requests /\ applied'.baudrate # 0
                              /\ dl' = hal_uart_baudrate_set(applied.baudrate)'
    <3>1. CASE UNCHANGED <<dl, applied>>
      BY <2>4, <3>1 DEF ConfigInv
    <3>2. CASE /\ cfg.baudrate # 0 /\ dl' = hal_uart_baudrate_set(cfg.baudrate)
               /\ applied' \in {Nothing, cfg}
      BY <1>2, <2>5, <3>2
    <3>3. QED BY <2>3, <3>1, <3>2
  <2>8. QED BY <2>1, <2>2, <2>6, <2>7 DEF ConfigInv
<1>3. QED BY <1>1, <1>2 DEF ConfigNext

LEMMA ConfigAlways == ConfigSpec => []ConfigInv
BY ConfigInitInv, ConfigNextInv, PTL DEF ConfigSpec

(***************************************************************************)
(* A format that was written is the format that LCR decodes to, and the    *)
(* parity and the stop bits of uart_config_get, when it reports anything,  *)
(* are its own, after any sequence of requests, those given up half-way    *)
(* and those that the flow control fails included, on every UART, in       *)
(* builds with and without CONFIG_WCH_UART_0 (uart.c:67-163, 304-367).     *)
(* The number of data bits that it reports is not: DataBitsReadBack fails. *)
(***************************************************************************)
THEOREM FormatKept == ConfigSpec => []FormatWritten
<1>1. ConfigInv => FormatWritten
  BY DEF ConfigInv
<1>2. QED BY <1>1, ConfigAlways, PTL

(***************************************************************************)
(* The divisor gives the rate nearest to the requested one, for every      *)
(* clock source and every rate whose divisor fits: the rounding of         *)
(* WCH_ROUNDED_DIV loses nothing (ch58x_hal_uart.c:10-17).                 *)
(***************************************************************************)
THEOREM RateIsNearest == ConfigSpec => []RateNearest
<1>1. ConfigInv => RateNearest
  <2> SUFFICES ASSUME ConfigInv, applied # Nothing PROVE RateNearest
    BY DEF RateNearest
  <2> DEFINE f == Mhz[source] * 1000000
             b == applied.baudrate
  <2>1. /\ source \in Source /\ clkcfg = hal_clk_sys_setup(source)
        /\ applied \in Requests /\ b # 0 /\ dl = hal_uart_baudrate_set(b)
    BY DEF ConfigInv
  <2>2. hal_clk_sys_get = f /\ f \in Nat
    BY <2>1, ClockReadBack, SourceAssumption, SMT
  <2>3. b \in Nat \ {0} /\ f \div (8 * b) \in 1 .. 2^16 - 2
    BY <2>1, RequestAssumption, SMT
  <2> HIDE DEF f
  <2> HIDE DEF b
  <2>4. /\ 8 * dl * b \in Nat
        /\ 2 * (f - 8 * dl * b) =< 8 * b /\ 2 * (8 * dl * b - f) =< 8 * b
    BY <2>1, <2>2, <2>3, RoundedDivisor
  <2>5. QED BY <2>2, <2>4 DEF RateNearest, f, b
<1>2. QED BY <1>1, ConfigAlways, PTL

-----------------------------------------------------------------------------
(* GpioPins.                                                               *)

\* The pins that flags can stand for, and the flag of a pin.
PortBits == IF port = "A" THEN 0 .. 15 ELSE (0 .. 15 \union {22, 23}) \ {8, 9}
Bit(p) == IF port # "A" /\ p \in {22, 23} THEN p - 14 ELSE p

PinTypeOK ==
  /\ port \in DOMAIN PortPins
  /\ INT_IF \subseteq 0 .. 15
  /\ unseen \subseteq Pin
  /\ int_pins \subseteq PortBits
  /\ DOMAIN trigger = Pin

PinInv == PinTypeOK /\ EventReported /\ TriggerAsAsked

-----------------------------------------------------------------------------
(* The numbering of the interrupt registers.                               *)

LEMMA PinsArePortBits == port \in DOMAIN PortPins => Pin \subseteq PortBits
BY PinAssumption DEF Pin, PortBits

\* Every pin has one bit of its own.
LEMMA BitIsOwn ==
  ASSUME NEW p \in PortBits, NEW q \in PortBits
  PROVE  /\ Bit(p) \in 0 .. 15
         /\ Bit(p) = Bit(q) => p = q
BY DEF PortBits, Bit

LEMMA IntBitsOf ==
  ASSUME NEW S \in SUBSET PortBits
  PROVE  IntBits(S) = {Bit(p) : p \in S}
<1>1. CASE port = "A"
  BY <1>1 DEF IntBits, PortBits, Bit
<1>2. CASE port # "A"
  <2>1. ASSUME NEW b \in IntBits(S) PROVE \E p \in S : b = Bit(p)
    BY <1>2, <2>1 DEF IntBits, PortBits, Bit
  <2>2. ASSUME NEW p \in S PROVE Bit(p) \in IntBits(S)
    BY <1>2 DEF IntBits, PortBits, Bit
  <2>3. QED BY <2>1, <2>2
<1>3. QED BY <1>1, <1>2

LEMMA IntBitsOne ==
  ASSUME NEW p \in PortBits
  PROVE  IntBits({p}) = {Bit(p)}
BY IntBitsOf

\* The flags of other pins are other flags.
LEMMA IntBitsApart ==
  ASSUME NEW p \in PortBits, NEW S \in SUBSET PortBits, p \notin S
  PROVE  IntBits({p}) \intersect IntBits(S) = {}
BY IntBitsOf, IntBitsOne, BitIsOwn

\* The flags that hal_gpio_int_flag_port_get returns are of pins of the port.
LEMMA FlagsAreBits ==
  INT_IF \subseteq 0 .. 15 => hal_gpio_int_flag_port_get \subseteq PortBits
<1> SUFFICES ASSUME INT_IF \subseteq 0 .. 15,
                    NEW p \in hal_gpio_int_flag_port_get
             PROVE  p \in PortBits
  OBVIOUS
<1>1. CASE port = "A"
  BY <1>1 DEF hal_gpio_int_flag_port_get, PortBits
<1>2. CASE port # "A"
  BY <1>2 DEF hal_gpio_int_flag_port_get, PortBits
<1>3. QED BY <1>1, <1>2

-----------------------------------------------------------------------------
LEMMA PinInitInv == PinsInit => PinInv
<1> SUFFICES ASSUME PinsInit PROVE PinInv
  OBVIOUS
<1>1. PinTypeOK /\ EventReported
  BY DEF PinsInit, PinTypeOK, EventReported
<1>2. TriggerAsAsked
  BY DEF PinsInit, TriggerAsAsked, NoTrigger
<1>3. QED BY <1>1, <1>2 DEF PinInv

-----------------------------------------------------------------------------
(* The calls that write the output register.                               *)

\* They need only care for the bits of pins with an interrupt.
LEMMA OutputInv ==
  ASSUME PinInv, OutputCall,
         \A q \in Pin : trigger[q].on =>
           (q \in OUT' <=> trigger[q].high \/ q \in swept')
  PROVE  PinInv'
<1>1. /\ port' = port /\ INT_EN' = INT_EN /\ INT_MODE' = INT_MODE
      /\ INT_IF' = INT_IF /\ irq' = irq /\ int_pins' = int_pins
      /\ trigger' = trigger /\ unseen' = unseen
  BY DEF OutputCall
<1>2. PinTypeOK' /\ EventReported'
  BY <1>1 DEF PinInv, PinTypeOK, PortBits, Pin, EventReported, IntBits
<1>3. TriggerAsAsked'
  BY <1>1 DEF PinInv, TriggerAsAsked, Enabled, Edge, IntBits, Pin
<1>4. QED BY <1>2, <1>3 DEF PinInv

\* A write that leaves those bits.
LEMMA KeptOutputInv ==
  ASSUME PinInv, OutputCall, swept' = swept,
         \A q \in Pin : trigger[q].on => (q \in OUT' <=> q \in OUT)
  PROVE  PinInv'
BY OutputInv DEF PinInv, TriggerAsAsked

LEMMA ConfigureInv ==
  ASSUME PinInv, NEW p \in Pin, NEW f \in Flags, gpio_pin_configure(p, f)
  PROVE  PinInv'
<1> DEFINE init == IF f.logical /\ f.active_low THEN Opposite(f.init) ELSE f.init
<1>1. /\ OutputCall /\ gpio_wch_pin_configure(p, f, init) /\ swept' = swept
      /\ f.init # "no" => ~trigger[p].on
  BY DEF gpio_pin_configure
<1>2. f.init = "no" => init = "no"
  BY DEF Opposite
<1> HIDE DEF init
<1>3. \/ OUT' = OUT
      \/ init # "no" /\ OUT' \in {OUT \union {p}, OUT \ {p}}
  BY <1>1 DEF gpio_wch_pin_configure, hal_gpio_pins_set, hal_gpio_pins_reset
<1>4. \A q \in Pin : trigger[q].on => (q \in OUT' <=> q \in OUT)
  BY <1>1, <1>2, <1>3
<1>5. QED BY <1>1, <1>4, KeptOutputInv

LEMMA WriteInv ==
  ASSUME PinInv, NEW pins \in SUBSET Pin, NEW high \in BOOLEAN,
         \/ Output(pins, high) \/ gpio_port_toggle_bits(pins)
  PROVE  PinInv'
<1>1. OutputCall /\ swept' = swept /\ \A q \in pins : ~trigger[q].on
  BY DEF Output, gpio_port_toggle_bits
<1>2. OUT' \in {OUT \union pins, OUT \ pins, (OUT \ pins) \union (pins \ OUT)}
  BY DEF Output, gpio_port_toggle_bits, hal_gpio_pins_set, hal_gpio_pins_reset,
         hal_gpio_pins_invert
<1>3. \A q \in Pin : trigger[q].on => (q \in OUT' <=> q \in OUT)
  BY <1>1, <1>2
<1>4. QED BY <1>1, <1>3, KeptOutputInv

LEMMA MaskedInv ==
  ASSUME PinInv, NEW mask, NEW value, gpio_port_set_masked_raw(mask, value)
  PROVE  PinInv'
<1>1. /\ OutputCall /\ \A q \in mask : ~trigger[q].on
      /\ OUT' = OUT \union (mask \intersect value) \union (hal_gpio_port_get \ mask)
      /\ swept' = swept \union {q \in (level \ DIR) \ mask : trigger[q].on}
  BY DEF gpio_port_set_masked_raw, hal_gpio_pins_set
<1>2. ASSUME NEW q \in Pin, trigger[q].on
      PROVE  q \in OUT' <=> trigger[q].high \/ q \in swept'
  <2>1. q \notin mask
    BY <1>1, <1>2
  <2>2. q \in OUT' <=> q \in OUT \/ q \in level \ DIR
    BY <1>1, <2>1 DEF hal_gpio_port_get
  <2>3. q \in swept' <=> q \in swept \/ q \in level \ DIR
    BY <1>1, <1>2, <2>1
  <2>4. q \in OUT <=> trigger[q].high \/ q \in swept
    BY <1>2 DEF PinInv, TriggerAsAsked
  <2>5. QED BY <2>2, <2>3, <2>4
<1>3. QED BY <1>1, <1>2, OutputInv

-----------------------------------------------------------------------------
(* The interrupts.                                                         *)

\* Another pin's flag, enable and mode are left alone.
LEMMA InterruptConfigureInv ==
  ASSUME PinInv, NEW p \in Pin, NEW mode, NEW trig, NEW logical \in BOOLEAN,
         gpio_pin_interrupt_configure(p, mode, trig, logical)
  PROVE  PinInv'
<1> DEFINE t == IF logical /\ p \in invert THEN Opposite(trig) ELSE trig
<1>0. /\ port' = port /\ irq = "off" /\ irq' = "off" /\ int_pins' = int_pins
      /\ unseen' = unseen \ {p} /\ swept' = swept \ {p}
      /\ gpio_wch_pin_interrupt_configure(p, mode, t)
  BY DEF gpio_pin_interrupt_configure
<1> HIDE DEF t
<1>1. Pin' = Pin /\ PortBits' = PortBits /\ \A S : IntBits(S)' = IntBits(S)
  BY <1>0 DEF Pin, PortBits, IntBits
<1>2. Pin \subseteq PortBits /\ DOMAIN trigger = Pin
  BY PinsArePortBits DEF PinInv, PinTypeOK
<1>3. IntBits({p}) # {} /\ \A q \in Pin \ {p} : IntBits({q}) \intersect IntBits({p}) = {}
  BY <1>2, IntBitsOne, IntBitsApart
<1>4. /\ INT_IF' \in {INT_IF, INT_IF \ IntBits({p})}
      /\ DOMAIN trigger' = Pin /\ \A q \in Pin \ {p} : trigger'[q] = trigger[q]
  BY <1>0, <1>2 DEF gpio_wch_pin_interrupt_configure, hal_gpio_int_mode_config
<1>5. PinTypeOK'
  BY <1>0, <1>1, <1>4 DEF PinInv, PinTypeOK
<1>6. EventReported'
  BY <1>0, <1>1, <1>3, <1>4 DEF PinInv, PinTypeOK, EventReported
<1>7. ASSUME NEW q \in Pin, trigger'[q].on, q # p
      PROVE  /\ Enabled(q)' /\ Edge(q)' = trigger'[q].edge
             /\ q \in OUT' <=> trigger'[q].high \/ q \in swept'
  <2>0. gpio_wch_pin_interrupt_configure(p, mode, t)
    BY <1>0
  <2>1. /\ Enabled(q)' = Enabled(q) /\ Edge(q)' = Edge(q)
        /\ q \in OUT' <=> q \in OUT
        /\ trigger'[q] = trigger[q]
    <3>1. Enabled(q)' = Enabled(q) /\ Edge(q)' = Edge(q)
      BY <2>0, <1>1, <1>3, <1>7
         DEF gpio_wch_pin_interrupt_configure, hal_gpio_int_mode_config,
             hal_gpio_int_pins_disable, Enabled, Edge
    <3>2. q \in OUT' <=> q \in OUT
      BY <2>0, <1>7
         DEF gpio_wch_pin_interrupt_configure, hal_gpio_int_mode_config,
             hal_gpio_pins_set, hal_gpio_pins_reset
    <3>3. QED BY <1>4, <1>7, <3>1, <3>2
  <2>2. q \in swept' <=> q \in swept
    BY <1>0, <1>7
  <2>3. /\ Enabled(q) /\ Edge(q) = trigger[q].edge
        /\ q \in OUT <=> trigger[q].high \/ q \in swept
    BY <1>7, <2>1 DEF PinInv, TriggerAsAsked
  <2>4. QED BY <2>1, <2>2, <2>3, Zenon
<1>8. ASSUME trigger'[p].on
      PROVE  /\ Enabled(p)' /\ Edge(p)' = trigger'[p].edge
             /\ p \in OUT' <=> trigger'[p].high \/ p \in swept'
  <2>1. CASE mode = "disabled"
    <3>1. trigger'[p] = NoTrigger
      BY <1>0, <1>2, <2>1 DEF gpio_wch_pin_interrupt_configure
    <3>2. QED BY <1>8, <3>1 DEF NoTrigger
  <2>2. CASE mode # "disabled"
    <3>1. /\ hal_gpio_int_mode_config(p, mode = "edge", t = "high")
          /\ trigger'[p] = [edge |-> mode = "edge", high |-> t = "high", on |-> TRUE]
      BY <1>0, <1>2, <2>2 DEF gpio_wch_pin_interrupt_configure
    <3>2. Enabled(p)' /\ (Edge(p)' <=> mode = "edge")
      BY <1>1, <1>3, <3>1 DEF hal_gpio_int_mode_config, Enabled, Edge
    <3>3. p \in OUT' <=> t = "high"
      BY <3>1 DEF hal_gpio_int_mode_config, hal_gpio_pins_set, hal_gpio_pins_reset
    <3>4. trigger'[p].edge = (mode = "edge") /\ trigger'[p].high = (t = "high")
      BY <3>1
    <3>5. Edge(p)' = (mode = "edge")
      BY <3>2 DEF Edge
    <3>6. p \notin swept'
      BY <1>0
    <3>7. QED BY <3>2, <3>3, <3>4, <3>5, <3>6, Zenon
  <2>3. QED BY <2>1, <2>2
<1>9. TriggerAsAsked'
  BY <1>1, <1>7, <1>8 DEF TriggerAsAsked
<1>10. QED BY <1>5, <1>6, <1>9 DEF PinInv

-----------------------------------------------------------------------------
(* The hardware and the handler.                                           *)

\* Steps that leave the configuration alone keep the triggers.
LEMMA TriggersKept ==
  ASSUME PinInv, UNCHANGED <<port, OUT, INT_EN, INT_MODE, trigger, swept>>
  PROVE  TriggerAsAsked' /\ Pin' = Pin /\ PortBits' = PortBits
         /\ \A S : IntBits(S)' = IntBits(S)
<1>1. Pin' = Pin /\ PortBits' = PortBits /\ \A S : IntBits(S)' = IntBits(S)
  BY DEF Pin, PortBits, IntBits
<1>2. QED BY <1>1 DEF PinInv, TriggerAsAsked, Enabled, Edge

LEMMA EventInv ==
  ASSUME PinInv, NEW p \in Pin, Change(p) \/ LevelReached(p)
  PROVE  PinInv'
<1>1. /\ UNCHANGED <<port, OUT, INT_EN, INT_MODE, trigger, swept>>
      /\ irq' = irq /\ int_pins' = int_pins
      /\ \/ INT_IF' = INT_IF /\ unseen' = unseen
         \/ INT_IF' = INT_IF \union IntBits({p}) /\ unseen' = unseen \union {p}
  BY DEF Change, LevelReached, Occurs
<1>2. /\ TriggerAsAsked' /\ Pin' = Pin /\ PortBits' = PortBits
      /\ \A S : IntBits(S)' = IntBits(S)
  BY <1>1, TriggersKept
<1>3. IntBits({p}) \subseteq 0 .. 15
  BY DEF IntBits
<1>4. PinTypeOK'
  BY <1>1, <1>2, <1>3 DEF PinInv, PinTypeOK
<1>5. EventReported'
  BY <1>1, <1>2 DEF PinInv, EventReported
<1>6. QED BY <1>2, <1>4, <1>5 DEF PinInv

\* A flag that is cleared is of a pin that the handler has read.
LEMMA PortHandlerInv ==
  ASSUME PinInv, GetFlags \/ ClearFlags \/ FireCallbacks
  PROVE  PinInv'
<1>1. UNCHANGED <<port, OUT, INT_EN, INT_MODE, trigger, swept>>
  BY DEF GetFlags, ClearFlags, FireCallbacks, PortHandler
<1>2. /\ TriggerAsAsked' /\ Pin' = Pin /\ PortBits' = PortBits
      /\ \A S : IntBits(S)' = IntBits(S)
  BY <1>1, TriggersKept
<1>3. CASE GetFlags
  <2>1. /\ irq = "off" /\ INT_IF' = INT_IF /\ unseen' = unseen
        /\ int_pins' = hal_gpio_int_flag_port_get
    BY <1>3 DEF GetFlags, PortHandler
  <2>2. PinTypeOK'
    BY <1>1, <1>2, <2>1, FlagsAreBits DEF PinInv, PinTypeOK
  <2>3. EventReported'
    BY <1>2, <2>1 DEF PinInv, EventReported
  <2>4. QED BY <1>2, <2>2, <2>3 DEF PinInv
<1>4. CASE ClearFlags
  <2>1. /\ irq' = "fire" /\ INT_IF' = INT_IF \ IntBits(int_pins)
        /\ int_pins' = int_pins /\ unseen' = unseen
    BY <1>4 DEF ClearFlags, PortHandler, hal_gpio_int_flag_pins_clear
  <2>2. PinTypeOK'
    BY <1>1, <1>2, <2>1 DEF PinInv, PinTypeOK
  <2>3. ASSUME NEW p \in unseen, p \notin int_pins
        PROVE  IntBits({p}) \subseteq INT_IF'
    <3>1. p \in PortBits /\ int_pins \subseteq PortBits
      BY PinsArePortBits DEF PinInv, PinTypeOK
    <3>2. IntBits({p}) \subseteq INT_IF
      BY <2>3 DEF PinInv, EventReported
    <3>3. QED BY <2>1, <2>3, <3>1, <3>2, IntBitsApart
  <2>4. EventReported'
    BY <1>2, <2>1, <2>3 DEF EventReported
  <2>5. QED BY <1>2, <2>2, <2>4 DEF PinInv
<1>5. CASE FireCallbacks
  <2>1. unseen' = unseen \ int_pins /\ int_pins' = {} /\ INT_IF' = INT_IF
    BY <1>5 DEF FireCallbacks
  <2>2. PinTypeOK'
    BY <1>1, <1>2, <2>1 DEF PinInv, PinTypeOK
  <2>3. EventReported'
    BY <1>2, <2>1 DEF PinInv, EventReported
  <2>4. QED BY <1>2, <2>2, <2>3 DEF PinInv
<1>6. QED BY <1>3, <1>4, <1>5

-----------------------------------------------------------------------------
LEMMA PinNextInv == PinInv /\ [PinsNext]_pinVars => PinInv'
<1> SUFFICES ASSUME PinInv, [PinsNext]_pinVars PROVE PinInv'
  OBVIOUS
<1>1. CASE UNCHANGED pinVars
  <2>1. /\ TriggerAsAsked' /\ Pin' = Pin /\ PortBits' = PortBits
        /\ \A S : IntBits(S)' = IntBits(S)
    BY <1>1, TriggersKept DEF pinVars
  <2>2. QED BY <1>1, <2>1 DEF pinVars, PinInv, PinTypeOK, EventReported
<1>2. ASSUME NEW p \in Pin, NEW f \in Flags, gpio_pin_configure(p, f)
      PROVE  PinInv'
  BY <1>2, ConfigureInv
<1>3. ASSUME NEW p \in Pin, NEW value \in BOOLEAN, gpio_pin_set(p, value)
      PROVE  PinInv'
  <2> DEFINE high == IF p \in invert THEN ~value ELSE value
  <2>1. Output({p}, high) /\ high \in BOOLEAN /\ {p} \in SUBSET Pin
    BY <1>3 DEF gpio_pin_set
  <2> HIDE DEF high
  <2>2. QED BY <2>1, WriteInv
<1>4. ASSUME NEW p \in Pin, NEW mode, NEW trig, NEW logical \in BOOLEAN,
             gpio_pin_interrupt_configure(p, mode, trig, logical)
      PROVE  PinInv'
  BY <1>4, InterruptConfigureInv
<1>5. ASSUME NEW p \in Pin, Change(p) \/ LevelReached(p)
      PROVE  PinInv'
  BY <1>5, EventInv
<1>6. ASSUME NEW pins \in SUBSET Pin, NEW high \in BOOLEAN,
             Output(pins, high) \/ gpio_port_toggle_bits(pins)
      PROVE  PinInv'
  BY <1>6, WriteInv
<1>7. ASSUME NEW pins \in SUBSET Pin, NEW value \in SUBSET Pin,
             \/ gpio_port_set_masked_raw(pins, value)
             \/ gpio_port_set_masked(pins, value)
      PROVE  PinInv'
  BY <1>7, MaskedInv DEF gpio_port_set_masked
<1>8. CASE GetFlags \/ ClearFlags \/ FireCallbacks
  BY <1>8, PortHandlerInv
<1>9. QED
  BY <1>1, <1>2, <1>3, <1>4, <1>5, <1>6, <1>7, <1>8 DEF PinsNext

LEMMA PinAlways == PinsSpec => []PinInv
BY PinInitInv, PinNextInv, PTL DEF PinsSpec

(***************************************************************************)
(* No interrupt at a pin is forgotten, whatever pins the port has: the     *)
(* handler clears only flags of pins that it calls the callbacks for, also *)
(* when the interrupt occurs between its reading and its clearing          *)
(* (gpio.c:28-50).                                                         *)
(***************************************************************************)
THEOREM EventsReported == PinsSpec => []EventReported
<1>1. PinInv => EventReported
  BY DEF PinInv
<1>2. QED BY <1>1, PinAlways, PTL

(***************************************************************************)
(* The interrupt that was configured for a pin keeps its enable, its mode  *)
(* and its level or edge, whatever is configured and written at other      *)
(* pins, except that a masked write turns a low or falling trigger of a    *)
(* pin that is high around (ch58x_hal_gpio.c:41-94, gpio.c:89-102).        *)
(***************************************************************************)
THEOREM TriggersAsAsked == PinsSpec => []TriggerAsAsked
<1>1. PinInv => TriggerAsAsked
  BY DEF PinInv
<1>2. QED BY <1>1, PinAlways, PTL

-----------------------------------------------------------------------------
(* Adc.                                                                    *)

\* The request that the driver works on.
Serving == app # None \/ bpc = "wait"
Cur == IF bpc = "wait" THEN TempSeq ELSE app

AdcTypeOK ==
  /\ DOMAIN hw = {"channel", "gain", "diff", "temp"}
  /\ conv \in {"idle", "busy", "eoc"}
  /\ rpc \in {"none", "channel", "buffer", "context", "start"}
  /\ bpc \in {"off", "wait"}
  /\ app \in AppSeq \union {None}
  /\ status \in {0, 1} /\ sampling_index \in Nat
  /\ DOMAIN buf = 0 .. BufLen - 1

\* A call of adc_wch_read, up to the start of the first sampling.
InCall ==
  /\ Serving /\ call = Cur
  /\ bpc = "off" => early = FALSE
  /\ status = IF rpc = "start" THEN 1 ELSE 0
  /\ rpc # "channel" => check_buffer_size(call) /\ hw.channel = call.channel
  /\ rpc \in {"context", "start"} => buffer = Place(call.who, 0)
  /\ rpc = "start" => /\ options = call.options
                      /\ call.options = TRUE => extra = call.extra /\ sampling_index = 0

\* The samplings taken so far.
Taken == IF options = TRUE THEN sampling_index ELSE 0

\* A sampling: it goes to the place behind the samples that have been taken.
InSampling ==
  /\ Serving /\ status = 1
  /\ check_buffer_size(Cur) /\ hw.channel = Cur.channel
  /\ options = Cur.options
  /\ options = TRUE => extra = Cur.extra /\ sampling_index =< extra
  /\ buffer = Place(Cur.who, Taken) /\ repeat_buffer = buffer
  /\ conv = "eoc" => sample = hw.channel
  /\ bpc = "off" => /\ early = FALSE
                    /\ \A i \in 0 .. Taken - 1 : buf[i] = app.channel

Written == \A i \in 0 .. app.extra : buf[i] = app.channel

Work ==
  /\ AdcTypeOK
  /\ bpc = "wait" => app = None
  /\ call = None <=> rpc = "none"
  /\ rpc # "none" => conv = "idle" /\ InCall
  /\ conv # "idle" => InSampling
  /\ rpc = "none" /\ conv = "idle" => status = 0
  /\ ~SUPPORT_INTERRUPT => conv = "idle" /\ rpc \notin {"context", "start"}
  /\ SUPPORT_INTERRUPT /\ app # None /\ bpc = "off" /\ rpc = "none"
       /\ conv = "idle" /\ early = FALSE => Written

\* What is so even while reads overlap: the driver is free when the next read
\* of the application begins.
AdcBase ==
  /\ AdcTypeOK
  /\ call = None <=> rpc = "none"
  /\ bpc = "off" /\ rpc # "none" => app # None
  /\ bpc = "off" /\ (app = None \/ rpc \in {"channel", "buffer", "context"})
       => status = 0
  /\ ~SUPPORT_INTERRUPT =>
       conv = "idle" /\ status = 0 /\ rpc \notin {"context", "start"}

\* The inductive invariant.
AdcInv == AdcBase /\ (~overlap => Work)

-----------------------------------------------------------------------------
\* What requests are.
LEMMA RequestFacts ==
  /\ \A seq \in AppSeq :
       /\ seq # None /\ seq.who = "app" /\ seq.channel \in Channels
       /\ seq.options \in BOOLEAN /\ seq.extra \in 0 .. MaxExtra
       /\ seq.options = FALSE => seq.extra = 0
  /\ TempSeq # None /\ TempSeq.who = "ble" /\ TempSeq.options = FALSE
  /\ TempSeq.extra = 0 /\ TempSeq.channel = CH_INT_VTEMP
<1>1. ASSUME NEW seq \in AppSeq
      PROVE  /\ seq # None /\ seq.who = "app" /\ seq.channel \in Channels
             /\ seq.options \in BOOLEAN /\ seq.extra \in 0 .. MaxExtra
             /\ seq.options = FALSE => seq.extra = 0
  <2>1. seq # None
    BY NoneAssumption
  <2>2. CASE seq \in [who : {"app"}, channel : Channels, options : {TRUE},
                      extra : 0 .. MaxExtra]
    <3>1. seq.options = TRUE
      BY <2>2
    <3>2. ~(seq.options = FALSE) /\ seq.options \in BOOLEAN
      BY <3>1, Zenon
    <3>3. QED BY <2>1, <2>2, <3>2
  <2>3. CASE seq \in [who : {"app"}, channel : Channels, options : {FALSE},
                      extra : {0}]
    <3>1. seq.options \in {FALSE} /\ seq.extra = 0
      BY <2>3
    <3>2. seq.options \in BOOLEAN
      BY <3>1, Zenon
    <3>3. 0 \in 0 .. MaxExtra
      BY AdcAssumption
    <3>4. QED BY <2>1, <2>3, <3>1, <3>2, <3>3
  <2>4. QED BY <2>2, <2>3 DEF AppSeq
<1>2. TempSeq # None
  BY NoneAssumption
<1>3. QED BY <1>1, <1>2 DEF TempSeq

\* The size that check_buffer_size compares with is that of all samplings.
LEMMA SizeChecked ==
  /\ \A seq \in AppSeq : check_buffer_size(seq) => seq.extra < BufLen
  /\ check_buffer_size(TempSeq)
<1>1. ASSUME NEW seq \in AppSeq, check_buffer_size(seq) PROVE seq.extra < BufLen
  <2>1. /\ seq.who = "app" /\ seq.extra \in 0 .. MaxExtra
        /\ seq.options \in BOOLEAN /\ (seq.options = FALSE => seq.extra = 0)
    BY RequestFacts
  <2>2. CASE seq.options = TRUE
    BY <1>1, <2>1, <2>2, AdcAssumption DEF check_buffer_size, Room
  <2>3. CASE seq.options = FALSE
    BY <2>1, <2>3, AdcAssumption
  <2>4. QED BY <2>1, <2>2, <2>3
<1>2. check_buffer_size(TempSeq)
  BY RequestFacts DEF check_buffer_size, Room
<1>3. QED BY <1>1, <1>2

\* A store writes one element of the buffer of the application, if any.
LEMMA StoreWrites ==
  ASSUME NEW w, NEW i \in Nat, NEW s, Store(Place(w, i), s),
         DOMAIN buf = 0 .. BufLen - 1
  PROVE  /\ DOMAIN buf' = 0 .. BufLen - 1
         /\ \A k \in 0 .. BufLen - 1 : k # i => buf'[k] = buf[k]
         /\ w = "app" /\ i < BufLen => buf'[i] = s
BY AdcAssumption DEF Store, Place

LEMMA AdcInitInv == AdcInit => AdcInv
<1> SUFFICES ASSUME AdcInit PROVE AdcInv
  OBVIOUS
<1>1. AdcTypeOK
  BY DEF AdcInit, AdcTypeOK
<1>2. QED BY <1>1 DEF AdcInit, Work, AdcBase, AdcInv

\* A set-up leaves a record of settings.
LEMMA SettingsKept ==
  ASSUME DOMAIN hw = {"channel", "gain", "diff", "temp"}, NEW cfg
  PROVE  DOMAIN SetUp(cfg) = {"channel", "gain", "diff", "temp"}
BY Zenon DEF SetUp

-----------------------------------------------------------------------------
(* The steps, whatever overlaps.                                           *)

LEMMA AdcReadBase ==
  ASSUME AdcBase, ReadCall
  PROVE  AdcBase'
<1>1. CASE ReadChannel
  <2>1. DOMAIN hw' = {"channel", "gain", "diff", "temp"}
    BY <1>1 DEF ReadChannel, AdcBase, AdcTypeOK
  <2>2. QED
    BY <1>1, <2>1 DEF ReadChannel, AdcBase, AdcTypeOK, ctxVars, bleVars
<1>2. CASE ReadBuffer
  <2>1. DOMAIN buf' = 0 .. BufLen - 1
    BY <1>2 DEF ReadBuffer, AdcBase, AdcTypeOK, Store
  <2>2. QED BY <1>2, <2>1 DEF ReadBuffer, AdcBase, AdcTypeOK, ctxVars
<1>3. CASE adc_context_start_read
  BY <1>3 DEF adc_context_start_read, AdcBase, AdcTypeOK, appVars, bleVars
<1>4. CASE adc_context_start_sampling
  BY <1>4 DEF adc_context_start_sampling, AdcBase, AdcTypeOK, ctxVars, appVars,
     bleVars
<1>5. QED BY <1>1, <1>2, <1>3, <1>4 DEF ReadCall

LEMMA AdcHandlerBase ==
  ASSUME AdcBase, ADC_IRQHandler
  PROVE  AdcBase'
<1>1. DOMAIN buf' = 0 .. BufLen - 1
  BY DEF ADC_IRQHandler, AdcBase, AdcTypeOK, Store
<1>2. /\ UNCHANGED <<hw, call, rpc, app, bpc>> /\ conv = "eoc"
      /\ OnContinue \/ OnRepeat \/ OnFinish
  BY DEF ADC_IRQHandler
<1>3. /\ status' \in {0, status} /\ conv' \in {"idle", "busy"}
      /\ sampling_index' \in {sampling_index, sampling_index + 1}
  BY <1>2 DEF OnContinue, OnRepeat, OnFinish, Complete, Resample
<1>4. QED BY <1>1, <1>2, <1>3 DEF AdcBase, AdcTypeOK

LEMMA AdcTurnBase ==
  ASSUME AdcBase, (\E cfg \in Cfg : AppSetup(cfg)) \/ Convert \/ AppReadDone
                  \/ BleRead \/ BleReadDone
  PROVE  AdcBase'
<1>1. ASSUME NEW cfg \in Cfg, AppSetup(cfg) PROVE AdcBase'
  <2>1. DOMAIN hw' = {"channel", "gain", "diff", "temp"}
    BY <1>1, SettingsKept DEF AppSetup, AdcBase, AdcTypeOK
  <2>2. /\ conv' \in {"idle", "busy", "eoc"}
        /\ ~SUPPORT_INTERRUPT => conv' \in {conv, "idle"}
    BY <1>1 DEF AppSetup, AdcBase, AdcTypeOK
  <2>3. UNCHANGED <<status, sampling_index, call, rpc, app, buf, bpc>>
    BY <1>1 DEF AppSetup, ctxVars, bleVars
  <2>4. QED BY <2>1, <2>2, <2>3 DEF AdcBase, AdcTypeOK
<1>2. CASE Convert
  BY <1>2 DEF Convert, AdcBase, AdcTypeOK, ctxVars, appVars, bleVars
<1>3. CASE AppReadDone
  BY <1>3 DEF AppReadDone, MainLoop, Completed, AdcBase, AdcTypeOK, ctxVars,
     bleVars
<1>4. CASE BleRead
  <2>1. DOMAIN hw' = {"channel", "gain", "diff", "temp"}
    BY <1>4, SettingsKept DEF BleRead, AdcBase, AdcTypeOK
  <2>2. bpc' = "wait" /\ call' = TempSeq /\ rpc' = "channel"
        /\ UNCHANGED <<conv, status, sampling_index, app, buf>>
    BY <1>4 DEF BleRead, ctxVars, appVars
  <2>3. QED BY <2>1, <2>2, RequestFacts DEF AdcBase, AdcTypeOK
<1>5. CASE BleReadDone
  <2>1. DOMAIN hw' = {"channel", "gain", "diff", "temp"}
    BY <1>5, SettingsKept DEF BleReadDone, AdcBase, AdcTypeOK
  <2>2. MainLoop /\ Completed /\ bpc' = "off"
        /\ UNCHANGED <<conv, status, sampling_index, call, rpc, app, buf>>
    BY <1>5 DEF BleReadDone, ctxVars, appVars
  <2>3. QED BY <2>1, <2>2 DEF MainLoop, Completed, AdcBase, AdcTypeOK
<1>6. QED BY <1>1, <1>2, <1>3, <1>4, <1>5

\* A read that finds the converter idle starts afresh.
LEMMA AdcAppRead ==
  ASSUME AdcBase, NEW seq \in AppSeq, AppRead(seq)
  PROVE  /\ AdcBase'
         /\ conv = "idle" => Work'
<1>1. /\ conv # "eoc" /\ call = None /\ bpc = "off" /\ app = None
      /\ app' = seq /\ call' = seq /\ rpc' = "channel" /\ early' = FALSE
      /\ buf' = [i \in 0 .. BufLen - 1 |-> None]
      /\ UNCHANGED <<hw, conv, sample, buffer, repeat_buffer, status, options,
                     extra, sampling_index, bpc>>
  BY DEF AppRead, MainLoop, Running, ctxVars, bleVars
<1>2. rpc = "none" /\ status = 0
  BY <1>1 DEF AdcBase
<1>3. AdcTypeOK'
  BY <1>1 DEF AdcBase, AdcTypeOK
<1>4. InCall' /\ call' # None
  BY <1>1, <1>2, RequestFacts DEF InCall, Serving, Cur
<1>5. AdcBase'
  BY <1>1, <1>2, <1>3, RequestFacts DEF AdcBase
<1>6. conv = "idle" => Work'
  BY <1>1, <1>2, <1>3, <1>4 DEF Work
<1>7. QED BY <1>5, <1>6

-----------------------------------------------------------------------------
(* The steps, as long as no two reads overlap.                             *)

LEMMA SetupInv ==
  ASSUME Work, TRUE \notin Calibrate, NEW cfg \in Cfg, AppSetup(cfg)
  PROVE  Work'
<1>0. ~cfg.calibrate
  <2>1. cfg.calibrate \in Calibrate
    BY DEF Cfg
  <2>2. QED BY <2>1, AdcAssumption, Zenon
<1>1. /\ conv # "eoc" /\ call = None /\ bpc = "off" /\ app = None
      /\ hw' = SetUp(cfg)
      /\ UNCHANGED <<conv, sample, buffer, repeat_buffer, status, options, extra,
                     sampling_index, call, rpc, app, buf, early, bpc>>
  BY <1>0 DEF AppSetup, MainLoop, Running, ctxVars, bleVars
<1>2. rpc = "none" /\ conv = "idle"
  BY <1>1 DEF Work, AdcTypeOK, InSampling, Serving
<1>3. DOMAIN hw' = {"channel", "gain", "diff", "temp"}
  BY <1>1, SettingsKept DEF Work, AdcTypeOK
<1>4. AdcTypeOK'
  BY <1>1, <1>3 DEF Work, AdcTypeOK
<1>5. QED BY <1>1, <1>2, <1>4 DEF Work

LEMMA ReadChannelInv ==
  ASSUME Work, ReadChannel
  PROVE  Work'
<1>1. /\ rpc = "channel" /\ hw' = [hw EXCEPT !.channel = call.channel]
      /\ \/ /\ check_buffer_size(call) /\ rpc' = "buffer"
            /\ call' = call /\ app' = app
         \/ ~check_buffer_size(call) /\ rpc' = "none" /\ call' = None /\ app' = None
      /\ UNCHANGED <<conv, sample, buffer, repeat_buffer, status, options, extra,
                     sampling_index, buf, early, bpc>>
  BY DEF ReadChannel, ctxVars, bleVars
<1>2. conv = "idle" /\ InCall /\ call # None
  BY <1>1 DEF Work
<1>3. DOMAIN hw' = {"channel", "gain", "diff", "temp"} /\ hw'.channel = call.channel
  BY <1>1 DEF Work, AdcTypeOK
<1>4. CASE check_buffer_size(call)
  <2>0. rpc' = "buffer" /\ call' = call /\ app' = app
    BY <1>1, <1>4
  <2>1. AdcTypeOK'
    BY <1>1, <1>3, <2>0 DEF Work, AdcTypeOK
  <2>2. check_buffer_size(call)'
    BY <1>4, <2>0 DEF check_buffer_size
  <2>3. InCall'
    BY <1>1, <1>2, <1>3, <2>0, <2>2 DEF InCall, Serving, Cur
  <2>4. QED BY <1>1, <1>2, <2>0, <2>1, <2>3 DEF Work
<1>5. CASE ~check_buffer_size(call)
  <2>1. AdcTypeOK'
    BY <1>1, <1>3, <1>5 DEF Work, AdcTypeOK
  <2>2. status = 0
    BY <1>1, <1>2 DEF InCall
  <2>3. QED BY <1>1, <1>2, <1>5, <2>1, <2>2 DEF Work
<1>6. QED BY <1>4, <1>5

LEMMA ReadBufferInv ==
  ASSUME Work, ReadBuffer
  PROVE  Work'
<1>1. /\ rpc = "buffer" /\ buffer' = Place(call.who, 0)
      /\ \/ /\ SUPPORT_INTERRUPT /\ rpc' = "context" /\ call' = call /\ buf' = buf
         \/ /\ ~SUPPORT_INTERRUPT /\ rpc' = "none" /\ call' = None
            /\ Store(Place(call.who, 0), sample)
      /\ UNCHANGED <<hw, conv, sample, repeat_buffer, status, options, extra,
                     sampling_index, app, early, bpc>>
  BY DEF ReadBuffer, ctxVars
<1>2. conv = "idle" /\ InCall /\ call # None
  BY <1>1 DEF Work
<1>3. CASE SUPPORT_INTERRUPT
  <2>0. rpc' = "context" /\ call' = call /\ buf' = buf
    BY <1>1, <1>3
  <2>1. AdcTypeOK'
    BY <1>1, <2>0 DEF Work, AdcTypeOK
  <2>2. check_buffer_size(call)'
    BY <1>1, <1>2, <2>0 DEF InCall, check_buffer_size
  <2>3. InCall'
    BY <1>1, <1>2, <2>0, <2>2 DEF InCall, Serving, Cur
  <2>4. QED BY <1>1, <1>2, <1>3, <2>0, <2>1, <2>3 DEF Work
<1>4. CASE ~SUPPORT_INTERRUPT
  <2>1. DOMAIN buf' = 0 .. BufLen - 1
    <3>1. Store(Place(call.who, 0), sample) /\ DOMAIN buf = 0 .. BufLen - 1
      BY <1>1, <1>4 DEF Work, AdcTypeOK
    <3>2. QED BY <3>1, StoreWrites
  <2>2. AdcTypeOK'
    BY <1>1, <1>4, <2>1 DEF Work, AdcTypeOK
  <2>3. status = 0
    BY <1>1, <1>2 DEF InCall
  <2>4. QED BY <1>1, <1>2, <1>4, <2>2, <2>3 DEF Work
<1>5. QED BY <1>3, <1>4

LEMMA StartReadInv ==
  ASSUME Work, adc_context_start_read
  PROVE  Work'
<1>1. /\ rpc = "context" /\ rpc' = "start" /\ status' = 1
      /\ options' = call.options
      /\ call.options = TRUE => extra' = call.extra /\ sampling_index' = 0
      /\ sampling_index' \in {0, sampling_index}
      /\ UNCHANGED <<hw, conv, sample, buffer, repeat_buffer, call, app, buf,
                     early, bpc>>
  BY DEF adc_context_start_read, appVars, bleVars
<1>2. conv = "idle" /\ InCall /\ call # None
  BY <1>1 DEF Work
<1>3. AdcTypeOK'
  BY <1>1 DEF Work, AdcTypeOK
<1>4. check_buffer_size(call)'
  BY <1>1, <1>2 DEF InCall, check_buffer_size
<1>5. InCall'
  BY <1>1, <1>2, <1>4 DEF InCall, Serving, Cur
<1>6. QED BY <1>1, <1>2, <1>3, <1>5 DEF Work

\* The call ends; the request stays with the driver.
LEMMA StartSamplingInv ==
  ASSUME Work, adc_context_start_sampling
  PROVE  Work'
<1>1. /\ rpc = "start" /\ rpc' = "none" /\ call' = None /\ conv' = "busy"
      /\ repeat_buffer' = buffer
      /\ UNCHANGED <<hw, sample, buffer, status, options, extra, sampling_index,
                     app, buf, early, bpc>>
  BY DEF adc_context_start_sampling, ctxVars, appVars, bleVars
<1>2. conv = "idle" /\ InCall /\ call # None /\ SUPPORT_INTERRUPT
  BY <1>1 DEF Work
<1>3. AdcTypeOK'
  BY <1>1 DEF Work, AdcTypeOK
<1>4. call = Cur /\ Cur' = Cur /\ Cur \in AppSeq \union {TempSeq}
  BY <1>1, <1>2 DEF InCall, Serving, Cur, Work, AdcTypeOK
<1>5. Cur.extra \in Nat
  BY <1>4, RequestFacts
<1>6. Taken = 0 /\ Taken' = 0
  BY <1>1, <1>2 DEF InCall, Taken
<1>7. check_buffer_size(Cur)'
  BY <1>1, <1>2, <1>4 DEF InCall, check_buffer_size
<1>8. InSampling'
  BY <1>1, <1>2, <1>4, <1>5, <1>6, <1>7 DEF InCall, InSampling, Serving
<1>9. QED BY <1>1, <1>2, <1>3, <1>8 DEF Work

LEMMA ConvertInv ==
  ASSUME Work, Convert
  PROVE  Work'
<1>1. /\ conv = "busy" /\ conv' = "eoc" /\ sample' = hw.channel
      /\ UNCHANGED <<hw, buffer, repeat_buffer, status, options, extra,
                     sampling_index, call, rpc, app, buf, early, bpc>>
  BY DEF Convert, ctxVars, appVars, bleVars
<1>2. InSampling /\ rpc = "none" /\ SUPPORT_INTERRUPT
  BY <1>1 DEF Work
<1>3. AdcTypeOK'
  BY <1>1 DEF Work, AdcTypeOK
<1>4. Cur' = Cur /\ Taken' = Taken
  BY <1>1 DEF Cur, Taken
<1>5. check_buffer_size(Cur)'
  BY <1>2, <1>4 DEF InSampling, check_buffer_size
<1>6. InSampling'
  BY <1>1, <1>2, <1>4, <1>5 DEF InSampling, Serving
<1>7. QED BY <1>1, <1>2, <1>3, <1>6 DEF Work

\* A read that is completed has no conversion left.
LEMMA CompletedIsIdle ==
  ASSUME Work, MainLoop, Completed
  PROVE  rpc = "none" /\ conv = "idle"
BY DEF Work, AdcTypeOK, MainLoop, Running, Completed, InSampling

LEMMA AppReadDoneInv ==
  ASSUME Work, AppReadDone
  PROVE  Work'
<1>1. /\ MainLoop /\ Completed /\ bpc = "off" /\ app' = None
      /\ UNCHANGED <<hw, conv, sample, buffer, repeat_buffer, status, options,
                     extra, sampling_index, call, rpc, buf, early, bpc>>
  BY DEF AppReadDone, ctxVars, bleVars
<1>2. rpc = "none" /\ conv = "idle"
  BY <1>1, CompletedIsIdle
<1>3. AdcTypeOK'
  BY <1>1 DEF Work, AdcTypeOK
<1>4. QED BY <1>1, <1>2, <1>3 DEF Work

LEMMA BleReadInv ==
  ASSUME Work, BleRead, app = None
  PROVE  Work'
<1>1. /\ conv # "eoc" /\ call = None /\ bpc = "off" /\ bpc' = "wait"
      /\ call' = TempSeq /\ rpc' = "channel"
      /\ hw' = SetUp([channel_id |-> CH_INT_VTEMP, gain |-> "1/6",
                      default_time |-> TRUE, differential |-> FALSE,
                      calibrate |-> FALSE])
      /\ UNCHANGED <<conv, sample, buffer, repeat_buffer, status, options,
                     extra, sampling_index, app, buf, early>>
  BY DEF BleRead, MainLoop, Running, ctxVars, appVars
<1>2. rpc = "none" /\ conv = "idle" /\ status = 0
  BY <1>1 DEF Work, AdcTypeOK, InSampling, Serving
<1>3. DOMAIN hw' = {"channel", "gain", "diff", "temp"}
  BY <1>1, SettingsKept DEF Work, AdcTypeOK
<1>4. AdcTypeOK'
  BY <1>1, <1>3 DEF Work, AdcTypeOK
<1>5. InCall' /\ call' # None
  BY <1>1, <1>2, RequestFacts DEF InCall, Serving, Cur
<1>6. QED BY <1>1, <1>2, <1>4, <1>5 DEF Work

LEMMA BleReadDoneInv ==
  ASSUME Work, BleReadDone
  PROVE  Work'
<1>1. /\ MainLoop /\ Completed /\ bpc = "wait" /\ bpc' = "off"
      /\ hw' = SetUp(cfg_save)
      /\ UNCHANGED <<conv, sample, buffer, repeat_buffer, status, options,
                     extra, sampling_index, call, rpc, app, buf, early>>
  BY DEF BleReadDone, ctxVars, appVars
<1>2. rpc = "none" /\ conv = "idle" /\ app = None
  BY <1>1, CompletedIsIdle DEF Work, AdcTypeOK
<1>3. DOMAIN hw' = {"channel", "gain", "diff", "temp"}
  BY <1>1, SettingsKept DEF Work, AdcTypeOK
<1>4. AdcTypeOK'
  BY <1>1, <1>2, <1>3 DEF Work, AdcTypeOK
<1>5. QED BY <1>1, <1>2, <1>4 DEF Work

-----------------------------------------------------------------------------
(* The interrupt handler.                                                  *)

\* The handler finds the request and the place of its sample.
LEMMA SampleStored ==
  ASSUME Work, ADC_IRQHandler
  PROVE  /\ InSampling /\ rpc = "none" /\ SUPPORT_INTERRUPT
         /\ Cur \in AppSeq \union {TempSeq} /\ options \in BOOLEAN
         /\ bpc = "off" => Cur = app /\ app \in AppSeq
         /\ bpc # "off" => Cur = TempSeq
         /\ Taken \in Nat /\ Taken =< Cur.extra /\ Taken < Room(Cur.who)
         /\ buffer.who = Cur.who /\ buffer.index = Taken
         /\ DOMAIN buf' = 0 .. BufLen - 1
         /\ bpc = "off" => \A i \in 0 .. Taken : buf'[i] = app.channel
<1>1. conv = "eoc" /\ Store(buffer, sample)
  BY DEF ADC_IRQHandler
<1>2. InSampling /\ rpc = "none" /\ SUPPORT_INTERRUPT /\ sample = Cur.channel
  BY <1>1 DEF Work, InSampling
<1>3. /\ Cur \in AppSeq \union {TempSeq}
      /\ bpc = "off" => Cur = app /\ app \in AppSeq
      /\ bpc # "off" => Cur = TempSeq
  BY <1>2 DEF Work, AdcTypeOK, InSampling, Serving, Cur
<1>4. options \in BOOLEAN /\ Cur.extra \in Nat
  <2>1. Cur.options \in BOOLEAN
    BY <1>3, RequestFacts, Zenon
  <2>2. Cur.extra \in Nat
    BY <1>3, RequestFacts
  <2>3. QED BY <1>2, <2>1, <2>2, Zenon DEF InSampling
<1>5. Taken \in Nat /\ Taken =< Cur.extra
  BY <1>2, <1>4 DEF Work, AdcTypeOK, InSampling, Taken
<1>6. Taken < Room(Cur.who) /\ Taken < BufLen
  <2>1. CASE bpc = "off"
    <3>1. Cur.extra < BufLen /\ Room(Cur.who) = BufLen
      BY <1>2, <1>3, <2>1, SizeChecked, RequestFacts DEF InSampling, Room
    <3>2. QED BY <1>4, <1>5, <3>1, AdcAssumption
  <2>2. CASE bpc # "off"
    <3>1. Cur.extra = 0 /\ Room(Cur.who) = 1
      BY <1>3, <2>2, RequestFacts DEF Room
    <3>2. QED BY <1>5, <3>1, AdcAssumption
  <2>3. QED BY <2>1, <2>2
<1>7. buffer = Place(Cur.who, Taken)
  BY <1>2 DEF InSampling
<1>8. buffer.who = Cur.who /\ buffer.index = Taken
  BY <1>6, <1>7 DEF Place
<1>9. /\ DOMAIN buf' = 0 .. BufLen - 1
      /\ \A k \in 0 .. BufLen - 1 : k # Taken => buf'[k] = buf[k]
      /\ Cur.who = "app" /\ Taken < BufLen => buf'[Taken] = sample
  BY <1>1, <1>5, <1>7, StoreWrites DEF Work, AdcTypeOK
<1>10. ASSUME bpc = "off", NEW i \in 0 .. Taken
       PROVE  buf'[i] = app.channel
  <2>1. Cur = app /\ Cur.who = "app"
    BY <1>3, <1>10, RequestFacts
  <2>2. CASE i = Taken
    BY <1>2, <1>6, <1>9, <2>1, <2>2
  <2>3. CASE i # Taken
    <3>1. i \in 0 .. Taken - 1 /\ i \in 0 .. BufLen - 1
      BY <1>5, <1>6, <2>3, AdcAssumption
    <3>2. buf[i] = app.channel
      BY <1>2, <1>10, <3>1 DEF InSampling
    <3>3. QED BY <1>9, <2>3, <3>1, <3>2
  <2>4. QED BY <2>2, <2>3
<1>11. QED
  BY <1>2, <1>3, <1>4, <1>5, <1>6, <1>8, <1>9, <1>10

LEMMA AdcHandlerInv ==
  ASSUME Work, ADC_IRQHandler
  PROVE  Work'
<1>1. /\ UNCHANGED <<hw, sample, options, extra, call, rpc, app, bpc>>
      /\ OnContinue \/ OnRepeat \/ OnFinish
  BY DEF ADC_IRQHandler
<1>2. /\ InSampling /\ rpc = "none" /\ SUPPORT_INTERRUPT
      /\ Cur \in AppSeq \union {TempSeq} /\ options \in BOOLEAN
      /\ bpc = "off" => Cur = app /\ app \in AppSeq
      /\ bpc # "off" => Cur = TempSeq
      /\ Taken \in Nat /\ Taken =< Cur.extra
      /\ buffer.who = Cur.who /\ buffer.index = Taken
      /\ DOMAIN buf' = 0 .. BufLen - 1
      /\ bpc = "off" => \A i \in 0 .. Taken : buf'[i] = app.channel
  BY SampleStored
<1>3. Cur' = Cur /\ check_buffer_size(Cur)' /\ Cur.extra \in Nat
  BY <1>1, <1>2, RequestFacts DEF Cur, InSampling, check_buffer_size
<1>4. options = TRUE => bpc = "off" /\ Cur = app /\ Cur.who = "app"
  BY <1>2, RequestFacts DEF InSampling
<1>5. ASSUME status' = 0, conv' = "idle", sampling_index' = sampling_index,
             early' = TRUE \/ Taken = Cur.extra
      PROVE  Work'
  <2>1. AdcTypeOK'
    BY <1>1, <1>2, <1>5 DEF Work, AdcTypeOK
  <2>2. bpc = "off" /\ early' = FALSE => Written'
    BY <1>1, <1>2, <1>5 DEF Written
  <2>3. QED BY <1>1, <1>2, <1>5, <2>1, <2>2 DEF Work
<1>6. ASSUME conv' = "busy", status' = status, early' = early,
             repeat_buffer' = buffer', buffer' = Place(Cur.who, Taken'),
             Taken' \in 0 .. Taken + 1,
             sampling_index' \in Nat, options = TRUE => sampling_index' =< extra
      PROVE  Work'
  <2>1. AdcTypeOK'
    BY <1>1, <1>2, <1>6 DEF Work, AdcTypeOK
  <2>2. \A i \in 0 .. Taken' - 1 : bpc = "off" => buf'[i] = app.channel
    BY <1>2, <1>6
  <2>3. InSampling'
    BY <1>1, <1>2, <1>3, <1>6, <2>2 DEF InSampling, Serving
  <2>4. QED BY <1>1, <1>2, <1>6, <2>1, <2>3 DEF Work
<1>7. CASE OnContinue
  <2>1. CASE options = TRUE /\ sampling_index < extra
    <3>1. /\ sampling_index' = sampling_index + 1 /\ conv' = "busy"
          /\ buffer' = Place(buffer.who, buffer.index + 1)
          /\ repeat_buffer' = buffer' /\ status' = status /\ early' = early
      BY <1>7, <2>1 DEF OnContinue, Resample
    <3>2. Taken = sampling_index /\ Taken' = Taken + 1
      BY <1>1, <2>1, <3>1 DEF Taken
    <3>3. extra \in Nat /\ sampling_index \in Nat
      BY <1>2, <1>3, <2>1 DEF Work, AdcTypeOK, InSampling
    <3>4. QED BY <1>2, <1>6, <2>1, <3>1, <3>2, <3>3
  <2>2. CASE ~(options = TRUE /\ sampling_index < extra)
    <3>1. status' = 0 /\ conv' = "idle" /\ sampling_index' = sampling_index
      BY <1>2, <1>7, <2>2 DEF OnContinue, Complete
    <3>2. Taken = Cur.extra
      <4>1. CASE options = TRUE
        BY <1>2, <1>3, <2>2, <4>1 DEF InSampling, Taken, Work, AdcTypeOK
      <4>2. CASE options = FALSE
        BY <1>2, <4>2, RequestFacts DEF InSampling
      <4>3. QED BY <1>2, <4>1, <4>2
    <3>3. QED BY <1>5, <3>1, <3>2
  <2>3. QED BY <2>1, <2>2
<1>8. CASE OnRepeat
  <2>1. /\ conv' = "busy" /\ buffer' = repeat_buffer /\ repeat_buffer' = buffer'
        /\ status' = status /\ early' = early /\ sampling_index' = sampling_index
    BY <1>8 DEF OnRepeat, Resample
  <2>2. /\ Taken' = Taken /\ Taken' \in 0 .. Taken + 1
        /\ buffer' = Place(Cur.who, Taken')
    BY <1>1, <1>2, <2>1 DEF InSampling, Taken
  <2>3. sampling_index \in Nat /\ (options = TRUE => sampling_index =< extra)
    BY <1>2 DEF Work, AdcTypeOK, InSampling
  <2>4. sampling_index' \in Nat /\ (options = TRUE => sampling_index' =< extra)
    BY <2>1, <2>3
  <2>5. QED BY <1>6, <2>1, <2>2, <2>4
<1>9. CASE OnFinish
  <2>1. /\ status' = 0 /\ conv' = "idle" /\ sampling_index' = sampling_index
    BY <1>9 DEF OnFinish, Complete
  <2>2. options = TRUE
    BY <1>2, <1>9 DEF OnFinish
  <2>3. buffer.who = "app"
    BY <1>2, <1>4, <2>2
  <2>4. early' = TRUE
    BY <1>9, <2>3, Zenon DEF OnFinish
  <2>5. QED BY <1>5, <2>1, <2>4
<1>10. QED BY <1>1, <1>7, <1>8, <1>9

-----------------------------------------------------------------------------
\* A step other than a read of the application, as long as no reads overlap.
LEMMA AdcWorkNext ==
  ASSUME Work, TRUE \notin Calibrate, [AdcNext]_adcVars, ~overlap, ~overlap',
         \A seq \in AppSeq : ~AppRead(seq)
  PROVE  Work'
<1>0. BleRead => app = None
  BY Zenon DEF BleRead
<1>1. CASE UNCHANGED adcVars
  BY <1>1 DEF adcVars, ctxVars, appVars, bleVars, Work, AdcTypeOK, InCall,
     InSampling, Serving, Cur, Taken, Written, check_buffer_size
<1>2. ASSUME NEW cfg \in Cfg, AppSetup(cfg) PROVE Work'
  BY <1>2, SetupInv
<1>4. CASE ReadCall
  BY <1>4, ReadChannelInv, ReadBufferInv, StartReadInv, StartSamplingInv
     DEF ReadCall
<1>5. CASE Convert
  BY <1>5, ConvertInv
<1>6. CASE ADC_IRQHandler
  BY <1>6, AdcHandlerInv
<1>7. CASE ReadWait
  BY <1>1, <1>7 DEF ReadWait
<1>8. CASE AppReadDone
  BY <1>8, AppReadDoneInv
<1>9. CASE BleRead
  BY <1>0, <1>9, BleReadInv
<1>10. CASE BleReadDone
  BY <1>10, BleReadDoneInv
<1>11. QED
  BY <1>1, <1>2, <1>4, <1>5, <1>6, <1>7, <1>8, <1>9, <1>10 DEF AdcNext

LEMMA AdcNextInv ==
  ASSUME TRUE \notin Calibrate
  PROVE  AdcInv /\ [AdcNext]_adcVars => AdcInv'
<1> SUFFICES ASSUME AdcInv, [AdcNext]_adcVars PROVE AdcInv'
  OBVIOUS
<1>1. ASSUME NEW seq \in AppSeq, AppRead(seq) PROVE AdcInv'
  <2>1. AdcBase' /\ (conv = "idle" => Work')
    BY <1>1, AdcAppRead DEF AdcInv
  <2>2. overlap' = (overlap /\ conv # "idle")
    BY <1>1 DEF AppRead
  <2>3. ~overlap => conv = "idle"
    BY <1>1 DEF AdcInv, Work, AdcTypeOK, InSampling, Serving, AppRead, MainLoop
  <2>4. ~overlap' => conv = "idle"
    BY <2>2, <2>3, Zenon
  <2>5. QED BY <2>1, <2>4 DEF AdcInv
<1>2. ASSUME \A seq \in AppSeq : ~AppRead(seq) PROVE AdcInv'
  <2>1. CASE UNCHANGED adcVars
    BY <2>1 DEF adcVars, ctxVars, appVars, bleVars, AdcInv, AdcBase, Work,
       AdcTypeOK, InCall, InSampling, Serving, Cur, Taken, Written,
       check_buffer_size
  <2>2. CASE AdcNext
    <3>1. AdcBase'
      <4>1. CASE ReadWait
        BY <4>1 DEF ReadWait, adcVars, ctxVars, appVars, bleVars, AdcInv,
           AdcBase, AdcTypeOK
      <4>2. CASE ~ReadWait
        BY <1>2, <2>2, <4>2, AdcReadBase, AdcHandlerBase, AdcTurnBase
           DEF AdcNext, AdcInv
      <4>3. QED BY <4>1, <4>2
    <3>2. ~overlap' => ~overlap
      <4>1. CASE BleRead
        BY <4>1, Zenon DEF BleRead
      <4>2. CASE ~BleRead
        <5>1. overlap' = overlap
          BY <1>2, <2>2, <4>2 DEF AdcNext, adcVars, AppSetup, ReadCall,
             ReadChannel, ReadBuffer, adc_context_start_read,
             adc_context_start_sampling, Convert, ADC_IRQHandler, ReadWait,
             AppReadDone, BleReadDone
        <5>2. QED BY <5>1, Zenon
      <4>3. QED BY <4>1, <4>2
    <3>3. ~overlap' => Work'
      BY <1>2, <2>2, <3>2, AdcWorkNext DEF AdcInv
    <3>4. QED BY <3>1, <3>3 DEF AdcInv
  <2>3. QED BY <2>1, <2>2
<1>3. QED BY <1>1, <1>2

LEMMA AdcAlways ==
  ASSUME TRUE \notin Calibrate
  PROVE  AdcSpec => []AdcInv
<1>1. AdcInv /\ [AdcNext]_adcVars => AdcInv'
  BY AdcNextInv
<1>2. QED BY <1>1, AdcInitInv, PTL DEF AdcSpec

(***************************************************************************)
(* For an application that does not calibrate, no sample is written beyond *)
(* the buffer of its request, for any size and any number of samplings,    *)
(* repeated, continued and finished in any order, as long as no            *)
(* measurement falls into the read: check_buffer_size suffices             *)
(* (adc.c:67-77, 147-163; adc_context.h:72-114).                           *)
(***************************************************************************)
THEOREM WithinBuffer ==
  ASSUME TRUE \notin Calibrate
  PROVE  AdcSpec => []NoOverrun
<1>1. AdcInv => NoOverrun
  <2> SUFFICES ASSUME AdcInv, ~overlap, conv = "eoc"
               PROVE  buffer.index < Room(buffer.who)
    BY DEF NoOverrun
  <2>1. Work /\ InSampling
    BY DEF AdcInv, Work
  <2>2. /\ Cur \in AppSeq \union {TempSeq}
        /\ Cur \in AppSeq => check_buffer_size(Cur)
    BY <2>1 DEF Work, AdcTypeOK, InSampling, Serving, Cur
  <2>3. buffer.who = Cur.who /\ Taken \in Nat /\ Taken =< Cur.extra
        /\ buffer.index = IF Taken < BufLen THEN Taken ELSE BufLen
    BY <2>1, <2>2, RequestFacts DEF InSampling, Place, Taken, Work, AdcTypeOK
  <2>4. CASE Cur \in AppSeq
    BY <2>2, <2>3, <2>4, SizeChecked, RequestFacts, AdcAssumption DEF Room
  <2>5. CASE Cur = TempSeq
    BY <2>3, <2>5, RequestFacts, AdcAssumption DEF Room
  <2>6. QED BY <2>2, <2>4, <2>5
<1>2. AdcSpec => []AdcInv
  BY AdcAlways
<1>3. QED BY <1>1, <1>2, PTL

(***************************************************************************)
(* With the interrupt, and for an application that does not calibrate, a   *)
(* read into which no measurement of the BLE library falls, and that began *)
(* with the converter idle, has all its samples in the buffer, all of its  *)
(* channel, when it is completed and no callback has cut it short:         *)
(* whatever earlier reads and measurements left in the driver, those that  *)
(* overlapped included (adc_context.h:52-114).  Of a read into which a     *)
(* measurement falls it says nothing: ReadFilled fails there.              *)
(***************************************************************************)
THEOREM SamplesWritten ==
  ASSUME SUPPORT_INTERRUPT, TRUE \notin Calibrate
  PROVE  AdcSpec => []AllSamplesWritten
<1>1. AdcInv => AllSamplesWritten
  <2> SUFFICES ASSUME AdcInv, ~overlap, app # None, MainLoop, bpc = "off",
                      Completed, ~early
               PROVE  Written
    BY DEF AllSamplesWritten, ReadFilled, Written
  <2>1. Work
    BY DEF AdcInv
  <2>2. rpc = "none" /\ conv = "idle"
    BY <2>1, CompletedIsIdle
  <2>3. QED BY <2>1, <2>2 DEF Work
<1>2. AdcSpec => []AdcInv
  BY AdcAlways
<1>3. QED BY <1>1, <1>2, PTL
=============================================================================
