-------------------------------- MODULE Uart --------------------------------
(***************************************************************************)
(* The UART of tiny-risc-v (rtl/perips/uart.v) with its transmit pin wired *)
(* to its receive pin, used by the driver of tests/example/lib/uart.c.     *)
(* One step is one clock.  A byte has DataBits bits (8 in the source) and  *)
(* a bit lasts Baud + 1 clocks.                                            *)
(***************************************************************************)
EXTENDS Integers

CONSTANTS
  DataBits,   \* bits of a byte
  Baud,       \* uart_baud; uart_init leaves it at its reset value
  DriverOps,  \* what the program calls: "putc", "getc"
  MaxBurst    \* writes the core can do in consecutive clocks

UartAssumption ==
  /\ {DataBits, MaxBurst} \subseteq Nat \ {0} /\ Baud \in Nat \ {0, 1}
  /\ DriverOps \subseteq {"putc", "getc"}

Bytes == [0 .. DataBits - 1 -> {0, 1}]
ZeroByte == [i \in 0 .. DataBits - 1 |-> 0]

VARIABLES
  regs,   \* uart_ctrl, uart_status, uart_rx, tx_data_valid, tx_data
  tx,     \* the transmitter and its pin
  rx,     \* the receiver and its synchroniser
  cpu,    \* what the program is doing: before uart_init, in uart_getc, or free
  burst,  \* history: consecutive clocks with a write, up to now
  sent    \* history: bytes accepted and not yet received

vars == <<regs, tx, rx, cpu, burst, sent>>

Init ==
  /\ regs = [tx_en |-> FALSE, rx_en |-> FALSE, busy |-> FALSE, over |-> FALSE,
             uart_rx |-> ZeroByte, valid |-> FALSE, tx_data |-> ZeroByte]
  /\ tx = [state |-> "IDLE", cycle_cnt |-> 0, bit_cnt |-> 0, pin |-> 0,
           ready |-> FALSE]
  /\ rx = [q0 |-> 0, q1 |-> 0, start |-> FALSE, edges |-> 0, level |-> FALSE,
           clk_cnt |-> 0, div_cnt |-> 0, data |-> ZeroByte, over |-> FALSE]
  /\ cpu = "init"
  /\ burst = 0
  /\ sent = {}

-----------------------------------------------------------------------------
(* uart.v:92-133 - a write of the bus is served first; what the engines    *)
(* report in that clock is not looked at.                                  *)
Idle == regs' = [regs EXCEPT !.valid = FALSE,
                             !.busy = @ /\ ~tx.ready,
                             !.over = @ \/ (regs.rx_en /\ rx.over),
                             !.uart_rx = IF regs.rx_en /\ rx.over THEN rx.data ELSE @]

WriteCtrl == regs' = [regs EXCEPT !.tx_en = TRUE, !.rx_en = TRUE]

WriteStatus(over) == regs' = [regs EXCEPT !.over = over]

Accepted == regs.tx_en /\ ~regs.busy

WriteTxData(byte) ==
  regs' = IF Accepted
          THEN [regs EXCEPT !.tx_data = byte, !.busy = TRUE, !.valid = TRUE]
          ELSE regs

(* uart.v:162-207.                                                         *)
Transmit ==
  LET last == tx.bit_cnt = DataBits
      level == IF last THEN 1 ELSE regs.tx_data[tx.bit_cnt]
  IN
  tx' =
    CASE tx.state = "IDLE" /\ regs.valid ->
           [state |-> "START", cycle_cnt |-> 0, bit_cnt |-> 0, pin |-> 0,
            ready |-> FALSE]
      [] tx.state = "IDLE" /\ ~regs.valid -> [tx EXCEPT !.pin = 1, !.ready = FALSE]
      [] tx.state # "IDLE" /\ tx.cycle_cnt # Baud -> [tx EXCEPT !.cycle_cnt = @ + 1]
      [] tx.state \in {"START", "SEND_BYTE"} /\ tx.cycle_cnt = Baud ->
           [tx EXCEPT !.state = IF last THEN "STOP" ELSE "SEND_BYTE",
                      !.cycle_cnt = 0, !.bit_cnt = @ + 1, !.pin = level]
      [] tx.state = "STOP" /\ tx.cycle_cnt = Baud ->
           [tx EXCEPT !.state = "IDLE", !.cycle_cnt = 0, !.pin = 1, !.ready = TRUE]

-----------------------------------------------------------------------------
(* uart.v:212-327 - the receiver, pin being the level of rx_pin.  It       *)
(* starts at a falling edge and counts DataBits + 1 sample points, the     *)
(* first half a bit after the edge.                                        *)
FallingEdge == rx.q1 = 1 /\ rx.q0 = 0

AllEdges == DataBits + 1

RxStart == /\ regs.rx_en
           /\ FallingEdge \/ (rx.start /\ rx.edges # AllEdges)

(* A bug: the first sample is taken a whole bit after the edge.            *)
RxDiv_NotHalved == Baud

(* uart.v:242-253 - the divider for the first sample point is halved.      *)
RxDiv == IF rx.start /\ rx.edges = 0 THEN Baud \div 2 ELSE Baud

(* A bug: the baud counter runs one clock too far.                         *)
Tick_Late == rx.start /\ rx.clk_cnt > rx.div_cnt

Tick == rx.start /\ rx.clk_cnt = rx.div_cnt

(* uart.v:299-327 - rx_pin is sampled without its synchroniser.            *)
RxData(pin) ==
  IF ~rx.start THEN ZeroByte
  ELSE IF rx.level /\ rx.edges \in 2 .. AllEdges
  THEN [rx.data EXCEPT ![rx.edges - 2] = IF pin = 1 THEN 1 ELSE @]
  ELSE rx.data

RxOver == rx.start /\ (rx.over \/ (rx.level /\ rx.edges = AllEdges))

Receive(pin) ==
  rx' = [q0 |-> pin, q1 |-> rx.q0,
         start   |-> RxStart,
         edges   |-> IF ~rx.start \/ (Tick /\ rx.edges = AllEdges) THEN 0
                     ELSE IF Tick THEN rx.edges + 1 ELSE rx.edges,
         level   |-> Tick /\ rx.edges # AllEdges,
         clk_cnt |-> IF rx.start /\ ~Tick THEN rx.clk_cnt + 1 ELSE 0,
         div_cnt |-> RxDiv,
         data    |-> RxData(pin),
         over    |-> RxOver]

-----------------------------------------------------------------------------
(* History: a byte is out between its acceptance and its reception.        *)
Sent(new) == sent' = IF rx'.over /\ ~rx.over THEN new ELSE sent \cup new

Clock == Transmit /\ Receive(tx.pin)

(* The clocks with a write are those of the driver, at any distance.       *)
Write == burst < MaxBurst /\ burst' = burst + 1

(* uart.c:23-29 - uart_init is called first.                               *)
UartInit == /\ cpu = "init" /\ cpu' = "free"
            /\ Write /\ WriteCtrl /\ Clock /\ Sent({})

(* uart.c:8-12 - the poll has seen the transmitter idle.                   *)
Putc(byte) == /\ "putc" \in DriverOps
              /\ cpu = "free" /\ UNCHANGED cpu
              /\ ~regs.busy
              /\ Write /\ WriteTxData(byte) /\ Clock /\ Sent({byte})

(* uart.c:17 - uart_getc clears the flag of earlier bytes and then polls.  *)
Getc == /\ "getc" \in DriverOps
        /\ cpu = "free" /\ cpu' = "getc"
        /\ Write /\ WriteStatus(FALSE) /\ Clock /\ Sent({})

(* A clock without a write; uart_getc may see the flag (uart.c:18-19).     *)
NoWrite == /\ burst' = 0
           /\ cpu' = IF cpu = "getc" /\ regs.over THEN "free" ELSE cpu
           /\ Idle /\ Clock /\ Sent({})

Next == UartInit \/ (\E byte \in Bytes : Putc(byte)) \/ Getc \/ NoWrite

Spec == Init /\ [][Next]_vars

(* The clock runs, and not every clock has a write.                        *)
FairSpec == Spec /\ WF_vars(NoWrite)
-----------------------------------------------------------------------------
(* Types; the transmitter counts bits only up to the stop bit, and the     *)
(* receiver never counts past its last sample point.                       *)
TypeOK ==
  /\ regs.uart_rx \in Bytes /\ regs.tx_data \in Bytes
  /\ tx.state \in {"IDLE", "START", "SEND_BYTE", "STOP"}
  /\ tx.cycle_cnt \in 0 .. Baud /\ tx.bit_cnt \in 0 .. DataBits + 1
  /\ rx.edges \in 0 .. AllEdges /\ rx.clk_cnt \in 0 .. Baud
  /\ rx.data \in Bytes
  /\ sent \subseteq Bytes

(* The driver and the two engines together are the one-word channel that   *)
(* the handshake is: a byte that uart_putc gives away is received once,    *)
(* unchanged and in order, before the next one is accepted.                *)
Line == INSTANCE Channel WITH
          Data <- Bytes, Zero <- ZeroByte,
          idle <- ~regs.busy,
          full <- sent # {},
          word <- IF sent = {} THEN ZeroByte ELSE CHOOSE b \in sent : TRUE,
          rdy  <- rx.over,
          got  <- IF rx.over THEN rx.data ELSE ZeroByte

LineSpec == Line!Spec

(* With the clock running every accepted byte reaches the receiver's       *)
(* register rx_data, whatever the program does meanwhile                   *)
(* (uart.v:226-327).                                                       *)
ByteArrives == sent # {} ~> sent = {}

(* uart.v:76 - "bit[0]: tx busy, 1 = busy, 0 = idle": the bit is set only  *)
(* while a byte is on its way out.                                         *)
BusyMeansWork ==
  regs.busy => regs.valid \/ tx.state # "IDLE" \/ tx.ready
=============================================================================
