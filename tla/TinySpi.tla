------------------------------- MODULE TinySpi -------------------------------
(***************************************************************************)
(* The SPI master of tiny-risc-v (rtl/perips/spi.v) with the driver of     *)
(* tests/example/lib/spi.c, as the flash driver calls it, and a device.    *)
(* One step is one clock.  A byte has DataBits bits (8 in the source).     *)
(***************************************************************************)
EXTENDS Naturals

CONSTANTS
  DataBits,  \* bits of a byte
  Divs,      \* values of the clock divider, spi_ctrl[15:8]
  Data,      \* bytes that are exchanged
  PollLag    \* clocks between the start of a transfer and the first poll

TinySpiAssumption ==
  /\ DataBits \in Nat \ {0} /\ Divs \subseteq Nat /\ PollLag \in Nat
  /\ Data \subseteq [0 .. DataBits - 1 -> {0, 1}]

VARIABLES
  mode,  \* clock phase and divider, set by spi_init; levels of spi_clk are relative to CPOL
  spi,   \* the registers of spi.v
  dev,   \* the device: clock edges, bits in, byte out, its pin, the last whole byte
  prog,  \* where the driver is, what it was asked for and what it returned
  xfer   \* history: the two bytes of the transfer that was started last

vars == <<mode, spi, dev, prog, xfer>>

Edges == 2 * DataBits + 1
Zeros == [i \in 0 .. DataBits - 1 |-> 0]
ShiftIn(byte, bit) == [i \in 0 .. DataBits - 1 |-> IF i = 0 THEN bit ELSE byte[i - 1]]
SpiData(i) == IF i < DataBits THEN spi.data[i] ELSE 0

-----------------------------------------------------------------------------
(* spi.v:72-198 - enable, divider, edge counter, bits, end of transfer.    *)
Tick == spi.en /\ spi.clk_cnt = mode.div
Moves == spi.en /\ spi.level /\ spi.edge_cnt # Edges
Odd == spi.edge_cnt % 2 = 1
Drives == Moves /\ Odd = mode.cpha
Samples == Moves /\ Odd # mode.cpha

En      == spi.start \/ (spi.en /\ ~spi.done)
ClkCnt  == IF spi.en /\ ~Tick THEN spi.clk_cnt + 1 ELSE 0
EdgeCnt == IF ~spi.en THEN 0
           ELSE IF ~Tick THEN spi.edge_cnt
           ELSE (spi.edge_cnt + 1) % (Edges + 1)
SpiClk  == IF Moves THEN 1 - spi.clk
           ELSE IF ~spi.en \/ spi.level THEN 0 ELSE spi.clk
Mosi    == IF Drives THEN SpiData(spi.bit_index)
           ELSE IF ~spi.en /\ ~mode.cpha THEN SpiData(DataBits - 1) ELSE spi.mosi
BitIndex == IF Drives THEN (spi.bit_index + 15) % 16
            ELSE IF spi.en THEN spi.bit_index
            ELSE IF mode.cpha THEN DataBits - 1 ELSE DataBits - 2

(* spi.v:200-229 - without a write the start bit falls and the end of a    *)
(* transfer is looked at; a write of the bus is served instead.            *)
Clock(start, data, ss) ==
  spi' = [en |-> En, clk_cnt |-> ClkCnt, edge_cnt |-> EdgeCnt,
          level |-> Tick /\ spi.edge_cnt # Edges,
          clk |-> SpiClk, mosi |-> Mosi, bit_index |-> BitIndex,
          rdata |-> IF Samples THEN ShiftIn(spi.rdata, dev.miso) ELSE spi.rdata,
          done |-> spi.en /\ spi.edge_cnt = Edges,
          status |-> spi.en, start |-> start, data |-> data, ss |-> ss]

NoWrite == Clock(FALSE, IF spi.done THEN spi.rdata ELSE spi.data, spi.ss)
WriteCtrl(start, ss) == Clock(start, spi.data, ss)
WriteData(byte) == Clock(spi.start, byte, spi.ss)

-----------------------------------------------------------------------------
(* The device: takes a bit at one edge of the clock and puts out the next  *)
(* at the other; without the clock phase its first bit is out beforehand.  *)
Puts(e) == IF mode.cpha THEN e % 2 = 1 ELSE e % 2 = 0
OutBit(byte, e) == byte[DataBits - 1 - (e \div 2)]

Device ==
  LET e == dev.edges + 1
      in == IF Puts(e) THEN dev.in ELSE ShiftIn(dev.in, spi'.mosi)
  IN IF spi.ss = 1 THEN dev' \in {[dev EXCEPT !.edges = 0, !.out = b, !.miso = OutBit(b, 0)] : b \in Data}
     ELSE IF spi'.clk = spi.clk THEN dev' = dev
     ELSE IF e < 2 * DataBits
          THEN dev' = [dev EXCEPT !.edges = e, !.in = in,
                                  !.miso = IF Puts(e)
                                           THEN OutBit(dev.out, IF mode.cpha THEN e - 1 ELSE e)
                                           ELSE @]
     ELSE dev' \in {[edges |-> 0, in |-> in, out |-> b, miso |-> OutBit(b, 0), got |-> in] : b \in Data}

-----------------------------------------------------------------------------
(* spi.c: the calls of the flash driver.                                   *)
Goto(pc) == [prog EXCEPT !.pc = pc]

SetSs ==
  /\ prog.pc = "idle" /\ WriteCtrl(FALSE, 1 - spi.ss)
  /\ UNCHANGED <<prog, xfer>>

Call ==
  /\ prog.pc = "idle" /\ spi.ss = 0 /\ NoWrite
  /\ \/ \E b \in Data : prog' = [prog EXCEPT !.pc = "data", !.op = "write", !.byte = b]
     \/ prog' = [prog EXCEPT !.pc = "start", !.op = "read"]
  /\ UNCHANGED xfer

PutData ==
  /\ prog.pc = "data" /\ WriteData(prog.byte) /\ prog' = Goto("start")
  /\ UNCHANGED xfer

StartTransfer ==
  /\ prog.pc = "start" /\ WriteCtrl(TRUE, spi.ss)
  /\ prog' = [Goto("poll") EXCEPT !.lag = PollLag]
  /\ xfer' = [sent |-> spi.data, expected |-> dev.out]

Poll ==
  /\ prog.pc = "poll" /\ prog.lag = 0 /\ NoWrite
  /\ prog' = Goto(IF spi.status THEN "poll" ELSE IF prog.op = "read" THEN "read" ELSE "idle")
  /\ UNCHANGED xfer

ReadBack ==
  /\ prog.pc = "read" /\ NoWrite
  /\ prog' = [Goto("idle") EXCEPT !.byte = spi.data]
  /\ UNCHANGED xfer

Wait ==
  /\ NoWrite
  /\ prog' = [prog EXCEPT !.lag = IF @ = 0 THEN 0 ELSE @ - 1]
  /\ UNCHANGED xfer

Driver == PutData \/ StartTransfer \/ Poll \/ ReadBack

Init ==
  /\ mode \in [cpha : BOOLEAN, div : Divs]
  /\ spi = [en |-> FALSE, clk_cnt |-> 0, edge_cnt |-> 0, level |-> FALSE, clk |-> 0,
            mosi |-> 0, bit_index |-> 0, rdata |-> Zeros, done |-> FALSE,
            status |-> FALSE, start |-> FALSE, data |-> Zeros, ss |-> 1]
  /\ \E b \in Data : dev = [edges |-> 0, in |-> Zeros, out |-> b, miso |-> OutBit(b, 0),
                            got |-> Zeros]
  /\ prog = [pc |-> "idle", op |-> "read", byte |-> Zeros, lag |-> 0]
  /\ xfer = [sent |-> Zeros, expected |-> Zeros]

Next == (SetSs \/ Call \/ Driver \/ Wait) /\ Device /\ UNCHANGED mode
Step == (Driver \/ (prog.lag # 0 /\ Wait)) /\ Device /\ UNCHANGED mode
Spec == Init /\ [][Next]_vars /\ WF_vars(Step)

-----------------------------------------------------------------------------
TypeOK ==
  /\ spi.clk_cnt \in 0 .. mode.div /\ spi.edge_cnt \in 0 .. Edges
  /\ spi.bit_index \in 0 .. 15 /\ {spi.clk, spi.mosi, spi.ss, dev.miso} \subseteq {0, 1}
  /\ dev.edges \in 0 .. 2 * DataBits - 1
  /\ prog.pc \in {"idle", "data", "start", "poll", "read"} /\ prog.lag \in 0 .. PollLag

(* A call that has returned has exchanged its bytes: nothing is under way, *)
(* the device has got what was in spi_data, and what the device sent is    *)
(* there to be read; the busy bit, two clocks late at both ends, and the   *)
(* start bit, which is not cleared in a clock with a write, make no        *)
(* difference (spi.v:72-229, spi.c:21-45).                                 *)
BytesExchanged ==
  prog.pc \in {"idle", "data", "read"} =>
    /\ ~spi.start /\ ~spi.en
    /\ spi.ss = 0 => dev.edges = 0 /\ dev.got = xfer.sent
    /\ prog.pc = "read" => spi.data = xfer.expected

(* Every call returns.                                                     *)
Returns == prog.pc # "idle" ~> prog.pc = "idle"
=============================================================================
