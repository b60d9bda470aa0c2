------------------------------ MODULE MCBlocks ------------------------------
(***************************************************************************)
(* The blocks of tiny-risc-v beside the core, each a closed system of its  *)
(* own: the clock-domain handshake, the JTAG transport that is built of    *)
(* two of them, what the debug module does on the bus, the UART, the timer *)
(* and the SPI master with their programs, and the firmware loader with    *)
(* its script.  A behaviour is one of a single block, chosen at first; the *)
(* others rest in their initial states.                                    *)
(***************************************************************************)
EXTENDS Handshake, Integers, Sequences

CONSTANTS
  UartBits, Baud, MaxBurst,                   \* Uart
  Period, Ticks, MaxGap,                      \* TinyTimer
  SpiBits, SpiDivs, SpiBytes, PollLag,        \* TinySpi
  Words, Vals, Regs, DpcReg, ScanGap, Drain   \* DebugBus

(* An image that ends within a packet, one that fills its packets exactly  *)
(* (and is followed by a packet of zeros), and one that fits into one      *)
(* packet.                                                                 *)
ImageFiles == {<<1>>, <<1, 2, 3>>, <<4, 3, 2, 1>>}

VARIABLES
  block,                                                       \* the block that moves
  tap, dtm, req_tx, resp_rx, req_rx, resp_tx, dm, ahead,       \* JtagDmi
  regs, uart_tx, uart_rx, cpu, burst, sent,                    \* Uart
  host, wire, resp, dev, rom, faults,                          \* FwUpdate
  branch, timer, prog, owed,                                   \* TinyTimer
  mode, spi, slave, driver, xfer,                              \* TinySpi
  dmregs, mem, regfile, hart, dbg, view, answer                \* DebugBus

Jtag == INSTANCE JtagDmi WITH Ratio <- 3, ScanClocks <- 8
Ser  == INSTANCE Uart WITH tx <- uart_tx, rx <- uart_rx,
                           DataBits <- UartBits, DriverOps <- {"putc", "getc"}
Fw   == INSTANCE FwUpdate WITH Files <- ImageFiles, WordsPerPacket <- 2, RomWords <- 8,
                               Attempts <- 3, Faults <- 2, PulsesPin <- TRUE

(* Two bytes whose bits tell their order, as SpiBytes to check with, and   *)
(* the uses of sbcs: a block or a single word to read, a block to write,   *)
(* the end of a block.                                                     *)
TwoBytes == {[i \in 0 .. 2 |-> IF i = 2 THEN 1 ELSE 0], [i \in 0 .. 2 |-> IF i = 0 THEN 0 ELSE 1]}
Sbcs(auto, onaddr, ondata) == [auto |-> auto, onaddr |-> onaddr, ondata |-> ondata]
SbcsUses == {Sbcs(TRUE, TRUE, TRUE), Sbcs(FALSE, TRUE, FALSE), Sbcs(TRUE, FALSE, FALSE),
             Sbcs(TRUE, TRUE, FALSE)}

Tmr == INSTANCE TinyTimer WITH Branches <- {"simulation", "board"}
Spi == INSTANCE TinySpi WITH dev <- slave, prog <- driver,
                             DataBits <- SpiBits, Divs <- SpiDivs, Data <- SpiBytes
Bus == INSTANCE DebugBus WITH dm <- dmregs, regs <- regfile, HaltFirst <- TRUE,
                              FlagSets <- SbcsUses, Uses <- {"memory", "registers"}

ASSUME BlocksAssumption ==
  /\ Jtag!JtagDmiAssumption /\ Ser!UartAssumption /\ Fw!FwUpdateAssumption
  /\ Tmr!TinyTimerAssumption /\ Spi!TinySpiAssumption /\ Bus!DebugBusAssumption

jtagVars   == <<tap, dtm, req_tx, resp_rx, req_rx, resp_tx, dm, ahead>>
serVars    == <<regs, uart_tx, uart_rx, cpu, burst, sent>>
fwVars     == <<host, wire, resp, dev, rom, faults>>
tmrVars    == <<branch, timer, prog, owed>>
spiVars    == <<mode, spi, slave, driver, xfer>>
busVars    == <<dmregs, mem, regfile, hart, dbg, view, answer>>
blocksVars == <<vars, jtagVars, serVars, fwVars, tmrVars, spiVars, busVars, block>>

(* One of the initial states of the SPI master and its device.             *)
SpiRests == /\ mode = [cpha |-> TRUE, div |-> CHOOSE d \in SpiDivs : TRUE]
            /\ slave.out = CHOOSE b \in SpiBytes : TRUE

MCInit ==
  /\ block \in {"handshake", "jtag", "uart", "loader", "timer", "spi", "bus"}
  /\ Init /\ Jtag!Init /\ Ser!Init
  /\ Fw!Init /\ (block # "loader" => host.file = <<1>>)
  /\ Tmr!Init /\ (block # "timer" => branch = "board")
  /\ Spi!Init /\ (block # "spi" => SpiRests)
  /\ Bus!Init /\ (block # "bus" => dbg.uses = "memory")

MCNext ==
  /\ UNCHANGED block
  /\ \/ block = "handshake" /\ Next
        /\ UNCHANGED <<jtagVars, serVars, fwVars, tmrVars, spiVars, busVars>>
     \/ block = "jtag" /\ Jtag!Next
        /\ UNCHANGED <<vars, serVars, fwVars, tmrVars, spiVars, busVars>>
     \/ block = "uart" /\ Ser!Next
        /\ UNCHANGED <<vars, jtagVars, fwVars, tmrVars, spiVars, busVars>>
     \/ block = "loader" /\ Fw!Next
        /\ UNCHANGED <<vars, jtagVars, serVars, tmrVars, spiVars, busVars>>
     \/ block = "timer" /\ Tmr!Next
        /\ UNCHANGED <<vars, jtagVars, serVars, fwVars, spiVars, busVars>>
     \/ block = "spi" /\ Spi!Next
        /\ UNCHANGED <<vars, jtagVars, serVars, fwVars, tmrVars, busVars>>
     \/ block = "bus" /\ Bus!Next
        /\ UNCHANGED <<vars, jtagVars, serVars, fwVars, tmrVars, spiVars>>

(* The block that moves is scheduled as its own module says.               *)
MCSpec ==
  /\ MCInit /\ [][MCNext]_blocksVars
  /\ WF_jtagVars(block = "jtag" /\ Jtag!TckEdge)
  /\ WF_jtagVars(block = "jtag" /\ Jtag!ClkEdge)
  /\ WF_serVars(block = "uart" /\ Ser!NoWrite)
  /\ WF_fwVars(block = "loader" /\ Fw!Script)
  /\ WF_fwVars(block = "loader" /\ Fw!User)
  /\ WF_fwVars(block = "loader" /\ Fw!Device)
  /\ WF_tmrVars(block = "timer" /\ Tmr!Clock)
  /\ WF_tmrVars(block = "timer" /\ Tmr!Clock /\ Tmr!TakeInterrupt)
  /\ WF_spiVars(block = "spi" /\ Spi!Step)

-----------------------------------------------------------------------------
(* The registers of every block keep their types, and the ones that the    *)
(* source keeps beside a state decode it.                                  *)
TypesOK == /\ TypeOK /\ Jtag!TypeOK /\ Ser!TypeOK /\ Fw!TypeOK
           /\ Tmr!TypeOK /\ Spi!TypeOK /\ Bus!TypeOK

(* The debugger is told the truth about the transport: a scan that does    *)
(* not return busy returns the answer to the last request, and a request   *)
(* that ends such a scan is not dropped (jtag_driver.v:171, 195).          *)
BusyIsTheTruth == Jtag!NotBusyMeansAnswered /\ Jtag!NoSilentDrop

(* The transport is a remote procedure call: no accepted request is lost,  *)
(* executed twice or overtaken, and with both clocks running every one is  *)
(* answered (jtag_driver.v:186-248, jtag_dm.v:317-340).                    *)
RpcFairSpec == Jtag!RpcFairSpec

(* A byte that uart_putc gives away is received once, unchanged and in     *)
(* order, before the next one is accepted (uart.v:101-327).                *)
LineSpec == Ser!LineSpec

(* What a program or the debugger does to a register takes effect, though  *)
(* the other side of it moves in the same clock: every period of the timer *)
(* is counted, once (timer.v:75-94), a call of the SPI driver returns with *)
(* its bytes exchanged (spi.v:72-229), and the debugger and the core find  *)
(* in memory and registers what they have put there (jtag_dm.v:158-300,    *)
(* rib.v:119-133, regs.v:53-62).                                           *)
AccessesTakeEffect ==
  /\ Tmr!EveryPeriodCounts /\ Tmr!NeverPasses
  /\ Spi!BytesExchanged
  /\ Bus!NoAccessLost /\ Bus!AnswersTrue

(* "Send successfully..." (fw_downloader.py:204) means that the whole      *)
(* image is in the memory and nothing but zeros follows it; on the way,    *)
(* every packet is written where its number says, although the device      *)
(* never looks at the number, and the two ends agree on how many packets   *)
(* are left (uart_debug.v:251-282).                                        *)
ImageInStep == Fw!SuccessMeansImage /\ Fw!PacketInPlace /\ Fw!Agree

(* Every byte that uart_putc gives away reaches rx_data, whatever the      *)
(* program does meanwhile (uart.v:226-327); a user who runs the script     *)
(* once more than the line has failures gets the image loaded; the timer   *)
(* program ends or toggles its LED for ever; and calls of the SPI driver   *)
(* return.                                                                 *)
EverythingArrives ==
  /\ Ser!ByteArrives
  /\ block = "loader" => Fw!Recovers
  /\ block = "timer" => Tmr!Toggles
  /\ Spi!Returns
=============================================================================
