---------------------------- MODULE BlocksProofs ----------------------------
(***************************************************************************)
(* The blocks of the composition do not touch each other's variables: what *)
(* HandshakeProofs, JtagDmiProofs and FwUpdateProofs show of one block     *)
(* holds of all of them together.  The small blocks have their invariants  *)
(* here: the debug module on the bus (Bus), the timer (Tmr), the SPI (Spi) *)
(* and the UART (Ser), for all values of their constants.                  *)
(***************************************************************************)
EXTENDS MCBlocks, HandshakeProofs, TLAPS

(* The firmware loader with its invariant.                                 *)
FwP == INSTANCE FwUpdateProofs
         WITH Files <- ImageFiles, WordsPerPacket <- 2, RomWords <- 8,
              Attempts <- 3, Faults <- 2, PulsesPin <- TRUE

(* The two instances of FwUpdate are of the same definitions.              *)
LEMMA SameData ==
  /\ Fw!DataPackets = FwP!DataPackets /\ Fw!DevReset = FwP!DevReset /\ Fw!Damaged = FwP!Damaged
  /\ Fw!PacketUnits = FwP!PacketUnits
  /\ \A n : Fw!Packet(n) = FwP!Packet(n)
  /\ \A s : Fw!Crc(s) = FwP!Crc(s)
  /\ \A i : Fw!Received(i) = FwP!Received(i)
<1>1. Fw!DataPackets = FwP!DataPackets /\ Fw!Damaged = FwP!Damaged /\ Fw!PacketUnits = FwP!PacketUnits
  BY DEF Fw!DataPackets, FwP!DataPackets, Fw!Damaged, FwP!Damaged, Fw!PacketUnits, FwP!PacketUnits
<1>2. Fw!DevReset = FwP!DevReset
  BY DEF Fw!DevReset, FwP!DevReset
<1>3. \A s : Fw!Crc(s) = FwP!Crc(s)
  BY DEF Fw!Crc, FwP!Crc
<1>4. \A n : Fw!Packet(n) = FwP!Packet(n)
  BY Zenon, <1>1 DEF Fw!Packet, FwP!Packet, Fw!Word, FwP!Word, Fw!Crc, FwP!Crc, Fw!Header,
         FwP!Header, Fw!NamePad, FwP!NamePad, Fw!DataOf, FwP!DataOf
<1>5. \A i : Fw!Received(i) = FwP!Received(i)
  BY DEF Fw!Received, FwP!Received
<1> QED
  BY <1>1, <1>2, <1>3, <1>4, <1>5

(* A loader of one instance is a loader of the other, and what is shown of *)
(* one holds of the other.                                                 *)
LEMMA SameInit == Fw!Init => FwP!Init
BY SameData DEF Fw!Init, FwP!Init, Fw!Blank, FwP!Blank

LEMMA SameNext == Fw!Next => FwP!Next
<1>1. Fw!Script => FwP!Script
  BY SameData DEF Fw!Script, FwP!Script, Fw!ReadAck, FwP!ReadAck, Fw!ReadNak,
    FwP!ReadNak, Fw!Timeout, FwP!Timeout, Fw!Quiet, FwP!Quiet
<1>2. Fw!User => FwP!User
  BY SameData DEF Fw!User, FwP!User, Fw!RunScript, FwP!RunScript, Fw!PulsePin,
    FwP!PulsePin, Fw!Quiet, FwP!Quiet, Fw!Silent, FwP!Silent
<1>3. Fw!Device => FwP!Device
  BY SameData DEF Fw!Device, FwP!Device, Fw!RecFirstPacket, FwP!RecFirstPacket,
    Fw!RecRemainPacket, FwP!RecRemainPacket, Fw!GetByte, FwP!GetByte,
    Fw!CrcEnd, FwP!CrcEnd, Fw!WriteMem, FwP!WriteMem, Fw!SendAnswer,
    FwP!SendAnswer, Fw!Silent, FwP!Silent, Fw!CrcGood, FwP!CrcGood,
    Fw!PacketCount, FwP!PacketCount, Fw!StepBack, FwP!StepBack
<1>4. Fw!Line => FwP!Line
  BY SameData DEF Fw!Line, FwP!Line, Fw!LoseUnit, FwP!LoseUnit, Fw!DamageUnit,
    FwP!DamageUnit, Fw!LoseAnswer, FwP!LoseAnswer, Fw!DamageAnswer,
    FwP!DamageAnswer, Fw!Fault, FwP!Fault
<1> QED
  BY <1>1, <1>2, <1>3, <1>4 DEF Fw!Next, FwP!Next

LEMMA SameProperties ==
  FwP!SuccessMeansImage /\ FwP!PacketInPlace /\ FwP!Agree
    => Fw!SuccessMeansImage /\ Fw!PacketInPlace /\ Fw!Agree
BY SameData DEF Fw!SuccessMeansImage, FwP!SuccessMeansImage, Fw!Image, FwP!Image,
   Fw!Blank, FwP!Blank, Fw!PacketInPlace, FwP!PacketInPlace, Fw!Agree,
   FwP!Agree

(* A behaviour of the blocks is one of the firmware loader.                *)
LEMMA LoaderRuns == MCSpec => FwP!Spec
<1>1. MCInit => FwP!Init
  BY SameInit DEF MCInit
<1>2. [MCNext]_blocksVars => [FwP!Next]_FwP!vars
  BY SameNext DEF MCNext, blocksVars, fwVars, FwP!vars
<1> QED
  BY <1>1, <1>2, PTL DEF MCSpec, FwP!Spec

(* "Send successfully..." is the truth, every packet is written where its  *)
(* number says and the two ends agree on the packets that are left         *)
(* (fw_downloader.py:156-204, uart_debug.v:251-282), whatever the other    *)
(* blocks do.                                                              *)
THEOREM LoaderInStep == MCSpec => []ImageInStep
<1>1. FwP!FwUpdateAssumption
  BY BlocksAssumption DEF Fw!FwUpdateAssumption, FwP!FwUpdateAssumption
<1>2. FwP!Spec => []FwP!SuccessMeansImage /\ []FwP!PacketInPlace /\ []FwP!Agree
  BY <1>1, FwP!SuccessIsTrue, FwP!PacketsInPlace, FwP!EndsAgree
<1>3. FwP!SuccessMeansImage /\ FwP!PacketInPlace /\ FwP!Agree => ImageInStep
  BY SameProperties DEF ImageInStep
<1> QED
  BY <1>2, <1>3, LoaderRuns, PTL

(* The handshake holds the word that its receiver latches, and is a        *)
(* channel of one word (full_handshake_tx.v, full_handshake_rx.v),         *)
(* whatever the other blocks do.                                           *)
THEOREM HandshakeInStep == MCSpec => DataStable /\ ChannelSpec
<1>1. MCInit => Init
  BY DEF MCInit
<1>2. [MCNext]_blocksVars => [Next]_vars
  BY DEF MCNext, blocksVars, vars
<1>3. MCSpec => Spec
  BY <1>1, <1>2, PTL DEF MCSpec, Spec
<1> QED
  BY <1>3, LatchedWordIsHeld, ImplementsChannel, PTL

-----------------------------------------------------------------------------
(* The debug transport with its invariant.                                 *)
JtagP == INSTANCE JtagDmiProofs WITH Ratio <- 3, ScanClocks <- 8

(* The two instances of JtagDmi are of the same definitions.               *)
LEMMA SameTransport ==
  /\ Jtag!Init => JtagP!Init
  /\ Jtag!Next => JtagP!Next
  /\ JtagP!NotBusyMeansAnswered /\ JtagP!NoSilentDrop
       => Jtag!NotBusyMeansAnswered /\ Jtag!NoSilentDrop
<1>1. Jtag!Init => JtagP!Init
  BY DEF Jtag!Init, JtagP!Init, Jtag!TxReset, JtagP!TxReset, Jtag!RxReset, JtagP!RxReset
<1>2. Jtag!Accepts = JtagP!Accepts
  BY DEF Jtag!Accepts, JtagP!Accepts, Jtag!Updates, JtagP!Updates, Jtag!IsBusy, JtagP!IsBusy
<1>3. ASSUME Jtag!TckEdge PROVE JtagP!TckEdge
  <2>1. Jtag!Dtm => JtagP!Dtm
    BY <1>2 DEF Jtag!Dtm, JtagP!Dtm, Jtag!StickyBusy, JtagP!StickyBusy, Jtag!DmIsBusy,
       JtagP!DmIsBusy, Jtag!IsBusy, JtagP!IsBusy, Jtag!Updates, JtagP!Updates
  <2>2. \A tms \in BOOLEAN : Jtag!Tap(tms) => JtagP!Tap(tms)
    BY DEF Jtag!Tap, JtagP!Tap, Jtag!ShiftsOn, JtagP!ShiftsOn, Jtag!ScanCount, JtagP!ScanCount,
       Jtag!ShiftedIn, JtagP!ShiftedIn, Jtag!TapNext, JtagP!TapNext, Jtag!IrNext, JtagP!IrNext,
       Jtag!IrRegs, JtagP!IrRegs, Jtag!DtmcsWords, JtagP!DtmcsWords,
       Jtag!Requests, JtagP!Requests
  <2> QED
    BY <1>3, <2>1, <2>2 DEF Jtag!TckEdge, JtagP!TckEdge, Jtag!TxStep, JtagP!TxStep,
       Jtag!RxStep, JtagP!RxStep, Jtag!clkVars, JtagP!clkVars
<1>4. ASSUME Jtag!ClkEdge PROVE JtagP!ClkEdge
  BY <1>4 DEF Jtag!ClkEdge, JtagP!ClkEdge, Jtag!DmStep, JtagP!DmStep, Jtag!TxStep, JtagP!TxStep,
     Jtag!RxStep, JtagP!RxStep, Jtag!tckVars, JtagP!tckVars
<1>5. JtagP!NotBusyMeansAnswered /\ JtagP!NoSilentDrop
        => Jtag!NotBusyMeansAnswered /\ Jtag!NoSilentDrop
  BY DEF Jtag!NotBusyMeansAnswered, JtagP!NotBusyMeansAnswered, Jtag!NoSilentDrop,
     JtagP!NoSilentDrop, Jtag!IsBusy, JtagP!IsBusy, Jtag!Updates, JtagP!Updates,
     Jtag!Called, JtagP!Called, Jtag!Executed, JtagP!Executed, Jtag!InFlight, JtagP!InFlight
<1> QED
  BY <1>1, <1>3, <1>4, <1>5 DEF Jtag!Next, JtagP!Next

(* A behaviour of the blocks is one of the debug transport.                *)
LEMMA TransportRuns == MCSpec => JtagP!Spec
<1>1. MCInit => JtagP!Init
  BY SameTransport DEF MCInit
<1>2. [MCNext]_blocksVars => [JtagP!Next]_JtagP!vars
  BY SameTransport DEF MCNext, blocksVars, jtagVars, JtagP!vars, JtagP!tckVars, JtagP!clkVars
<1> QED
  BY <1>1, <1>2, PTL DEF MCSpec, JtagP!Spec

(* The debugger is told the truth about the transport (jtag_driver.v:171,  *)
(* 195-199, 237-248), whatever the other blocks do.                        *)
THEOREM TransportTellsTheTruth == MCSpec => []BusyIsTheTruth
<1>1. JtagP!JtagDmiAssumption /\ JtagP!LongScans
  BY DEF JtagP!JtagDmiAssumption, JtagP!LongScans
<1>2. JtagP!Spec => []JtagP!NotBusyMeansAnswered /\ []JtagP!NoSilentDrop
  BY <1>1, ZeroAssumption, JtagP!NotBusyIsAnswered, JtagP!NothingDropped
<1>3. JtagP!NotBusyMeansAnswered /\ JtagP!NoSilentDrop => BusyIsTheTruth
  BY SameTransport DEF BusyIsTheTruth
<1> QED
  BY <1>2, <1>3, TransportRuns, PTL

-----------------------------------------------------------------------------
(* The debugger and the core on the bus and the registers                  *)
(* (jtag_dm.v:158-300, rib.v:114-133, regs.v:53-62).                       *)

(* The registers of the debug module, memory and the register file.        *)
BusTyped ==
  /\ dmregs \in [halt : BOOLEAN, reset : BOOLEAN, need_resp : BOOLEAN, read_data : Vals \cup {0, 1},
                 is_read_reg : BOOLEAN, reg_we : BOOLEAN, reg_addr : Regs, reg_wdata : Vals,
                 data0 : Vals, sbcs : SbcsUses \cup {Bus!NoFlags}, sbaddress : Bus!Addrs,
                 mem_we : BOOLEAN, mem_addr : Bus!Addrs, mem_wdata : Vals]
  /\ mem \in [Bus!Addrs -> Vals] /\ regfile \in [Regs -> Vals] /\ regfile[0] = 0
  /\ hart \in 0 .. Drain
  /\ dbg \in [gap : 0 .. ScanGap, block : {"none", "new", "read", "last", "write"},
              cursor : Bus!Addrs, asked : BOOLEAN, reg : Regs, data0 : Vals,
              uses : {"memory", "registers"}]

(* A write of the debug module meets a hart at rest, in the clock after    *)
(* its request, and is what memory or registers still lack.                *)
BusWrites ==
  /\ dmregs.mem_we \/ dmregs.reg_we => /\ dbg.gap = ScanGap
                                       /\ dmregs.need_resp /\ dmregs.halt /\ hart = 0
  /\ view.mem = IF dmregs.mem_we THEN Bus!Put(mem, dmregs.mem_addr, dmregs.mem_wdata) ELSE mem
  /\ view.regs = IF dmregs.reg_we THEN Bus!PutReg(regfile, dmregs.reg_addr, dmregs.reg_wdata)
                 ELSE regfile

(* A halted hart is at rest before the next request.                       *)
BusRests == /\ dmregs.halt => hart = 0 \/ hart < dbg.gap
            /\ ~dmregs.halt => hart = Drain \/ dbg.gap = ScanGap

(* Where the debugger is in a transfer, the debug module is as well.       *)
BusFollows ==
  /\ dbg.block # "none" => dmregs.sbaddress = dbg.cursor
  /\ dbg.block = "new" /\ dmregs.sbcs.onaddr => dmregs.mem_addr = dbg.cursor
  /\ dbg.block \in {"read", "last"} => dmregs.mem_addr = dbg.cursor
  /\ dmregs.is_read_reg = dbg.asked /\ dmregs.data0 = dbg.data0
  /\ dbg.asked => dmregs.reg_addr = dbg.reg

(* The inductive invariant.                                                *)
BusInv == BusTyped /\ BusWrites /\ BusRests /\ BusFollows /\ Bus!AnswersTrue

Ops == {"none", "halt", "resume", "inactive", "dmstatus", "sbread", "sbcs", "sbaddress", "sbwrite",
        "dpc", "data0read", "data0write", "regread", "regwrite"}

(* What a request carries.                                                 *)
LEMMA BusRequest ==
  ASSUME NEW uses \in {"memory", "registers"}, NEW ask \in Bus!Requests[uses] \cup {Bus!None}
  PROVE  /\ ask.op \in Ops
         /\ ask.op = "none" <=> ask = Bus!None
         /\ ask.op = "sbcs" => ask.flags \in SbcsUses
         /\ ask.op = "sbaddress" => ask.addr \in Bus!Addrs
         /\ ask.op = "sbwrite" => ask.data \in Vals
         /\ ask.op = "data0write" => ask.data \in Vals
         /\ ask.op \in {"regread", "regwrite"} => ask.reg \in Regs
<1>1. CASE uses = "memory"
  BY <1>1 DEF Bus!Requests, Bus!Control, Bus!None, Ops
<1>2. CASE uses = "registers"
  BY <1>2 DEF Bus!Requests, Bus!Control, Bus!None, Ops
<1> QED
  BY <1>1, <1>2

(* What the core does in a clock.                                          *)
LEMMA BusCore ==
  ASSUME NEW uses \in {"memory", "registers"}, NEW ex \in Bus!CoreSteps[uses]
  PROVE  /\ ex.mem \in {"none", "load", "store"} /\ ex.reg \in BOOLEAN
         /\ ex.mem = "store" => ex.addr \in Bus!Addrs /\ ex.data \in Vals
         /\ ex.reg => ex.to \in Regs /\ ex.data \in Vals
<1>1. CASE uses = "memory"
  <2>1. ex \in {Bus!Idles, [mem |-> "load", reg |-> FALSE]}
          \cup [mem : {"store"}, reg : {FALSE}, addr : Bus!Addrs, data : Vals]
    BY <1>1 DEF Bus!CoreSteps
  <2>2. CASE ex = Bus!Idles
    BY <2>2 DEF Bus!Idles
  <2>3. CASE ex = [mem |-> "load", reg |-> FALSE]
    BY <2>3
  <2>4. CASE ex \in [mem : {"store"}, reg : {FALSE}, addr : Bus!Addrs, data : Vals]
    BY <2>4
  <2> QED
    BY <2>1, <2>2, <2>3, <2>4
<1>2. CASE uses = "registers"
  <2>1. ex \in {Bus!Idles} \cup [mem : {"none"}, reg : {TRUE}, to : Regs, data : Vals]
    BY <1>2 DEF Bus!CoreSteps
  <2>2. CASE ex = Bus!Idles
    BY <2>2 DEF Bus!Idles
  <2>3. CASE ex \in [mem : {"none"}, reg : {TRUE}, to : Regs, data : Vals]
    BY <2>3
  <2> QED
    BY <2>1, <2>2, <2>3
<1> QED
  BY <1>1, <1>2

(* A clock without a request.                                              *)
LEMMA BusQuiet ==
  ASSUME Bus!DebugBusAssumption, BusInv, NEW ex \in Bus!CoreSteps[dbg.uses],
         Bus!Clock(Bus!None, ex)
  PROVE  BusInv'
<1>1. /\ ex.mem \in {"none", "load", "store"} /\ ex.reg \in BOOLEAN
      /\ ex.mem = "store" => ex.addr \in Bus!Addrs /\ ex.data \in Vals
      /\ ex.reg => ex.to \in Regs /\ ex.data \in Vals
  BY BusCore DEF BusInv, BusTyped
<1>2. /\ Words \in Nat \ {0} /\ ScanGap \in Nat /\ Drain \in 1 .. ScanGap - 1
      /\ 0 \in Vals /\ 0 \in Regs
  BY DEF Bus!DebugBusAssumption
<1>3. /\ dmregs' = [dmregs EXCEPT !.need_resp = FALSE, !.mem_we = FALSE, !.reg_we = FALSE,
                                  !.reset = FALSE]
      /\ mem' = Bus!Mem(Bus!None, ex) /\ regfile' = Bus!RegFile(ex)
  BY DEF Bus!Clock, Bus!Decode, Bus!None
<1>4. /\ dbg' = [dbg EXCEPT !.gap = IF dbg.gap = 0 THEN 0 ELSE dbg.gap - 1]
      /\ hart = 0 => ex = Bus!Idles
      /\ hart' = IF ~dmregs.halt THEN Drain ELSE IF hart = 0 THEN 0 ELSE hart - 1
  BY DEF Bus!Clock, Bus!Debugger, Bus!Core, Bus!Block, Bus!None, BusInv, BusTyped
<1>5. view' = [mem |-> IF ex.mem = "store" THEN Bus!Put(view.mem, ex.addr, ex.data) ELSE view.mem,
               regs |-> IF ex.reg THEN Bus!PutReg(view.regs, ex.to, ex.data) ELSE view.regs]
  BY DEF Bus!Clock, Bus!Promise, Bus!None
<1>6. /\ mem' = IF ex.mem = "store" THEN Bus!Put(mem, ex.addr, ex.data)
                ELSE IF dmregs.mem_we THEN Bus!Put(mem, dmregs.mem_addr, dmregs.mem_wdata) ELSE mem
      /\ dmregs.mem_we => ex.mem # "store"
  BY <1>3, <1>4 DEF Bus!Mem, Bus!Granted, Bus!op_req, Bus!None, Bus!Idles, BusInv, BusWrites
<1>7. /\ regfile' = IF ex.reg THEN Bus!PutReg(regfile, ex.to, ex.data)
                    ELSE IF dmregs.reg_we
                         THEN Bus!PutReg(regfile, dmregs.reg_addr, dmregs.reg_wdata) ELSE regfile
      /\ dmregs.reg_we => ~ex.reg
  BY <1>3, <1>4 DEF Bus!RegFile, Bus!PutReg, Bus!Idles, BusInv, BusWrites
<1>8. BusTyped'
  <2>1. mem' \in [Bus!Addrs -> Vals]
    BY <1>1, <1>6 DEF BusInv, BusTyped, Bus!Put
  <2>2. regfile' \in [Regs -> Vals] /\ regfile'[0] = 0
    BY <1>1, <1>2, <1>7 DEF BusInv, BusTyped, Bus!Put, Bus!PutReg
  <2>3. hart' \in 0 .. Drain
    BY <1>2, <1>4 DEF BusInv, BusTyped
  <2>4. dbg'.gap \in 0 .. ScanGap
    BY <1>2, <1>4 DEF BusInv, BusTyped
  <2> QED
    BY <1>3, <1>4, <2>1, <2>2, <2>3, <2>4 DEF BusInv, BusTyped
<1>9. BusWrites'
  BY <1>3, <1>5, <1>6, <1>7 DEF BusInv, BusTyped, BusWrites
<1>10. BusRests'
  BY <1>2, <1>3, <1>4 DEF BusInv, BusTyped, BusRests
<1>11. BusFollows' /\ Bus!AnswersTrue'
  BY <1>3, <1>4 DEF BusInv, BusTyped, BusFollows, Bus!AnswersTrue
<1> QED
  BY <1>8, <1>9, <1>10, <1>11 DEF BusInv

(* A request.                                                              *)
LEMMA BusAsk ==
  ASSUME Bus!DebugBusAssumption, BusInv, NEW ex \in Bus!CoreSteps[dbg.uses],
         NEW ask \in Bus!Requests[dbg.uses], ask # Bus!None, Bus!Clock(ask, ex)
  PROVE  BusInv'
<1>1. /\ ex.mem \in {"none", "load", "store"} /\ ex.reg \in BOOLEAN
      /\ ex.mem = "store" => ex.addr \in Bus!Addrs /\ ex.data \in Vals
      /\ ex.reg => ex.to \in Regs /\ ex.data \in Vals
  BY BusCore DEF BusInv, BusTyped
<1>2. /\ Words \in Nat \ {0} /\ ScanGap \in Nat /\ Drain \in 1 .. ScanGap - 1
      /\ 0 \in Vals /\ 0 \in Regs /\ DpcReg \in Regs
  BY DEF Bus!DebugBusAssumption
<1>3. /\ ask.op \in Ops \ {"none"}
      /\ ask.op = "sbcs" => ask.flags \in SbcsUses
      /\ ask.op = "sbaddress" => ask.addr \in Bus!Addrs
      /\ ask.op = "sbwrite" => ask.data \in Vals
      /\ ask.op = "data0write" => ask.data \in Vals
      /\ ask.op \in {"regread", "regwrite"} => ask.reg \in Regs
  BY BusRequest DEF BusInv, BusTyped
<1>4. /\ dmregs' = Bus!Decode(ask, ex) /\ mem' = Bus!Mem(ask, ex) /\ regfile' = Bus!RegFile(ex)
      /\ dbg.gap = 0 /\ Bus!Allowed(ask) /\ dbg'.gap = ScanGap /\ dbg'.uses = dbg.uses
      /\ dbg'.block = Bus!Block(ask)
      /\ dbg'.cursor = IF ask.op = "sbaddress" THEN ask.addr
                       ELSE IF ask.op \in {"sbread", "sbwrite"} /\ dmregs.sbcs.auto
                            THEN (dbg.cursor + 1) % Words ELSE dbg.cursor
      /\ dbg'.asked = IF ask.op \in {"regread", "data0read"} THEN ask.op = "regread" ELSE dbg.asked
      /\ dbg'.reg = IF ask.op = "regread" THEN ask.reg ELSE dbg.reg
      /\ dbg'.data0 = IF ask.op = "data0write" THEN ask.data ELSE dbg.data0
      /\ DOMAIN dbg' = {"gap", "block", "cursor", "asked", "reg", "data0", "uses"}
  BY DEF Bus!Clock, Bus!Debugger
<1>5. /\ hart = 0 => ex = Bus!Idles
      /\ hart' = IF ~dmregs.halt THEN Drain ELSE IF hart = 0 THEN 0 ELSE hart - 1
      /\ view'.mem = LET m == IF ex.mem = "store" THEN Bus!Put(view.mem, ex.addr, ex.data) ELSE view.mem
                     IN  IF ask.op = "sbwrite" THEN Bus!Put(m, dbg.cursor, ask.data) ELSE m
      /\ view'.regs = LET r == IF ex.reg THEN Bus!PutReg(view.regs, ex.to, ex.data) ELSE view.regs
                      IN  IF ask.op = "regwrite" THEN Bus!PutReg(r, ask.reg, dbg.data0) ELSE r
  BY DEF Bus!Clock, Bus!Core, Bus!Promise
(* The hart is at rest if it is halted, and nothing is on its way.         *)
<1>6. /\ ~dmregs.mem_we /\ ~dmregs.reg_we /\ view.mem = mem /\ view.regs = regfile
      /\ dmregs.halt => hart = 0
      /\ ~dmregs.halt => hart = Drain
      /\ ask.op \in Bus!Accesses => dmregs.halt /\ hart = 0 /\ ex = Bus!Idles
  BY <1>2, <1>4, <1>5 DEF BusInv, BusTyped, BusWrites, BusRests, Bus!Allowed
<1>7. /\ mem' = IF ex.mem = "store" THEN Bus!Put(mem, ex.addr, ex.data) ELSE mem
      /\ regfile' = IF ex.reg THEN Bus!PutReg(regfile, ex.to, ex.data) ELSE regfile
  BY <1>1, <1>4, <1>6 DEF Bus!Mem, Bus!RegFile, Bus!PutReg
<1>8. /\ mem' \in [Bus!Addrs -> Vals]
      /\ regfile' \in [Regs -> Vals] /\ regfile'[0] = 0
      /\ hart' \in 0 .. Drain /\ (dmregs.halt => hart' = 0)
  BY <1>1, <1>2, <1>5, <1>6, <1>7 DEF BusInv, BusTyped, Bus!Put, Bus!PutReg
<1>9. Bus!Next4 \in Bus!Addrs /\ (dbg.cursor + 1) % Words \in Bus!Addrs
  BY SMTT(20), <1>2 DEF BusInv, BusTyped, Bus!Next4, Bus!Addrs
<1>10. dbg' \in [gap : 0 .. ScanGap, block : {"none", "new", "read", "last", "write"},
                 cursor : Bus!Addrs, asked : BOOLEAN, reg : Regs, data0 : Vals,
                 uses : {"memory", "registers"}]
  <2>1. Bus!Block(ask) \in {"none", "new", "read", "last", "write"}
    BY DEF Bus!Block, BusInv, BusTyped
  <2>2. dbg'.cursor \in Bus!Addrs /\ dbg'.reg \in Regs /\ dbg'.data0 \in Vals /\ dbg'.asked \in BOOLEAN
    BY <1>3, <1>4, <1>9 DEF BusInv, BusTyped
  <2>3. dbg' = [gap |-> dbg'.gap, block |-> dbg'.block, cursor |-> dbg'.cursor,
                asked |-> dbg'.asked, reg |-> dbg'.reg, data0 |-> dbg'.data0, uses |-> dbg'.uses]
    BY DEF Bus!Clock, Bus!Debugger
  <2>4. dbg'.gap \in 0 .. ScanGap /\ dbg'.uses \in {"memory", "registers"}
    BY <1>2, <1>4 DEF BusInv, BusTyped
  <2> QED
    BY <1>4, <2>1, <2>2, <2>3, <2>4
(* What the debug module does, request by request.                         *)
<1>11. /\ dmregs' \in [halt : BOOLEAN, reset : BOOLEAN, need_resp : BOOLEAN,
                       read_data : Vals \cup {0, 1},
                       is_read_reg : BOOLEAN, reg_we : BOOLEAN, reg_addr : Regs, reg_wdata : Vals,
                       data0 : Vals, sbcs : SbcsUses \cup {Bus!NoFlags}, sbaddress : Bus!Addrs,
                       mem_we : BOOLEAN, mem_addr : Bus!Addrs, mem_wdata : Vals]
       /\ dmregs'.need_resp /\ BusFollows' /\ dmregs'.read_data = answer'
       /\ (dmregs'.mem_we <=> ask.op = "sbwrite") /\ (dmregs'.reg_we <=> ask.op = "regwrite")
       /\ ask.op = "sbwrite" => dmregs'.mem_addr = dbg.cursor /\ dmregs'.mem_wdata = ask.data
       /\ ask.op = "regwrite" => dmregs'.reg_addr = ask.reg /\ dmregs'.reg_wdata = dbg.data0
       /\ ask.op \in {"sbwrite", "regwrite"} => dmregs'.halt
  <2> DEFINE Regs_(d) == d \in [halt : BOOLEAN, reset : BOOLEAN, need_resp : BOOLEAN, read_data : Vals \cup {0, 1},
                                is_read_reg : BOOLEAN, reg_we : BOOLEAN, reg_addr : Regs, reg_wdata : Vals,
                                data0 : Vals, sbcs : SbcsUses \cup {Bus!NoFlags}, sbaddress : Bus!Addrs,
                                mem_we : BOOLEAN, mem_addr : Bus!Addrs, mem_wdata : Vals]
  <2>1. CASE ask.op = "halt"
    <3>1. dmregs' = [[dmregs EXCEPT !.need_resp = TRUE, !.read_data = 0] EXCEPT !.halt = TRUE]
      BY <2>1, <1>4 DEF Bus!Decode
    <3>2. dbg'.block = dbg.block /\ dbg'.cursor = dbg.cursor
          /\ dbg'.asked = dbg.asked
          /\ dbg'.reg = dbg.reg
          /\ dbg'.data0 = dbg.data0
      BY <2>1, <1>4 DEF Bus!Block
    <3>3. answer' = 0
      BY <2>1 DEF Bus!Clock, Bus!Answer
    <3>4. Regs_(dmregs')
      BY <3>1, <2>1, <1>2, <1>3 DEF BusInv, BusTyped
    <3>5. BusFollows'
      BY <3>1, <3>2, <2>1, <1>6 DEF BusInv, BusTyped, BusFollows
    <3> QED
      BY <3>1, <3>3, <3>4, <3>5, <2>1, <1>6
         DEF BusInv, BusTyped, BusFollows
  <2>2. CASE ask.op = "resume"
    <3>1. dmregs' = [[dmregs EXCEPT !.need_resp = TRUE, !.read_data = 0] EXCEPT !.halt = FALSE]
      BY <2>2, <1>4 DEF Bus!Decode
    <3>2. dbg'.block = dbg.block /\ dbg'.cursor = dbg.cursor
          /\ dbg'.asked = dbg.asked
          /\ dbg'.reg = dbg.reg
          /\ dbg'.data0 = dbg.data0
      BY <2>2, <1>4 DEF Bus!Block
    <3>3. answer' = 0
      BY <2>2 DEF Bus!Clock, Bus!Answer
    <3>4. Regs_(dmregs')
      BY <3>1, <2>2, <1>2, <1>3 DEF BusInv, BusTyped
    <3>5. BusFollows'
      BY <3>1, <3>2, <2>2, <1>6 DEF BusInv, BusTyped, BusFollows
    <3> QED
      BY <3>1, <3>3, <3>4, <3>5, <2>2, <1>6
         DEF BusInv, BusTyped, BusFollows
  <2>3. CASE ask.op = "inactive"
    <3>1. dmregs' = [[dmregs EXCEPT !.need_resp = TRUE, !.read_data = 0]
                       EXCEPT !.halt = FALSE, !.reset = FALSE, !.sbcs = Bus!NoFlags]
      BY <2>3, <1>4 DEF Bus!Decode
    <3>2. dbg'.block = "none" /\ dbg'.cursor = dbg.cursor
          /\ dbg'.asked = dbg.asked
          /\ dbg'.reg = dbg.reg
          /\ dbg'.data0 = dbg.data0
      BY <2>3, <1>4 DEF Bus!Block
    <3>3. answer' = 0
      BY <2>3 DEF Bus!Clock, Bus!Answer
    <3>4. Regs_(dmregs')
      BY <3>1, <2>3, <1>2, <1>3 DEF BusInv, BusTyped
    <3>5. BusFollows'
      BY <3>1, <3>2, <2>3, <1>6 DEF BusInv, BusTyped, BusFollows
    <3> QED
      BY <3>1, <3>3, <3>4, <3>5, <2>3, <1>6
         DEF BusInv, BusTyped, BusFollows
  <2>4. CASE ask.op = "dpc"
    <3>1. dmregs' = [[dmregs EXCEPT !.need_resp = TRUE, !.read_data = 0]
                       EXCEPT !.halt = FALSE, !.reset = TRUE, !.reg_addr = DpcReg]
      BY <2>4, <1>4 DEF Bus!Decode
    <3>2. dbg'.block = dbg.block /\ dbg'.cursor = dbg.cursor
          /\ dbg'.asked = dbg.asked
          /\ dbg'.reg = dbg.reg
          /\ dbg'.data0 = dbg.data0
      BY <2>4, <1>4 DEF Bus!Block
    <3>3. answer' = 0
      BY <2>4 DEF Bus!Clock, Bus!Answer
    <3>4. Regs_(dmregs')
      BY <3>1, <2>4, <1>2, <1>3 DEF BusInv, BusTyped
    <3>5. BusFollows'
      BY <3>1, <3>2, <2>4, <1>6, <1>4 DEF BusInv, BusTyped, BusFollows, Bus!Allowed
    <3> QED
      BY <3>1, <3>3, <3>4, <3>5, <2>4, <1>6
         DEF BusInv, BusTyped, BusFollows, Bus!Allowed
  <2>5. CASE ask.op = "dmstatus"
    <3>1. dmregs' = [[dmregs EXCEPT !.need_resp = TRUE, !.read_data = 0]
                       EXCEPT !.read_data = IF dmregs.halt THEN 1 ELSE 0]
      BY <2>5, <1>4 DEF Bus!Decode
    <3>2. dbg'.block = dbg.block /\ dbg'.cursor = dbg.cursor
          /\ dbg'.asked = dbg.asked
          /\ dbg'.reg = dbg.reg
          /\ dbg'.data0 = dbg.data0
      BY <2>5, <1>4 DEF Bus!Block
    <3>3. answer' = IF hart = 0 THEN 1 ELSE 0
      BY <2>5 DEF Bus!Clock, Bus!Answer
    <3>4. Regs_(dmregs')
      BY <3>1, <2>5, <1>2, <1>3 DEF BusInv, BusTyped
    <3>5. BusFollows'
      BY <3>1, <3>2, <2>5, <1>6 DEF BusInv, BusTyped, BusFollows
    <3> QED
      BY <3>1, <3>3, <3>4, <3>5, <2>5, <1>2, <1>4, <1>6
         DEF BusInv, BusTyped, BusFollows
  <2>6. CASE ask.op = "sbcs"
    <3>1. dmregs' = [[dmregs EXCEPT !.need_resp = TRUE, !.read_data = 0] EXCEPT !.sbcs = ask.flags]
      BY <2>6, <1>4 DEF Bus!Decode
    <3>2. dbg'.block = (IF dbg.block = "read" THEN "last" ELSE "none") /\ dbg'.cursor = dbg.cursor
          /\ dbg'.asked = dbg.asked
          /\ dbg'.reg = dbg.reg
          /\ dbg'.data0 = dbg.data0
      BY <2>6, <1>4 DEF Bus!Block
    <3>3. answer' = 0
      BY <2>6 DEF Bus!Clock, Bus!Answer
    <3>4. Regs_(dmregs')
      BY <3>1, <2>6, <1>2, <1>3 DEF BusInv, BusTyped
    <3>5. BusFollows'
      BY <3>1, <3>2, <2>6, <1>6 DEF BusInv, BusTyped, BusFollows
    <3> QED
      BY <3>1, <3>3, <3>4, <3>5, <2>6, <1>6
         DEF BusInv, BusTyped, BusFollows
  <2>7. CASE ask.op = "sbaddress"
    <3>1. dmregs' = [[dmregs EXCEPT !.need_resp = TRUE, !.read_data = 0]
                       EXCEPT !.sbaddress = ask.addr,
                              !.mem_addr = IF dmregs.sbcs.onaddr THEN ask.addr ELSE @]
      BY <2>7, <1>4 DEF Bus!Decode
    <3>2. dbg'.block = "new" /\ dbg'.cursor = ask.addr
          /\ dbg'.asked = dbg.asked
          /\ dbg'.reg = dbg.reg
          /\ dbg'.data0 = dbg.data0
      BY <2>7, <1>4 DEF Bus!Block
    <3>3. answer' = 0
      BY <2>7 DEF Bus!Clock, Bus!Answer
    <3>4. Regs_(dmregs')
      BY <3>1, <2>7, <1>2, <1>3 DEF BusInv, BusTyped
    <3>5. BusFollows'
      BY <3>1, <3>2, <2>7, <1>6 DEF BusInv, BusTyped, BusFollows
    <3> QED
      BY <3>1, <3>3, <3>4, <3>5, <2>7, <1>6
         DEF BusInv, BusTyped, BusFollows
  <2>8. CASE ask.op = "sbread"
    <3>0. Bus!ReadData(ask, ex) = mem[dmregs.mem_addr]
      BY <2>8, <1>6 DEF Bus!ReadData, Bus!Granted, Bus!op_req, Bus!Idles, Bus!Accesses
    <3>1. dmregs' = [[[dmregs EXCEPT !.need_resp = TRUE, !.read_data = 0]
                        EXCEPT !.sbaddress = IF dmregs.sbcs.auto THEN Bus!Next4 ELSE @]
                       EXCEPT !.read_data = mem[dmregs.mem_addr],
                              !.mem_addr = IF dmregs.sbcs.ondata THEN Bus!Next4 ELSE @]
      BY <2>8, <1>4, <3>0 DEF Bus!Decode, Bus!Advance
    <3>2. dbg'.block = (IF dbg.block = "last" \/ dmregs.sbcs.ondata # dmregs.sbcs.auto
                         THEN "none" ELSE "read") /\ dbg'.cursor = (IF dmregs.sbcs.auto THEN (dbg.cursor + 1) % Words ELSE dbg.cursor)
          /\ dbg'.asked = dbg.asked
          /\ dbg'.reg = dbg.reg
          /\ dbg'.data0 = dbg.data0
      BY <2>8, <1>4 DEF Bus!Block
    <3>3. answer' = view.mem[dbg.cursor]
      BY <2>8 DEF Bus!Clock, Bus!Answer
    <3>4. Regs_(dmregs')
      BY <3>1, <2>8, <1>2, <1>3, <1>9 DEF BusInv, BusTyped
    <3>5. BusFollows'
      BY <3>1, <3>2, <2>8, <1>6, <1>4 DEF BusInv, BusTyped, BusFollows, Bus!Allowed, Bus!Next4
    <3> QED
      BY <3>1, <3>3, <3>4, <3>5, <2>8, <1>2, <1>4, <1>6
         DEF BusInv, BusTyped, BusFollows, Bus!Allowed, Bus!Next4
  <2>9. CASE ask.op = "sbwrite"
    <3>1. dmregs' = [[[dmregs EXCEPT !.need_resp = TRUE, !.read_data = 0]
                        EXCEPT !.sbaddress = IF dmregs.sbcs.auto THEN Bus!Next4 ELSE @]
                       EXCEPT !.mem_addr = dmregs.sbaddress, !.mem_wdata = ask.data, !.mem_we = TRUE]
      BY <2>9, <1>4 DEF Bus!Decode, Bus!Advance
    <3>2. dbg'.block = "write" /\ dbg'.cursor = (IF dmregs.sbcs.auto THEN (dbg.cursor + 1) % Words ELSE dbg.cursor)
          /\ dbg'.asked = dbg.asked
          /\ dbg'.reg = dbg.reg
          /\ dbg'.data0 = dbg.data0
      BY <2>9, <1>4 DEF Bus!Block
    <3>3. answer' = 0
      BY <2>9 DEF Bus!Clock, Bus!Answer
    <3>4. Regs_(dmregs')
      BY <3>1, <2>9, <1>2, <1>3, <1>9 DEF BusInv, BusTyped
    <3>5. BusFollows'
      BY <3>1, <3>2, <2>9, <1>6, <1>4 DEF BusInv, BusTyped, BusFollows, Bus!Allowed, Bus!Next4, Bus!Accesses
    <3> QED
      BY <3>1, <3>3, <3>4, <3>5, <2>9, <1>2, <1>4, <1>6
         DEF BusInv, BusTyped, BusFollows, Bus!Allowed, Bus!Next4, Bus!Accesses
  <2>10. CASE ask.op = "data0write"
    <3>1. dmregs' = [[dmregs EXCEPT !.need_resp = TRUE, !.read_data = 0] EXCEPT !.data0 = ask.data]
      BY <2>10, <1>4 DEF Bus!Decode
    <3>2. dbg'.block = dbg.block /\ dbg'.cursor = dbg.cursor
          /\ dbg'.asked = dbg.asked
          /\ dbg'.reg = dbg.reg
          /\ dbg'.data0 = ask.data
      BY <2>10, <1>4 DEF Bus!Block
    <3>3. answer' = 0
      BY <2>10 DEF Bus!Clock, Bus!Answer
    <3>4. Regs_(dmregs')
      BY <3>1, <2>10, <1>2, <1>3 DEF BusInv, BusTyped
    <3>5. BusFollows'
      BY <3>1, <3>2, <2>10, <1>6, <1>4 DEF BusInv, BusTyped, BusFollows, Bus!Allowed
    <3> QED
      BY <3>1, <3>3, <3>4, <3>5, <2>10, <1>6
         DEF BusInv, BusTyped, BusFollows, Bus!Allowed
  <2>11. CASE ask.op = "data0read"
    <3>0. /\ Bus!ReadReg \in Vals /\ dmregs.data0 \in Vals
          /\ dbg.asked => Bus!ReadReg = view.regs[dbg.reg]
      BY <1>2, <1>6 DEF Bus!ReadReg, BusInv, BusTyped, BusFollows
    <3>1. dmregs' = [[dmregs EXCEPT !.need_resp = TRUE, !.read_data = 0]
                       EXCEPT !.read_data = IF dmregs.is_read_reg THEN Bus!ReadReg ELSE dmregs.data0,
                              !.is_read_reg = FALSE]
      BY <2>11, <1>4 DEF Bus!Decode
    <3>2. dbg'.block = dbg.block /\ dbg'.cursor = dbg.cursor
          /\ dbg'.asked = FALSE
          /\ dbg'.reg = dbg.reg
          /\ dbg'.data0 = dbg.data0
      BY <2>11, <1>4 DEF Bus!Block
    <3>3. answer' = IF dbg.asked THEN view.regs[dbg.reg] ELSE dbg.data0
      BY <2>11 DEF Bus!Clock, Bus!Answer
    <3>x. PICK val : val = IF dmregs.is_read_reg THEN Bus!ReadReg ELSE dmregs.data0
      OBVIOUS
    <3>y. val \in Vals /\ (~dbg.asked => val = dbg.data0)
          /\ (dbg.asked => val = view.regs[dbg.reg])
      BY <3>x, <3>0, <1>6 DEF BusInv, BusFollows
    <3>z. dmregs' = [[dmregs EXCEPT !.need_resp = TRUE, !.read_data = 0]
                       EXCEPT !.read_data = val, !.is_read_reg = FALSE]
      BY <3>1, <3>x
    <3>4. Regs_(dmregs')
      BY <3>z, <2>11, <1>2, <1>3, <3>y DEF BusInv, BusTyped
    <3>5. BusFollows'
      BY <3>1, <3>2, <2>11, <1>6 DEF BusInv, BusTyped, BusFollows
    <3>6. /\ dmregs'.need_resp /\ dmregs'.read_data = val
          /\ dmregs'.mem_we = dmregs.mem_we /\ dmregs'.reg_we = dmregs.reg_we
      BY <3>z, <1>6 DEF BusInv, BusTyped
    <3>7. answer' = val
      BY <3>3, <3>y
    <3>8. ~dmregs.mem_we /\ ~dmregs.reg_we
      BY <1>6
    <3> QED
      BY <3>4, <3>5, <3>6, <3>7, <3>8, <2>11
  <2>12. CASE ask.op = "regread"
    <3>1. dmregs' = [[dmregs EXCEPT !.need_resp = TRUE, !.read_data = 0]
                       EXCEPT !.reg_addr = ask.reg, !.is_read_reg = TRUE]
      BY <2>12, <1>4 DEF Bus!Decode
    <3>2. dbg'.block = dbg.block /\ dbg'.cursor = dbg.cursor
          /\ dbg'.asked = TRUE
          /\ dbg'.reg = ask.reg
          /\ dbg'.data0 = dbg.data0
      BY <2>12, <1>4 DEF Bus!Block
    <3>3. answer' = 0
      BY <2>12 DEF Bus!Clock, Bus!Answer
    <3>4. Regs_(dmregs')
      BY <3>1, <2>12, <1>2, <1>3 DEF BusInv, BusTyped
    <3>5. BusFollows'
      BY <3>1, <3>2, <2>12, <1>6 DEF BusInv, BusTyped, BusFollows
    <3> QED
      BY <3>1, <3>3, <3>4, <3>5, <2>12, <1>6
         DEF BusInv, BusTyped, BusFollows
  <2>13. CASE ask.op = "regwrite"
    <3>1. dmregs' = [[dmregs EXCEPT !.need_resp = TRUE, !.read_data = 0]
                       EXCEPT !.reg_addr = ask.reg, !.reg_we = TRUE, !.reg_wdata = dmregs.data0]
      BY <2>13, <1>4 DEF Bus!Decode
    <3>2. dbg'.block = dbg.block /\ dbg'.cursor = dbg.cursor
          /\ dbg'.asked = dbg.asked
          /\ dbg'.reg = dbg.reg
          /\ dbg'.data0 = dbg.data0
      BY <2>13, <1>4 DEF Bus!Block
    <3>3. answer' = 0
      BY <2>13 DEF Bus!Clock, Bus!Answer
    <3>4. Regs_(dmregs')
      BY <3>1, <2>13, <1>2, <1>3 DEF BusInv, BusTyped
    <3>5. BusFollows'
      BY <3>1, <3>2, <2>13, <1>6, <1>4 DEF BusInv, BusTyped, BusFollows, Bus!Allowed, Bus!Accesses
    <3> QED
      BY <3>1, <3>3, <3>4, <3>5, <2>13, <1>2, <1>4, <1>6
         DEF BusInv, BusTyped, BusFollows, Bus!Allowed, Bus!Accesses
  <2> QED
    BY <1>3, <2>1, <2>2, <2>3, <2>4, <2>5, <2>6, <2>7, <2>8, <2>9, <2>10, <2>11, <2>12, <2>13 DEF Ops
<1>12. BusTyped'
  BY <1>8, <1>10, <1>11 DEF BusTyped
<1>13. BusWrites'
  BY <1>4, <1>5, <1>6, <1>7, <1>8, <1>11 DEF BusWrites, Bus!Accesses, Bus!Idles
<1>14. BusRests'
  BY <1>2, <1>4, <1>8 DEF BusRests
<1> QED
  BY <1>11, <1>12, <1>13, <1>14 DEF BusInv, Bus!AnswersTrue


LEMMA BusInit == ASSUME Bus!DebugBusAssumption, Bus!Init PROVE BusInv
<1>1. /\ Words \in Nat \ {0} /\ ScanGap \in Nat /\ Drain \in 1 .. ScanGap - 1
      /\ 0 \in Vals /\ 0 \in Regs /\ 0 \in Bus!Addrs
  BY DEF Bus!DebugBusAssumption, Bus!Addrs
<1>2. BusTyped
  <2>1. /\ mem \in [Bus!Addrs -> Vals] /\ regfile \in [Regs -> Vals] /\ regfile[0] = 0
        /\ hart \in 0 .. Drain
    BY <1>1 DEF Bus!Init
  <2>2. dmregs \in [halt : BOOLEAN, reset : BOOLEAN, need_resp : BOOLEAN, read_data : Vals \cup {0, 1},
                 is_read_reg : BOOLEAN, reg_we : BOOLEAN, reg_addr : Regs, reg_wdata : Vals,
                 data0 : Vals, sbcs : SbcsUses \cup {Bus!NoFlags}, sbaddress : Bus!Addrs,
                 mem_we : BOOLEAN, mem_addr : Bus!Addrs, mem_wdata : Vals]
    BY <1>1 DEF Bus!Init
  <2>3. dbg \in [gap : 0 .. ScanGap, block : {"none", "new", "read", "last", "write"},
              cursor : Bus!Addrs, asked : BOOLEAN, reg : Regs, data0 : Vals,
              uses : {"memory", "registers"}]
    <3>1. PICK u \in {"memory", "registers"} :
            dbg = [gap |-> 0, block |-> "none", cursor |-> 0, asked |-> FALSE, reg |-> 0,
                   data0 |-> 0, uses |-> u]
      BY DEF Bus!Init
    <3> QED
      BY <1>1, <3>1
  <2> QED
    BY <2>1, <2>2, <2>3 DEF BusTyped
<1>3. BusWrites /\ BusRests /\ BusFollows /\ Bus!AnswersTrue
  BY <1>1 DEF Bus!Init, BusWrites, BusRests, BusFollows, Bus!AnswersTrue
<1> QED
  BY <1>2, <1>3 DEF BusInv

(* One clock with or without a request preserves the invariant.            *)
LEMMA BusStep == ASSUME Bus!DebugBusAssumption, BusInv, Bus!Next PROVE BusInv'
<1>1. PICK ask \in Bus!Requests[dbg.uses] \cup {Bus!None}, ex \in Bus!CoreSteps[dbg.uses] :
        Bus!Clock(ask, ex)
  BY DEF Bus!Next
<1>2. CASE ask = Bus!None
  BY <1>1, <1>2, BusQuiet
<1>3. CASE ask # Bus!None
  <2>1. ask \in Bus!Requests[dbg.uses]
    BY <1>1, <1>3
  <2> QED
    BY <1>1, <1>3, <2>1, BusAsk
<1> QED
  BY <1>2, <1>3

(* The invariant is as strong as what the runs check.                      *)
LEMMA BusHolds == BusInv => Bus!TypeOK /\ Bus!NoAccessLost /\ Bus!AnswersTrue
<1> SUFFICES ASSUME BusInv PROVE Bus!TypeOK /\ Bus!NoAccessLost /\ Bus!AnswersTrue
  OBVIOUS
<1>1. Bus!TypeOK
  BY DEF BusInv, BusTyped, Bus!TypeOK
<1>2. Bus!NoAccessLost
  BY DEF BusInv, BusTyped, BusWrites, Bus!NoAccessLost
<1> QED
  BY <1>1, <1>2 DEF BusInv

LEMMA BusAlways == ASSUME Bus!DebugBusAssumption PROVE MCSpec => []BusInv
<1>1. MCInit => BusInv
  BY BusInit DEF MCInit
<1>2. BusInv /\ [MCNext]_blocksVars => BusInv'
  <2> SUFFICES ASSUME BusInv, [MCNext]_blocksVars PROVE BusInv'
    OBVIOUS
  <2>1. CASE Bus!Next
    BY <2>1, BusStep
  <2>2. CASE UNCHANGED busVars
    BY <2>2 DEF busVars, BusInv, BusTyped, BusWrites, BusRests, BusFollows, Bus!AnswersTrue
  <2> QED
    BY <2>1, <2>2 DEF MCNext, blocksVars
<1> QED
  BY <1>1, <1>2, PTL DEF MCSpec

-----------------------------------------------------------------------------
(* The timer and the program that its interrupts serve                     *)
(* (timer.v:57-94, timer_int/main.c).                                      *)

(* Time enough for the handler to return and for one more instruction      *)
(* before the timer expires again, and a number of ticks that one late     *)
(* interrupt does not reach.                                               *)
UnhurriedTimer == Period >= 3 * (MaxGap + 1) - 1 /\ Ticks >= 2

(* The registers of the timer and the place of the program.                *)
TmrTyped ==
  /\ branch \in {"simulation", "board"}
  /\ timer \in [en : BOOLEAN, int_en : BOOLEAN, pending : BOOLEAN,
                count : 0 .. Period, value : {0, Period}]
  /\ prog \in [pc : Tmr!Main \cup Tmr!Handler, back : Tmr!Main, old : BOOLEAN,
               n : 0 .. Ticks + 2, gap : 0 .. MaxGap]
  /\ owed \in Int

(* What the timer holds at each step of the program.                       *)
TmrHolds ==
  /\ timer.pending => ~timer.en
  /\ prog.pc # "value" => timer.value = Period
  /\ prog.pc \in {"value", "ctrl"} =>
       ~timer.en /\ ~timer.int_en /\ ~timer.pending /\ prog.n = 0
  /\ prog.pc \in {"read", "write"} => timer.pending
  /\ prog.pc = "count" => timer.en /\ ~timer.pending /\ timer.count <= prog.gap
  /\ prog.pc = "mret" => timer.en /\ ~timer.pending /\ timer.count <= MaxGap + 1 + prog.gap
  /\ prog.pc \in Tmr!Handler => \/ prog.back = "poll"
                                \/ prog.back = "stop" /\ branch = "simulation"
                                \/ prog.back \in {"zero", "toggle"} /\ branch = "board"
  /\ branch = "simulation" /\ prog.pc \in {"zero", "done"} => ~timer.int_en
  /\ prog.pc = "toggle" => branch = "board"
  /\ prog.pc \in {"stop", "done"} => branch = "simulation"

(* The handler has returned and the program has not moved since: the timer *)
(* has not expired.                                                        *)
Fresh == timer.en /\ ~timer.pending /\ timer.count <= 2 * (MaxGap + 1) + prog.gap

(* How many ticks the program has counted at each of its steps.            *)
TmrCounts ==
  /\ prog.pc = "poll" => prog.n <= Ticks /\ (prog.n = Ticks => Fresh)
  /\ prog.pc = "stop" => prog.n = Ticks \/ (prog.n = Ticks + 1 /\ Fresh)
  /\ prog.pc = "zero" => \/ prog.n = Ticks
                         \/ prog.n = Ticks + 1 /\ (branch = "board" => Fresh)
  /\ prog.pc = "toggle" => prog.n = 0 \/ (prog.n = 1 /\ Fresh)
  /\ prog.pc \in {"read", "write", "count"} /\ prog.back \in {"stop", "zero"} => prog.n = Ticks
  /\ prog.pc \in {"read", "write", "count"} /\ prog.back = "toggle" => prog.n = 0
  /\ prog.pc \in {"read", "write", "count"} /\ prog.back = "poll" => prog.n < Ticks
  /\ prog.pc = "mret" /\ prog.back \in {"stop", "zero"} => prog.n = Ticks + 1
  /\ prog.pc = "mret" /\ prog.back = "toggle" => prog.n = 1
  /\ prog.pc = "mret" /\ prog.back = "poll" => prog.n <= Ticks

(* The inductive invariant.                                                *)
TmrInv == TmrTyped /\ TmrHolds /\ TmrCounts /\ Tmr!EveryPeriodCounts

(* The numbers, as the provers use them.                                   *)
LEMMA TmrNumbers ==
  ASSUME Tmr!TinyTimerAssumption, UnhurriedTimer
  PROVE  /\ Period \in Nat \ {0} /\ Ticks \in Nat /\ Ticks >= 2 /\ MaxGap \in Nat
         /\ Period >= 3 * (MaxGap + 1) - 1
  BY DEF Tmr!TinyTimerAssumption, UnhurriedTimer

(* A clock without a write of the program.                                 *)
LEMMA TmrNoAccess ==
  ASSUME Tmr!TinyTimerAssumption, UnhurriedTimer, TmrInv, Tmr!NoAccess
  PROVE  /\ timer' \in [en : BOOLEAN, int_en : BOOLEAN, pending : BOOLEAN,
                        count : 0 .. Period, value : {0, Period}]
         /\ timer'.int_en = timer.int_en /\ timer'.value = timer.value
         /\ timer'.pending => ~timer'.en
         /\ timer.pending => timer'.pending
         /\ Tmr!Expires => ~timer.pending /\ timer'.pending
         /\ ~Tmr!Expires => (timer'.pending <=> timer.pending) /\ (timer'.en <=> timer.en)
         /\ timer.en /\ ~Tmr!Expires => timer'.count = timer.count + 1
<1>1. /\ timer.en \in BOOLEAN /\ timer.int_en \in BOOLEAN /\ timer.pending \in BOOLEAN
      /\ timer.count \in 0 .. Period /\ timer.value \in {0, Period}
      /\ timer.pending => ~timer.en
      /\ timer = [en |-> timer.en, int_en |-> timer.int_en, pending |-> timer.pending,
                  count |-> timer.count, value |-> timer.value]
  BY DEF TmrInv, TmrTyped, TmrHolds
<1>2. Tmr!Count \in 0 .. Period /\ (timer.en /\ ~Tmr!Expires => Tmr!Count = timer.count + 1)
  BY <1>1, TmrNumbers DEF Tmr!Count, Tmr!Expires
<1>3. timer' = [en |-> timer.en /\ ~Tmr!Expires, int_en |-> timer.int_en,
                pending |-> timer.pending \/ Tmr!Expires, count |-> Tmr!Count,
                value |-> timer.value]
  BY <1>1 DEF Tmr!NoAccess
<1>4. Tmr!Expires \in BOOLEAN /\ (Tmr!Expires => timer.en)
  BY <1>1 DEF Tmr!Expires
<1> QED
  BY <1>1, <1>2, <1>3, <1>4

(* A clock in which the program writes the control register.               *)
LEMMA TmrWriteCtrl ==
  ASSUME Tmr!TinyTimerAssumption, UnhurriedTimer, TmrInv,
         NEW en \in BOOLEAN, NEW int_en \in BOOLEAN, NEW clear \in BOOLEAN,
         Tmr!WriteCtrl(en, int_en, clear)
  PROVE  /\ timer' \in [en : BOOLEAN, int_en : BOOLEAN, pending : BOOLEAN,
                        count : 0 .. Period, value : {0, Period}]
         /\ timer'.en = en /\ timer'.int_en = int_en /\ timer'.value = timer.value
         /\ timer'.pending <=> (timer.pending /\ ~clear)
         /\ ~timer.en => timer'.count = 0
<1>1. /\ timer.en \in BOOLEAN /\ timer.pending \in BOOLEAN
      /\ timer.count \in 0 .. Period /\ timer.value \in {0, Period}
      /\ timer = [en |-> timer.en, int_en |-> timer.int_en, pending |-> timer.pending,
                  count |-> timer.count, value |-> timer.value]
  BY DEF TmrInv, TmrTyped
<1>2. Tmr!Count \in 0 .. Period /\ (~timer.en => Tmr!Count = 0)
  BY <1>1, TmrNumbers DEF Tmr!Count, Tmr!Expires
<1>3. timer' = [en |-> en, int_en |-> int_en, pending |-> timer.pending /\ ~clear,
                count |-> Tmr!Count, value |-> timer.value]
  BY <1>1 DEF Tmr!WriteCtrl
<1> QED
  BY <1>1, <1>2, <1>3
(* A clock of the timer with a step of the program.                        *)
LEMMA TmrStep ==
  ASSUME Tmr!TinyTimerAssumption, UnhurriedTimer, TmrInv, Tmr!Next
  PROVE  TmrInv'
<1> USE TmrNumbers
<1>1. /\ timer.en \in BOOLEAN /\ timer.int_en \in BOOLEAN /\ timer.pending \in BOOLEAN
      /\ timer.count \in 0 .. Period /\ timer.value \in {0, Period}
      /\ prog.pc \in Tmr!Main \cup Tmr!Handler /\ prog.back \in Tmr!Main /\ prog.old \in BOOLEAN
      /\ prog.n \in 0 .. Ticks + 2 /\ prog.gap \in 0 .. MaxGap
      /\ prog = [pc |-> prog.pc, back |-> prog.back, old |-> prog.old, n |-> prog.n,
                 gap |-> prog.gap]
      /\ branch \in {"simulation", "board"} /\ owed \in Int
  BY DEF TmrInv, TmrTyped
<1>2. /\ branch' = branch
      /\ owed' = owed + (IF Tmr!Expires THEN 1 ELSE 0)
                      - (IF prog.pc = "count" /\ prog'.pc # prog.pc THEN 1 ELSE 0)
  BY DEF Tmr!Next, Tmr!Clock
<1>3. CASE prog.pc = "value" /\ Tmr!WriteValue /\ prog' = Tmr!Goto("ctrl")
  <2>2. prog' = [pc |-> "ctrl",
                  back |-> prog.back, old |-> prog.old, n |-> prog.n, gap |-> 0]
    BY <1>3, <1>1 DEF Tmr!Goto
  <2>3. /\ timer' = [en |-> FALSE, int_en |-> timer.int_en, pending |-> timer.pending,
                     count |-> 0, value |-> Period]
        /\ ~timer.en /\ ~Tmr!Expires
    BY <1>3, <1>1 DEF Tmr!WriteValue, Tmr!Count, Tmr!Expires, TmrInv, TmrTyped, TmrHolds
  <2>4. TmrTyped'
    BY <1>3, <1>1, <1>2, <2>2, <2>3 DEF TmrInv, TmrTyped, TmrHolds, TmrCounts, Tmr!Main, Tmr!Handler
  <2>5. TmrHolds'
    BY <1>3, <1>1, <1>2, <2>2, <2>3 DEF TmrInv, TmrHolds, Tmr!Main, Tmr!Handler
  <2>6. TmrCounts'
    BY <1>3, <1>1, <1>2, <2>2, <2>3 DEF TmrInv, TmrHolds, TmrCounts, Fresh, Tmr!Main, Tmr!Handler
  <2>7. Tmr!EveryPeriodCounts'
    BY <1>3, <1>1, <1>2, <2>2, <2>3
       DEF TmrInv, TmrHolds, Tmr!EveryPeriodCounts, Tmr!Stopped, Tmr!Here, Tmr!Main, Tmr!Handler
  <2> QED
    BY <2>4, <2>5, <2>6, <2>7 DEF TmrInv
<1>4. CASE prog.pc = "ctrl" /\ Tmr!WriteCtrl(TRUE, TRUE, TRUE) /\ prog' = Tmr!Goto("poll")
  <2>2. prog' = [pc |-> "poll",
                  back |-> prog.back, old |-> prog.old, n |-> prog.n, gap |-> 0]
    BY <1>4, <1>1 DEF Tmr!Goto
  <2>3. /\ timer' \in [en : BOOLEAN, int_en : BOOLEAN, pending : BOOLEAN,
                        count : 0 .. Period, value : {0, Period}]
        /\ timer'.en = TRUE /\ timer'.int_en = TRUE /\ timer'.value = timer.value
        /\ timer'.pending <=> (timer.pending /\ ~TRUE)
        /\ ~timer.en => timer'.count = 0
        /\ Tmr!Expires => timer.en
    BY <1>4, <1>1, TmrWriteCtrl DEF Tmr!Expires
  <2>4. TmrTyped'
    BY <1>4, <1>1, <1>2, <2>2, <2>3 DEF TmrInv, TmrTyped, TmrHolds, TmrCounts, Tmr!Main, Tmr!Handler
  <2>5. TmrHolds'
    BY <1>4, <1>1, <1>2, <2>2, <2>3 DEF TmrInv, TmrHolds, Tmr!Main, Tmr!Handler
  <2>6. TmrCounts'
    BY <1>4, <1>1, <1>2, <2>2, <2>3 DEF TmrInv, TmrHolds, TmrCounts, Fresh, Tmr!Main, Tmr!Handler
  <2>7. Tmr!EveryPeriodCounts'
    BY <1>4, <1>1, <1>2, <2>2, <2>3
       DEF TmrInv, TmrHolds, Tmr!EveryPeriodCounts, Tmr!Stopped, Tmr!Here, Tmr!Main, Tmr!Handler
  <2> QED
    BY <2>4, <2>5, <2>6, <2>7 DEF TmrInv
<1>5. CASE Tmr!Poll
  <2>1. prog.pc = "poll" /\ Tmr!NoAccess
    BY <1>5 DEF Tmr!Poll, Tmr!int_sig
  <2>2. prog' = [pc |-> IF prog.n # Ticks THEN "poll"
                        ELSE IF branch = "board" THEN "zero" ELSE "stop",
                  back |-> prog.back, old |-> prog.old, n |-> prog.n, gap |-> 0]
    BY <1>5, <1>1 DEF Tmr!Poll, Tmr!Goto
  <2>3. /\ timer' \in [en : BOOLEAN, int_en : BOOLEAN, pending : BOOLEAN,
                        count : 0 .. Period, value : {0, Period}]
        /\ timer'.int_en = timer.int_en /\ timer'.value = timer.value
        /\ timer'.pending => ~timer'.en
        /\ timer.pending => timer'.pending
        /\ Tmr!Expires => ~timer.pending /\ timer'.pending
        /\ ~Tmr!Expires => (timer'.pending <=> timer.pending) /\ (timer'.en <=> timer.en)
        /\ timer.en /\ ~Tmr!Expires => timer'.count = timer.count + 1
        /\ Tmr!Expires => timer.en /\ timer.count >= timer.value
    BY <2>1, <1>1, TmrNoAccess DEF Tmr!Expires
  <2>4. TmrTyped'
    BY <2>1, <1>1, <1>2, <2>2, <2>3 DEF TmrInv, TmrTyped, TmrHolds, TmrCounts, Tmr!Main, Tmr!Handler
  <2>5. TmrHolds'
    BY <2>1, <1>1, <1>2, <2>2, <2>3 DEF TmrInv, TmrHolds, Tmr!Main, Tmr!Handler
  <2>6. TmrCounts'
    BY <2>1, <1>1, <1>2, <2>2, <2>3 DEF TmrInv, TmrHolds, TmrCounts, Fresh, Tmr!Main, Tmr!Handler
  <2>7. Tmr!EveryPeriodCounts'
    BY <2>1, <1>1, <1>2, <2>2, <2>3
       DEF TmrInv, TmrHolds, Tmr!EveryPeriodCounts, Tmr!Stopped, Tmr!Here, Tmr!Main, Tmr!Handler
  <2> QED
    BY <2>4, <2>5, <2>6, <2>7 DEF TmrInv
<1>6. CASE prog.pc = "stop" /\ Tmr!WriteCtrl(FALSE, FALSE, FALSE) /\ prog' = Tmr!Goto("zero")
  <2>2. prog' = [pc |-> "zero",
                  back |-> prog.back, old |-> prog.old, n |-> prog.n, gap |-> 0]
    BY <1>6, <1>1 DEF Tmr!Goto
  <2>3. /\ timer' \in [en : BOOLEAN, int_en : BOOLEAN, pending : BOOLEAN,
                        count : 0 .. Period, value : {0, Period}]
        /\ timer'.en = FALSE /\ timer'.int_en = FALSE /\ timer'.value = timer.value
        /\ timer'.pending <=> (timer.pending /\ ~FALSE)
        /\ ~timer.en => timer'.count = 0
        /\ Tmr!Expires => timer.en
    BY <1>6, <1>1, TmrWriteCtrl DEF Tmr!Expires
  <2>4. TmrTyped'
    BY <1>6, <1>1, <1>2, <2>2, <2>3 DEF TmrInv, TmrTyped, TmrHolds, TmrCounts, Tmr!Main, Tmr!Handler
  <2>5. TmrHolds'
    BY <1>6, <1>1, <1>2, <2>2, <2>3 DEF TmrInv, TmrHolds, Tmr!Main, Tmr!Handler
  <2>6. TmrCounts'
    BY <1>6, <1>1, <1>2, <2>2, <2>3 DEF TmrInv, TmrHolds, TmrCounts, Fresh, Tmr!Main, Tmr!Handler
  <2>7. Tmr!EveryPeriodCounts'
    BY <1>6, <1>1, <1>2, <2>2, <2>3
       DEF TmrInv, TmrHolds, Tmr!EveryPeriodCounts, Tmr!Stopped, Tmr!Here, Tmr!Main, Tmr!Handler
  <2> QED
    BY <2>4, <2>5, <2>6, <2>7 DEF TmrInv
<1>7. CASE prog.pc = "zero" /\ Tmr!NoAccess
        /\ prog' = [Tmr!Goto(IF branch = "board" THEN "toggle" ELSE "done") EXCEPT !.n = 0]
  <2>2. prog' = [pc |-> IF branch = "board" THEN "toggle" ELSE "done",
                  back |-> prog.back, old |-> prog.old, n |-> 0, gap |-> 0]
    BY <1>7, <1>1 DEF Tmr!Goto
  <2>3. /\ timer' \in [en : BOOLEAN, int_en : BOOLEAN, pending : BOOLEAN,
                        count : 0 .. Period, value : {0, Period}]
        /\ timer'.int_en = timer.int_en /\ timer'.value = timer.value
        /\ timer'.pending => ~timer'.en
        /\ timer.pending => timer'.pending
        /\ Tmr!Expires => ~timer.pending /\ timer'.pending
        /\ ~Tmr!Expires => (timer'.pending <=> timer.pending) /\ (timer'.en <=> timer.en)
        /\ timer.en /\ ~Tmr!Expires => timer'.count = timer.count + 1
        /\ Tmr!Expires => timer.en /\ timer.count >= timer.value
    BY <1>7, <1>1, TmrNoAccess DEF Tmr!Expires
  <2>4. TmrTyped'
    BY <1>7, <1>1, <1>2, <2>2, <2>3 DEF TmrInv, TmrTyped, TmrHolds, TmrCounts, Tmr!Main, Tmr!Handler
  <2>5. TmrHolds'
    BY <1>7, <1>1, <1>2, <2>2, <2>3 DEF TmrInv, TmrHolds, Tmr!Main, Tmr!Handler
  <2>6. TmrCounts'
    BY <1>7, <1>1, <1>2, <2>2, <2>3 DEF TmrInv, TmrHolds, TmrCounts, Fresh, Tmr!Main, Tmr!Handler
  <2>7. Tmr!EveryPeriodCounts'
    BY <1>7, <1>1, <1>2, <2>2, <2>3
       DEF TmrInv, TmrHolds, Tmr!EveryPeriodCounts, Tmr!Stopped, Tmr!Here, Tmr!Main, Tmr!Handler
  <2> QED
    BY <2>4, <2>5, <2>6, <2>7 DEF TmrInv
<1>8. CASE prog.pc = "toggle" /\ Tmr!NoAccess /\ prog' = Tmr!Goto("poll")
  <2>2. prog' = [pc |-> "poll",
                  back |-> prog.back, old |-> prog.old, n |-> prog.n, gap |-> 0]
    BY <1>8, <1>1 DEF Tmr!Goto
  <2>3. /\ timer' \in [en : BOOLEAN, int_en : BOOLEAN, pending : BOOLEAN,
                        count : 0 .. Period, value : {0, Period}]
        /\ timer'.int_en = timer.int_en /\ timer'.value = timer.value
        /\ timer'.pending => ~timer'.en
        /\ timer.pending => timer'.pending
        /\ Tmr!Expires => ~timer.pending /\ timer'.pending
        /\ ~Tmr!Expires => (timer'.pending <=> timer.pending) /\ (timer'.en <=> timer.en)
        /\ timer.en /\ ~Tmr!Expires => timer'.count = timer.count + 1
        /\ Tmr!Expires => timer.en /\ timer.count >= timer.value
    BY <1>8, <1>1, TmrNoAccess DEF Tmr!Expires
  <2>4. TmrTyped'
    BY <1>8, <1>1, <1>2, <2>2, <2>3 DEF TmrInv, TmrTyped, TmrHolds, TmrCounts, Tmr!Main, Tmr!Handler
  <2>5. TmrHolds'
    BY <1>8, <1>1, <1>2, <2>2, <2>3 DEF TmrInv, TmrHolds, Tmr!Main, Tmr!Handler
  <2>6. TmrCounts'
    BY <1>8, <1>1, <1>2, <2>2, <2>3 DEF TmrInv, TmrHolds, TmrCounts, Fresh, Tmr!Main, Tmr!Handler
  <2>7. Tmr!EveryPeriodCounts'
    BY <1>8, <1>1, <1>2, <2>2, <2>3
       DEF TmrInv, TmrHolds, Tmr!EveryPeriodCounts, Tmr!Stopped, Tmr!Here, Tmr!Main, Tmr!Handler
  <2> QED
    BY <2>4, <2>5, <2>6, <2>7 DEF TmrInv
<1>9. CASE prog.pc = "read" /\ Tmr!NoAccess
        /\ prog' = [Tmr!Goto("write") EXCEPT !.old = timer.int_en]
  <2>2. prog' = [pc |-> "write",
                  back |-> prog.back, old |-> timer.int_en, n |-> prog.n, gap |-> 0]
    BY <1>9, <1>1 DEF Tmr!Goto
  <2>3. /\ timer' \in [en : BOOLEAN, int_en : BOOLEAN, pending : BOOLEAN,
                        count : 0 .. Period, value : {0, Period}]
        /\ timer'.int_en = timer.int_en /\ timer'.value = timer.value
        /\ timer'.pending => ~timer'.en
        /\ timer.pending => timer'.pending
        /\ Tmr!Expires => ~timer.pending /\ timer'.pending
        /\ ~Tmr!Expires => (timer'.pending <=> timer.pending) /\ (timer'.en <=> timer.en)
        /\ timer.en /\ ~Tmr!Expires => timer'.count = timer.count + 1
        /\ Tmr!Expires => timer.en /\ timer.count >= timer.value
    BY <1>9, <1>1, TmrNoAccess DEF Tmr!Expires
  <2>4. TmrTyped'
    BY <1>9, <1>1, <1>2, <2>2, <2>3 DEF TmrInv, TmrTyped, TmrHolds, TmrCounts, Tmr!Main, Tmr!Handler
  <2>5. TmrHolds'
    BY <1>9, <1>1, <1>2, <2>2, <2>3 DEF TmrInv, TmrHolds, Tmr!Main, Tmr!Handler
  <2>6. TmrCounts'
    BY <1>9, <1>1, <1>2, <2>2, <2>3 DEF TmrInv, TmrHolds, TmrCounts, Fresh, Tmr!Main, Tmr!Handler
  <2>7. Tmr!EveryPeriodCounts'
    BY <1>9, <1>1, <1>2, <2>2, <2>3
       DEF TmrInv, TmrHolds, Tmr!EveryPeriodCounts, Tmr!Stopped, Tmr!Here, Tmr!Main, Tmr!Handler
  <2> QED
    BY <2>4, <2>5, <2>6, <2>7 DEF TmrInv
<1>10. CASE prog.pc = "write" /\ Tmr!WriteCtrl(TRUE, prog.old, TRUE) /\ prog' = Tmr!Goto("count")
  <2>2. prog' = [pc |-> "count",
                  back |-> prog.back, old |-> prog.old, n |-> prog.n, gap |-> 0]
    BY <1>10, <1>1 DEF Tmr!Goto
  <2>3. /\ timer' \in [en : BOOLEAN, int_en : BOOLEAN, pending : BOOLEAN,
                        count : 0 .. Period, value : {0, Period}]
        /\ timer'.en = TRUE /\ timer'.int_en = prog.old /\ timer'.value = timer.value
        /\ timer'.pending <=> (timer.pending /\ ~TRUE)
        /\ ~timer.en => timer'.count = 0
        /\ Tmr!Expires => timer.en
    BY <1>10, <1>1, TmrWriteCtrl DEF Tmr!Expires
  <2>4. TmrTyped'
    BY <1>10, <1>1, <1>2, <2>2, <2>3 DEF TmrInv, TmrTyped, TmrHolds, TmrCounts, Tmr!Main, Tmr!Handler
  <2>5. TmrHolds'
    BY <1>10, <1>1, <1>2, <2>2, <2>3 DEF TmrInv, TmrHolds, Tmr!Main, Tmr!Handler
  <2>6. TmrCounts'
    BY <1>10, <1>1, <1>2, <2>2, <2>3 DEF TmrInv, TmrHolds, TmrCounts, Fresh, Tmr!Main, Tmr!Handler
  <2>7. Tmr!EveryPeriodCounts'
    BY <1>10, <1>1, <1>2, <2>2, <2>3
       DEF TmrInv, TmrHolds, Tmr!EveryPeriodCounts, Tmr!Stopped, Tmr!Here, Tmr!Main, Tmr!Handler
  <2> QED
    BY <2>4, <2>5, <2>6, <2>7 DEF TmrInv
<1>11. CASE prog.pc = "count" /\ Tmr!NoAccess /\ prog' = [Tmr!Goto("mret") EXCEPT !.n = @ + 1]
  <2>2. prog' = [pc |-> "mret",
                  back |-> prog.back, old |-> prog.old, n |-> prog.n + 1, gap |-> 0]
    BY <1>11, <1>1 DEF Tmr!Goto
  <2>3. /\ timer' \in [en : BOOLEAN, int_en : BOOLEAN, pending : BOOLEAN,
                        count : 0 .. Period, value : {0, Period}]
        /\ timer'.int_en = timer.int_en /\ timer'.value = timer.value
        /\ timer'.pending => ~timer'.en
        /\ timer.pending => timer'.pending
        /\ Tmr!Expires => ~timer.pending /\ timer'.pending
        /\ ~Tmr!Expires => (timer'.pending <=> timer.pending) /\ (timer'.en <=> timer.en)
        /\ timer.en /\ ~Tmr!Expires => timer'.count = timer.count + 1
        /\ Tmr!Expires => timer.en /\ timer.count >= timer.value
    BY <1>11, <1>1, TmrNoAccess DEF Tmr!Expires
  <2>4. TmrTyped'
    BY <1>11, <1>1, <1>2, <2>2, <2>3 DEF TmrInv, TmrTyped, TmrHolds, TmrCounts, Tmr!Main, Tmr!Handler
  <2>5. TmrHolds'
    BY <1>11, <1>1, <1>2, <2>2, <2>3 DEF TmrInv, TmrHolds, Tmr!Main, Tmr!Handler
  <2>6. TmrCounts'
    BY <1>11, <1>1, <1>2, <2>2, <2>3 DEF TmrInv, TmrHolds, TmrCounts, Fresh, Tmr!Main, Tmr!Handler
  <2>7. Tmr!EveryPeriodCounts'
    BY <1>11, <1>1, <1>2, <2>2, <2>3
       DEF TmrInv, TmrHolds, Tmr!EveryPeriodCounts, Tmr!Stopped, Tmr!Here, Tmr!Main, Tmr!Handler
  <2> QED
    BY <2>4, <2>5, <2>6, <2>7 DEF TmrInv
<1>12. CASE prog.pc = "mret" /\ Tmr!NoAccess /\ prog' = Tmr!Goto(prog.back)
  <2>2. prog' = [pc |-> prog.back,
                  back |-> prog.back, old |-> prog.old, n |-> prog.n, gap |-> 0]
    BY <1>12, <1>1 DEF Tmr!Goto
  <2>3. /\ timer' \in [en : BOOLEAN, int_en : BOOLEAN, pending : BOOLEAN,
                        count : 0 .. Period, value : {0, Period}]
        /\ timer'.int_en = timer.int_en /\ timer'.value = timer.value
        /\ timer'.pending => ~timer'.en
        /\ timer.pending => timer'.pending
        /\ Tmr!Expires => ~timer.pending /\ timer'.pending
        /\ ~Tmr!Expires => (timer'.pending <=> timer.pending) /\ (timer'.en <=> timer.en)
        /\ timer.en /\ ~Tmr!Expires => timer'.count = timer.count + 1
        /\ Tmr!Expires => timer.en /\ timer.count >= timer.value
    BY <1>12, <1>1, TmrNoAccess DEF Tmr!Expires
  <2>4. TmrTyped'
    BY <1>12, <1>1, <1>2, <2>2, <2>3 DEF TmrInv, TmrTyped, TmrHolds, TmrCounts, Tmr!Main, Tmr!Handler
  <2>5. TmrHolds'
    BY <1>12, <1>1, <1>2, <2>2, <2>3 DEF TmrInv, TmrHolds, Tmr!Main, Tmr!Handler
  <2>6. TmrCounts'
    BY <1>12, <1>1, <1>2, <2>2, <2>3 DEF TmrInv, TmrHolds, TmrCounts, Fresh, Tmr!Main, Tmr!Handler
  <2>7. Tmr!EveryPeriodCounts'
    BY <1>12, <1>1, <1>2, <2>2, <2>3
       DEF TmrInv, TmrHolds, Tmr!EveryPeriodCounts, Tmr!Stopped, Tmr!Here, Tmr!Main, Tmr!Handler
  <2> QED
    BY <2>4, <2>5, <2>6, <2>7 DEF TmrInv
<1>13. CASE Tmr!Wait
  <2>1. (prog.pc = "done" \/ prog.gap < MaxGap) /\ Tmr!NoAccess
    BY <1>13 DEF Tmr!Wait, Tmr!int_sig
  <2>2. prog' = [pc |-> prog.pc,
                  back |-> prog.back, old |-> prog.old, n |-> prog.n, gap |-> (IF prog.pc = "done" THEN prog.gap ELSE prog.gap + 1)]
    BY <1>13, <1>1 DEF Tmr!Wait
  <2>3. /\ timer' \in [en : BOOLEAN, int_en : BOOLEAN, pending : BOOLEAN,
                        count : 0 .. Period, value : {0, Period}]
        /\ timer'.int_en = timer.int_en /\ timer'.value = timer.value
        /\ timer'.pending => ~timer'.en
        /\ timer.pending => timer'.pending
        /\ Tmr!Expires => ~timer.pending /\ timer'.pending
        /\ ~Tmr!Expires => (timer'.pending <=> timer.pending) /\ (timer'.en <=> timer.en)
        /\ timer.en /\ ~Tmr!Expires => timer'.count = timer.count + 1
        /\ Tmr!Expires => timer.en /\ timer.count >= timer.value
    BY <2>1, <1>1, TmrNoAccess DEF Tmr!Expires
  <2>4. TmrTyped'
    BY <2>1, <1>1, <1>2, <2>2, <2>3 DEF TmrInv, TmrTyped, TmrHolds, TmrCounts, Tmr!Main, Tmr!Handler
  <2>5. TmrHolds'
    BY <2>1, <1>1, <1>2, <2>2, <2>3 DEF TmrInv, TmrHolds, Tmr!Main, Tmr!Handler
  <2>6. TmrCounts'
    BY <2>1, <1>1, <1>2, <2>2, <2>3 DEF TmrInv, TmrHolds, TmrCounts, Fresh, Tmr!Main, Tmr!Handler
  <2>7. Tmr!EveryPeriodCounts'
    BY <2>1, <1>1, <1>2, <2>2, <2>3
       DEF TmrInv, TmrHolds, Tmr!EveryPeriodCounts, Tmr!Stopped, Tmr!Here, Tmr!Main, Tmr!Handler
  <2> QED
    BY <2>4, <2>5, <2>6, <2>7 DEF TmrInv
<1>14. CASE Tmr!TakeInterrupt
  <2>1. timer.pending /\ timer.int_en /\ prog.pc \in Tmr!Main /\ Tmr!NoAccess
    BY <1>14 DEF Tmr!TakeInterrupt, Tmr!int_sig
  <2>2. prog' = [pc |-> "read",
                  back |-> prog.pc, old |-> prog.old, n |-> prog.n, gap |-> 0]
    BY <1>14, <1>1 DEF Tmr!TakeInterrupt, Tmr!Goto
  <2>3. /\ timer' \in [en : BOOLEAN, int_en : BOOLEAN, pending : BOOLEAN,
                        count : 0 .. Period, value : {0, Period}]
        /\ timer'.int_en = timer.int_en /\ timer'.value = timer.value
        /\ timer'.pending => ~timer'.en
        /\ timer.pending => timer'.pending
        /\ Tmr!Expires => ~timer.pending /\ timer'.pending
        /\ ~Tmr!Expires => (timer'.pending <=> timer.pending) /\ (timer'.en <=> timer.en)
        /\ timer.en /\ ~Tmr!Expires => timer'.count = timer.count + 1
        /\ Tmr!Expires => timer.en /\ timer.count >= timer.value
    BY <2>1, <1>1, TmrNoAccess DEF Tmr!Expires
  <2>4. TmrTyped'
    BY <2>1, <1>1, <1>2, <2>2, <2>3 DEF TmrInv, TmrTyped, TmrHolds, TmrCounts, Tmr!Main, Tmr!Handler
  <2>5. TmrHolds'
    BY <2>1, <1>1, <1>2, <2>2, <2>3 DEF TmrInv, TmrHolds, Tmr!Main, Tmr!Handler
  <2>6. TmrCounts'
    BY <2>1, <1>1, <1>2, <2>2, <2>3 DEF TmrInv, TmrHolds, TmrCounts, Fresh, Tmr!Main, Tmr!Handler
  <2>7. Tmr!EveryPeriodCounts'
    BY <2>1, <1>1, <1>2, <2>2, <2>3
       DEF TmrInv, TmrHolds, Tmr!EveryPeriodCounts, Tmr!Stopped, Tmr!Here, Tmr!Main, Tmr!Handler
  <2> QED
    BY <2>4, <2>5, <2>6, <2>7 DEF TmrInv
<1> QED
  BY <1>3, <1>4, <1>5, <1>6, <1>7, <1>8, <1>9, <1>10, <1>11, <1>12, <1>13, <1>14 DEF Tmr!Next, Tmr!Clock, Tmr!Start, Tmr!Act, Tmr!Irq

LEMMA TmrInit == ASSUME Tmr!TinyTimerAssumption, UnhurriedTimer, Tmr!Init PROVE TmrInv
<1>1. /\ branch \in {"simulation", "board"} /\ owed = 0
      /\ timer = [en |-> FALSE, int_en |-> FALSE, pending |-> FALSE, count |-> 0, value |-> 0]
      /\ prog = [pc |-> "value", back |-> "value", old |-> FALSE, n |-> 0, gap |-> 0]
  BY DEF Tmr!Init
<1>2. TmrTyped
  BY <1>1, TmrNumbers DEF TmrTyped, Tmr!Main
<1>3. TmrHolds /\ TmrCounts /\ Tmr!EveryPeriodCounts
  BY <1>1 DEF TmrHolds, TmrCounts, Tmr!EveryPeriodCounts, Tmr!Handler
<1> QED
  BY <1>2, <1>3 DEF TmrInv

LEMMA TmrPromises == TmrInv => Tmr!TypeOK /\ Tmr!EveryPeriodCounts /\ Tmr!NeverPasses
<1>1. TmrInv => Tmr!TypeOK
  BY DEF TmrInv, TmrTyped, Tmr!TypeOK
<1>2. TmrInv => Tmr!NeverPasses
  BY DEF TmrInv, TmrCounts, Tmr!NeverPasses
<1> QED
  BY <1>1, <1>2 DEF TmrInv

LEMMA TmrAlways ==
  ASSUME Tmr!TinyTimerAssumption, UnhurriedTimer
  PROVE  MCSpec => []TmrInv
<1>1. MCInit => TmrInv
  BY TmrInit DEF MCInit
<1>2. TmrInv /\ [MCNext]_blocksVars => TmrInv'
  <2> SUFFICES ASSUME TmrInv, [MCNext]_blocksVars PROVE TmrInv'
    OBVIOUS
  <2>1. CASE Tmr!Next
    BY <2>1, TmrStep
  <2>2. CASE UNCHANGED tmrVars
    BY <2>2 DEF tmrVars, TmrInv, TmrTyped, TmrHolds, TmrCounts, Fresh, Tmr!EveryPeriodCounts,
                Tmr!Stopped, Tmr!Here
  <2> QED
    BY <2>1, <2>2 DEF MCNext, blocksVars
<1> QED
  BY <1>1, <1>2, PTL DEF MCSpec

-----------------------------------------------------------------------------
(* The SPI master, its driver and the device (spi.v:72-229, spi.c:21-45).  *)

(* The bits fit the bit index of spi.v, which has four bits, and status    *)
(* has risen when the driver polls it first.                               *)
PatientDriver == SpiBits \in 2 .. 16 /\ PollLag >= 2

(* A byte is a function from bit numbers to bits.                          *)
SpiByte == [0 .. SpiBits - 1 -> {0, 1}]

SpiTyped ==
  /\ mode \in [cpha : BOOLEAN, div : SpiDivs]
  /\ spi \in [en : BOOLEAN, clk_cnt : 0 .. mode.div, edge_cnt : 0 .. Spi!Edges, level : BOOLEAN,
              clk : {0, 1}, mosi : {0, 1}, bit_index : 0 .. 15, rdata : SpiByte,
              done : BOOLEAN, status : BOOLEAN, start : BOOLEAN, data : SpiByte, ss : {0, 1}]
  /\ slave \in [edges : 0 .. 2 * SpiBits - 1, in : SpiByte, out : SpiBytes, miso : {0, 1},
                got : SpiByte]
  /\ driver \in [pc : {"idle", "data", "start", "poll", "read"}, op : {"read", "write"},
                 byte : SpiByte, lag : 0 .. PollLag]
  /\ xfer \in [sent : SpiByte, expected : SpiByte]

(* The clock edges made so far, and the bits that both sides have taken    *)
(* and put out by then.                                                    *)
Made == IF spi.edge_cnt = Spi!Edges THEN 2 * SpiBits
        ELSE IF spi.level THEN spi.edge_cnt - 1 ELSE spi.edge_cnt
Taken(e) == IF mode.cpha THEN e \div 2 ELSE (e + 1) \div 2
Offered(e) == IF mode.cpha THEN (e + 1) \div 2 ELSE (e \div 2) + 1

(* What the registers hold after e edges.                                  *)
Exchanging(e) ==
  /\ spi.clk = e % 2
  /\ \A i \in 0 .. Taken(e) - 1 : /\ slave.in[i] = xfer.sent[SpiBits - Taken(e) + i]
                                  /\ spi.rdata[i] = xfer.expected[SpiBits - Taken(e) + i]
  /\ Offered(e) = Taken(e) + 1 /\ Taken(e) < SpiBits =>
       /\ spi.mosi = xfer.sent[SpiBits - 1 - Taken(e)]
       /\ slave.miso = xfer.expected[SpiBits - 1 - Taken(e)]
  /\ spi.bit_index = IF Offered(e) < SpiBits THEN SpiBits - 1 - Offered(e)
                     ELSE SpiBits + 15 - Offered(e)
  /\ e < 2 * SpiBits => slave.edges = e /\ slave.out = xfer.expected
  /\ e = 2 * SpiBits => slave.edges = 0 /\ slave.got = xfer.sent

(* Where a transfer is.                                                    *)
Armed == /\ spi.start /\ ~spi.en /\ ~spi.done /\ driver.lag = PollLag
         /\ spi.data = xfer.sent /\ slave.out = xfer.expected
         /\ slave.edges = 0 /\ spi.clk = 0
Running == /\ ~spi.start /\ spi.en /\ ~spi.done
           /\ spi.status \/ driver.lag = PollLag - 1
           /\ spi.data = xfer.sent
           /\ spi.level => spi.edge_cnt >= 1
           /\ Exchanging(Made)
Ends == /\ ~spi.start /\ spi.status /\ spi.clk = 0
        /\ slave.edges = 0 /\ slave.got = xfer.sent
        /\ spi.en \/ spi.done => spi.rdata = xfer.expected
        /\ spi.en => spi.done /\ ~spi.level
        /\ ~spi.en => spi.data = xfer.expected
Ended == /\ ~spi.start /\ ~spi.en /\ ~spi.done /\ spi.clk = 0
         /\ slave.edges = 0 /\ slave.got = xfer.sent

SpiPhase ==
  /\ slave.edges = 0 => slave.miso = slave.out[SpiBits - 1]
  /\ driver.pc # "idle" => spi.ss = 0
  /\ driver.pc # "poll" => Ended
  /\ driver.pc = "read" => spi.data = xfer.expected
  /\ driver.pc = "poll" => \/ Armed \/ Running \/ Ends
                           \/ Ended /\ ~spi.status /\ spi.data = xfer.expected

(* The inductive invariant.                                                *)
SpiInv == SpiTyped /\ SpiPhase

(* The numbers and the fields, as the provers use them.                    *)
LEMMA SpiNumbers ==
  ASSUME Spi!TinySpiAssumption, PatientDriver
  PROVE  /\ SpiBits \in 2 .. 16 /\ PollLag \in Nat /\ PollLag >= 2 /\ SpiDivs \subseteq Nat
         /\ SpiBytes \subseteq SpiByte /\ Spi!Edges = 2 * SpiBits + 1
  BY DEF Spi!TinySpiAssumption, PatientDriver, SpiByte, Spi!Edges

LEMMA SpiFields ==
  ASSUME Spi!TinySpiAssumption, PatientDriver, SpiTyped
  PROVE  /\ mode.cpha \in BOOLEAN /\ mode.div \in Nat
         /\ spi.en \in BOOLEAN /\ spi.level \in BOOLEAN /\ spi.done \in BOOLEAN
         /\ spi.status \in BOOLEAN /\ spi.start \in BOOLEAN
         /\ spi.clk_cnt \in 0 .. mode.div /\ spi.edge_cnt \in 0 .. 2 * SpiBits + 1
         /\ spi.clk \in {0, 1} /\ spi.mosi \in {0, 1} /\ spi.bit_index \in 0 .. 15
         /\ spi.rdata \in SpiByte /\ spi.data \in SpiByte /\ spi.ss \in {0, 1}
         /\ slave.edges \in 0 .. 2 * SpiBits - 1 /\ slave.in \in SpiByte /\ slave.out \in SpiByte
         /\ slave.miso \in {0, 1} /\ slave.got \in SpiByte
         /\ driver.lag \in 0 .. PollLag /\ driver.byte \in SpiByte
         /\ xfer.sent \in SpiByte /\ xfer.expected \in SpiByte
  BY SpiNumbers DEF SpiTyped

(* What the shift register of spi.v holds after a bit.                     *)
LEMMA ShiftInIs ==
  ASSUME Spi!TinySpiAssumption, PatientDriver, NEW byte \in SpiByte, NEW bit \in {0, 1}
  PROVE  /\ Spi!ShiftIn(byte, bit) \in SpiByte
         /\ Spi!ShiftIn(byte, bit)[0] = bit
         /\ \A i \in 1 .. SpiBits - 1 : Spi!ShiftIn(byte, bit)[i] = byte[i - 1]
<1>1. \A i \in 0 .. SpiBits - 1 : i # 0 => i - 1 \in 0 .. SpiBits - 1
  BY SpiNumbers
<1>2. \A i \in 0 .. SpiBits - 1 : (IF i = 0 THEN bit ELSE byte[i - 1]) \in {0, 1}
  BY <1>1 DEF SpiByte
<1>3. /\ Spi!ShiftIn(byte, bit) \in [0 .. SpiBits - 1 -> {0, 1}]
      /\ \A i \in 0 .. SpiBits - 1 : Spi!ShiftIn(byte, bit)[i] = IF i = 0 THEN bit ELSE byte[i - 1]
  BY <1>2 DEF Spi!ShiftIn
<1>4. 0 \in 0 .. SpiBits - 1 /\ \A i \in 1 .. SpiBits - 1 : i \in 0 .. SpiBits - 1 /\ i # 0
  BY SpiNumbers
<1> QED
  BY <1>3, <1>4 DEF SpiByte

LEMMA OutBitIs ==
  ASSUME Spi!TinySpiAssumption, PatientDriver, NEW byte \in SpiByte, NEW e \in 0 .. 2 * SpiBits - 1
  PROVE  Spi!OutBit(byte, e) \in {0, 1}
<1>1. SpiBits - 1 - (e \div 2) \in 0 .. SpiBits - 1
  BY SpiNumbers
<1> QED
  BY <1>1 DEF Spi!OutBit, SpiByte

(* What a clock does to the registers of spi.v, one by one.                *)
LEMMA SpiClockIs ==
  ASSUME Spi!TinySpiAssumption, PatientDriver, SpiTyped,
         NEW start \in BOOLEAN, NEW data \in SpiByte, NEW ss \in {0, 1},
         Spi!Clock(start, data, ss), mode' = mode
  PROVE  /\ spi' \in [en : BOOLEAN, clk_cnt : 0 .. mode'.div, edge_cnt : 0 .. Spi!Edges,
                      level : BOOLEAN, clk : {0, 1}, mosi : {0, 1}, bit_index : 0 .. 15,
                      rdata : SpiByte, done : BOOLEAN, status : BOOLEAN, start : BOOLEAN,
                      data : SpiByte, ss : {0, 1}]
         /\ spi'.start = start /\ spi'.data = data /\ spi'.ss = ss
         /\ spi'.en <=> spi.start \/ (spi.en /\ ~spi.done)
         /\ spi'.status <=> spi.en
         /\ spi'.done <=> spi.en /\ spi.edge_cnt = Spi!Edges
         /\ spi'.level <=> Spi!Tick /\ spi.edge_cnt # Spi!Edges
         /\ spi'.edge_cnt = Spi!EdgeCnt /\ spi'.clk = Spi!SpiClk /\ spi'.mosi = Spi!Mosi
         /\ spi'.bit_index = Spi!BitIndex
         /\ spi'.rdata = IF Spi!Samples THEN Spi!ShiftIn(spi.rdata, slave.miso) ELSE spi.rdata
<1>1. /\ Spi!En \in BOOLEAN /\ Spi!Tick \in BOOLEAN /\ Spi!Samples \in BOOLEAN
  BY SpiFields DEF Spi!En, Spi!Tick, Spi!Samples, Spi!Moves, Spi!Odd
<1>2. Spi!ClkCnt \in 0 .. mode.div
  BY SpiFields DEF Spi!ClkCnt, Spi!Tick
<1>3. Spi!EdgeCnt \in 0 .. Spi!Edges
  BY SpiFields, SpiNumbers DEF Spi!EdgeCnt
<1>4. Spi!SpiClk \in {0, 1}
  BY SpiFields DEF Spi!SpiClk
<1>5. \A i \in 0 .. 15 : Spi!SpiData(i) \in {0, 1}
  <2>1. \A i \in 0 .. SpiBits - 1 : spi.data[i] \in {0, 1}
    BY SpiFields DEF SpiByte
  <2>2. \A i \in 0 .. 15 : i < SpiBits => i \in 0 .. SpiBits - 1
    BY SpiNumbers
  <2> QED
    BY <2>1, <2>2 DEF Spi!SpiData
<1>6. Spi!Mosi \in {0, 1}
  BY <1>5, SpiFields, SpiNumbers DEF Spi!Mosi
<1>7. Spi!BitIndex \in 0 .. 15
  BY SpiFields, SpiNumbers DEF Spi!BitIndex
<1>8. (IF Spi!Samples THEN Spi!ShiftIn(spi.rdata, slave.miso) ELSE spi.rdata) \in SpiByte
  BY SpiFields, ShiftInIs
<1>9. spi' = [en |-> Spi!En, clk_cnt |-> Spi!ClkCnt, edge_cnt |-> Spi!EdgeCnt,
              level |-> Spi!Tick /\ spi.edge_cnt # Spi!Edges,
              clk |-> Spi!SpiClk, mosi |-> Spi!Mosi, bit_index |-> Spi!BitIndex,
              rdata |-> IF Spi!Samples THEN Spi!ShiftIn(spi.rdata, slave.miso) ELSE spi.rdata,
              done |-> spi.en /\ spi.edge_cnt = Spi!Edges,
              status |-> spi.en, start |-> start, data |-> data, ss |-> ss]
  BY DEF Spi!Clock
<1>10. spi'.en <=> spi.start \/ (spi.en /\ ~spi.done)
  BY <1>9 DEF Spi!En
<1>11. spi' \in [en : BOOLEAN, clk_cnt : 0 .. mode'.div, edge_cnt : 0 .. Spi!Edges,
                 level : BOOLEAN, clk : {0, 1}, mosi : {0, 1}, bit_index : 0 .. 15,
                 rdata : SpiByte, done : BOOLEAN, status : BOOLEAN, start : BOOLEAN,
                 data : SpiByte, ss : {0, 1}]
  BY ZenonT(30), <1>1, <1>2, <1>3, <1>4, <1>6, <1>7, <1>8, <1>9, SpiFields
<1>12. /\ spi'.start = start /\ spi'.data = data /\ spi'.ss = ss
       /\ spi'.status = spi.en
       /\ spi'.done = (spi.en /\ spi.edge_cnt = Spi!Edges)
       /\ spi'.level = (Spi!Tick /\ spi.edge_cnt # Spi!Edges)
       /\ spi'.edge_cnt = Spi!EdgeCnt /\ spi'.clk = Spi!SpiClk /\ spi'.mosi = Spi!Mosi
       /\ spi'.bit_index = Spi!BitIndex
       /\ spi'.rdata = IF Spi!Samples THEN Spi!ShiftIn(spi.rdata, slave.miso) ELSE spi.rdata
  BY <1>9
<1> QED
  BY <1>10, <1>11, <1>12

(* The device in such a clock.                                             *)
LEMMA SpiDeviceIs ==
  ASSUME Spi!TinySpiAssumption, PatientDriver, SpiTyped, spi'.mosi \in {0, 1}, Spi!Device
  PROVE  slave' \in [edges : 0 .. 2 * SpiBits - 1, in : SpiByte, out : SpiBytes, miso : {0, 1},
                     got : SpiByte]
<1> DEFINE e == slave.edges + 1
           in == IF Spi!Puts(e) THEN slave.in ELSE Spi!ShiftIn(slave.in, spi'.mosi)
<1>1. /\ slave.edges \in 0 .. 2 * SpiBits - 1 /\ slave.in \in SpiByte /\ slave.out \in SpiBytes
      /\ slave.miso \in {0, 1} /\ slave.got \in SpiByte
      /\ slave = [edges |-> slave.edges, in |-> slave.in, out |-> slave.out, miso |-> slave.miso,
                  got |-> slave.got]
  BY DEF SpiTyped
<1>2. in \in SpiByte
  BY <1>1, ShiftInIs
<1>3. \A b \in SpiBytes : Spi!OutBit(b, 0) \in {0, 1}
  BY SpiNumbers, OutBitIs
<1>4. CASE spi.ss = 1
  <2>1. PICK b \in SpiBytes :
          slave' = [slave EXCEPT !.edges = 0, !.out = b, !.miso = Spi!OutBit(b, 0)]
    BY <1>4 DEF Spi!Device
  <2>2. Spi!OutBit(b, 0) \in {0, 1} /\ 0 \in 0 .. 2 * SpiBits - 1
    BY <1>3, <2>1, SpiNumbers
  <2> QED
    BY <1>1, <2>1, <2>2
<1>5. CASE spi.ss # 1 /\ spi'.clk = spi.clk
  BY <1>1, <1>5 DEF Spi!Device
<1>6. CASE spi.ss # 1 /\ spi'.clk # spi.clk /\ e < 2 * SpiBits
  <2> DEFINE m == IF Spi!Puts(e) THEN Spi!OutBit(slave.out, IF mode.cpha THEN e - 1 ELSE e)
                  ELSE slave.miso
  <2>1. slave' = [slave EXCEPT !.edges = e, !.in = in, !.miso = m]
    BY <1>6 DEF Spi!Device
  <2>2. m \in {0, 1}
    <3>1. (IF mode.cpha THEN e - 1 ELSE e) \in 0 .. 2 * SpiBits - 1
      BY <1>1, <1>6, SpiNumbers
    <3> QED
      BY <1>1, <3>1, OutBitIs, SpiNumbers
  <2>3. e \in 0 .. 2 * SpiBits - 1
    BY <1>1, <1>6, SpiNumbers
  <2> HIDE DEF e, in, m
  <2> QED
    BY <1>1, <1>2, <2>1, <2>2, <2>3
<1>7. CASE spi.ss # 1 /\ spi'.clk # spi.clk /\ ~(e < 2 * SpiBits)
  <2>1. PICK b \in SpiBytes :
          slave' = [edges |-> 0, in |-> in, out |-> b, miso |-> Spi!OutBit(b, 0), got |-> in]
    BY <1>7 DEF Spi!Device
  <2> HIDE DEF in
  <2> QED
    BY <1>2, <1>3, <2>1, SpiNumbers
<1> QED
  BY <1>4, <1>5, <1>6, <1>7

(* The first bit of a byte is out before the first edge.                   *)
LEMMA SpiFirstBit ==
  ASSUME Spi!TinySpiAssumption, PatientDriver, SpiTyped, Spi!Device,
         slave.edges = 0 => slave.miso = slave.out[SpiBits - 1]
  PROVE  slave'.edges = 0 => slave'.miso = slave'.out[SpiBits - 1]
<1>1. \A b : Spi!OutBit(b, 0) = b[SpiBits - 1]
  <2>1. SpiBits - 1 - (0 \div 2) = SpiBits - 1
    BY SpiNumbers
  <2> QED
    BY <2>1 DEF Spi!OutBit
<1>2. slave.edges \in Nat
  BY SpiFields, SpiNumbers
<1>3. slave = [edges |-> slave.edges, in |-> slave.in, out |-> slave.out, miso |-> slave.miso,
               got |-> slave.got]
  BY DEF SpiTyped
<1>4. CASE spi.ss = 1
  <2>1. PICK b \in SpiBytes :
          slave' = [slave EXCEPT !.edges = 0, !.out = b, !.miso = Spi!OutBit(b, 0)]
    BY <1>4 DEF Spi!Device
  <2> QED
    BY <1>1, <1>3, <2>1
<1>5. CASE spi.ss # 1 /\ spi'.clk = spi.clk
  BY <1>5 DEF Spi!Device
<1>6. CASE spi.ss # 1 /\ spi'.clk # spi.clk /\ slave.edges + 1 < 2 * SpiBits
  <2>1. slave'.edges = slave.edges + 1
    BY <1>3, <1>6 DEF Spi!Device
  <2> QED
    BY <1>2, <2>1
<1>7. CASE spi.ss # 1 /\ spi'.clk # spi.clk /\ ~(slave.edges + 1 < 2 * SpiBits)
  <2>1. \E b \in SpiBytes : slave'.out = b /\ slave'.miso = Spi!OutBit(b, 0)
    BY <1>7 DEF Spi!Device
  <2> QED
    BY <1>1, <2>1
<1> QED
  BY <1>4, <1>5, <1>6, <1>7

(* A clock at rest: nothing moves, whatever is written.                    *)
LEMMA SpiRestStep ==
  ASSUME Spi!TinySpiAssumption, PatientDriver, SpiTyped, Ended,
         NEW start \in BOOLEAN, NEW data \in SpiByte, NEW ss \in {0, 1},
         Spi!Clock(start, data, ss), mode' = mode, Spi!Device
  PROVE  /\ ~spi'.en /\ ~spi'.done /\ ~spi'.status /\ spi'.clk = 0
         /\ slave'.edges = 0 /\ slave'.got = slave.got
         /\ spi.ss = 0 => slave' = slave
<1>1. ~spi'.en /\ ~spi'.done /\ ~spi'.status
  BY SpiClockIs DEF Ended
<1>2. spi'.clk = 0
  BY SpiClockIs DEF Ended, Spi!SpiClk, Spi!Moves
<1>3. slave = [edges |-> slave.edges, in |-> slave.in, out |-> slave.out, miso |-> slave.miso,
               got |-> slave.got]
  BY DEF SpiTyped
<1>4. spi.ss # 1 => slave' = slave
  BY <1>2 DEF Spi!Device, Ended
<1>5. spi.ss = 1 => slave'.edges = 0 /\ slave'.got = slave.got
  BY <1>3 DEF Spi!Device
<1> QED
  BY <1>1, <1>2, <1>4, <1>5, SpiFields DEF Ended

(* The clock after the write of the start bit.                             *)
LEMMA SpiArmedStep ==
  ASSUME Spi!TinySpiAssumption, PatientDriver, SpiTyped, Armed, Spi!NoWrite, mode' = mode,
         Spi!Device, spi.ss = 0, slave.miso = slave.out[SpiBits - 1],
         driver'.lag = PollLag - 1, xfer' = xfer
  PROVE  Running'
<1>1. spi.data \in SpiByte /\ spi.rdata \in SpiByte /\ spi.ss \in {0, 1}
  BY SpiFields
<1>2. /\ ~spi'.start /\ spi'.en /\ ~spi'.done /\ spi'.data = spi.data /\ spi'.ss = 0
      /\ ~spi'.level /\ spi'.edge_cnt = 0 /\ spi'.clk = 0
      /\ spi'.mosi = Spi!Mosi /\ spi'.bit_index = Spi!BitIndex /\ spi'.rdata = spi.rdata
  <2>1. Spi!Clock(FALSE, spi.data, spi.ss)
    BY DEF Spi!NoWrite, Armed
  <2>2. ~Spi!Samples /\ ~Spi!Tick /\ Spi!EdgeCnt = 0 /\ Spi!SpiClk = 0
    BY DEF Spi!Samples, Spi!Moves, Spi!Tick, Spi!EdgeCnt, Spi!SpiClk, Armed
  <2> QED
    BY <1>1, <2>1, <2>2, SpiClockIs DEF Armed
<1>3. slave' = slave
  BY <1>2 DEF Spi!Device, Armed
<1>4. Made' = 0
  BY <1>2, SpiNumbers DEF Made, Spi!Edges
<1>5. /\ mode.cpha => /\ Taken(0)' = 0 /\ Offered(0)' = 0 /\ spi'.bit_index = SpiBits - 1
      /\ ~mode.cpha => /\ Taken(0)' = 0 /\ Offered(0)' = 1 /\ spi'.bit_index = SpiBits - 2
                       /\ spi'.mosi = spi.data[SpiBits - 1]
  <2>1. /\ mode.cpha => Taken(0)' = 0 /\ Offered(0)' = 0
        /\ ~mode.cpha => Taken(0)' = 0 /\ Offered(0)' = 1
    BY DEF Taken, Offered
  <2>2. Spi!BitIndex = IF mode.cpha THEN SpiBits - 1 ELSE SpiBits - 2
    BY DEF Spi!BitIndex, Spi!Drives, Spi!Moves, Armed
  <2>3. ~mode.cpha => Spi!Mosi = Spi!SpiData(SpiBits - 1)
    BY DEF Spi!Mosi, Spi!Drives, Spi!Moves, Armed
  <2>4. Spi!SpiData(SpiBits - 1) = spi.data[SpiBits - 1]
    BY SpiNumbers DEF Spi!SpiData
  <2> QED
    BY <1>2, <2>1, <2>2, <2>3, <2>4
<1>6. Exchanging(0)'
  BY <1>2, <1>3, <1>5, SpiNumbers, SpiFields DEF Exchanging, Armed
<1> QED
  BY <1>2, <1>4, <1>6 DEF Running, Armed

(* How the counts of bits go on at an edge: one side offers a bit at every *)
(* other edge, and it is taken at the next.                                *)
LEMMA SpiCounts ==
  ASSUME Spi!TinySpiAssumption, PatientDriver, SpiTyped, NEW e \in 0 .. 2 * SpiBits - 1
  PROVE  /\ Taken(e) \in 0 .. SpiBits /\ Offered(e) \in 0 .. SpiBits
         /\ (e % 2 = 1 <=> mode.cpha) =>
              /\ Offered(e) = Taken(e) + 1 /\ Taken(e + 1) = Taken(e) + 1
              /\ Offered(e + 1) = Offered(e)
         /\ ~(e % 2 = 1 <=> mode.cpha) =>
              /\ Offered(e) = Taken(e) /\ Taken(e + 1) = Taken(e)
              /\ Offered(e + 1) = Offered(e) + 1
              /\ e + 1 < 2 * SpiBits => Taken(e) < SpiBits
              /\ Taken(e) = IF mode.cpha THEN e \div 2 ELSE (e + 1) \div 2
         /\ e + 1 = 2 * SpiBits => Taken(e + 1) = SpiBits
<1>1. PICK k \in 0 .. SpiBits - 1 : e = 2 * k \/ e = 2 * k + 1
  <2>1. /\ e \div 2 \in 0 .. SpiBits - 1
        /\ e = 2 * (e \div 2) \/ e = 2 * (e \div 2) + 1
    BY SpiNumbers
  <2> QED
    BY <2>1
<1>2. CASE e = 2 * k
  <2>1. e \div 2 = k /\ (e + 1) \div 2 = k /\ e % 2 = 0 /\ (e + 1 + 1) \div 2 = k + 1
    BY <1>2, SpiNumbers
  <2> QED
    BY <1>2, <2>1, SpiNumbers, SpiFields DEF Taken, Offered
<1>3. CASE e = 2 * k + 1
  <2>1. /\ e \div 2 = k /\ (e + 1) \div 2 = k + 1 /\ e % 2 = 1
        /\ (e + 1 + 1) \div 2 = k + 1
    BY <1>3, SpiNumbers
  <2> QED
    BY <1>3, <2>1, SpiNumbers, SpiFields DEF Taken, Offered
<1> QED
  BY <1>1, <1>2, <1>3

(* Two bytes with the same bits are the same.                              *)
LEMMA SameByte ==
  ASSUME NEW a \in SpiByte, NEW b \in SpiByte, \A i \in 0 .. SpiBits - 1 : a[i] = b[i]
  PROVE  a = b
<1> DEFINE D == 0 .. SpiBits - 1
<1>1. a \in [D -> {0, 1}] /\ b \in [D -> {0, 1}] /\ \A i \in D : a[i] = b[i]
  BY DEF SpiByte
<1> HIDE DEF D
<1> QED
  BY <1>1

(* The device at an edge of the clock.                                     *)
LEMMA SpiDeviceEdge ==
  ASSUME Spi!TinySpiAssumption, PatientDriver, SpiTyped, Spi!Device, spi.ss = 0, spi'.clk # spi.clk
  PROVE  /\ Spi!Puts(slave.edges + 1) =>
              /\ slave'.in = slave.in
              /\ slave.edges + 1 < 2 * SpiBits =>
                   slave'.miso = Spi!OutBit(slave.out, IF mode.cpha THEN slave.edges ELSE slave.edges + 1)
         /\ ~Spi!Puts(slave.edges + 1) =>
              /\ slave'.in = Spi!ShiftIn(slave.in, spi'.mosi)
              /\ slave.edges + 1 < 2 * SpiBits => slave'.miso = slave.miso
         /\ slave.edges + 1 < 2 * SpiBits => slave'.edges = slave.edges + 1 /\ slave'.out = slave.out
         /\ ~(slave.edges + 1 < 2 * SpiBits) => slave'.edges = 0 /\ slave'.got = slave'.in
<1> DEFINE e == slave.edges + 1
           in == IF Spi!Puts(e) THEN slave.in ELSE Spi!ShiftIn(slave.in, spi'.mosi)
           m == IF Spi!Puts(e)
                THEN Spi!OutBit(slave.out, IF mode.cpha THEN e - 1 ELSE e) ELSE slave.miso
<1>1. slave = [edges |-> slave.edges, in |-> slave.in, out |-> slave.out, miso |-> slave.miso,
               got |-> slave.got]
  BY DEF SpiTyped
<1>2. CASE spi.ss # 1 /\ spi'.clk # spi.clk /\ e < 2 * SpiBits
  <2>1. slave' = [slave EXCEPT !.edges = e, !.in = in, !.miso = m]
    BY <1>2 DEF Spi!Device
  <2>2. slave'.edges = e /\ slave'.in = in /\ slave'.miso = m /\ slave'.out = slave.out
    <3> HIDE DEF in, m
    <3> QED
      BY <1>1, <2>1
  <2>3. e - 1 = slave.edges
    BY SpiFields, SpiNumbers
  <2> QED
    BY <1>2, <2>2, <2>3
<1>3. CASE spi.ss # 1 /\ spi'.clk # spi.clk /\ ~(e < 2 * SpiBits)
  <2>1. slave'.edges = 0 /\ slave'.in = in /\ slave'.got = in
    <3>1. PICK b \in SpiBytes :
            slave' = [edges |-> 0, in |-> in, out |-> b, miso |-> Spi!OutBit(b, 0), got |-> in]
      BY <1>3 DEF Spi!Device
    <3> HIDE DEF in
    <3> QED
      BY <3>1
  <2> QED
    BY <1>3, <2>1
<1>4. spi.ss # 1
  OBVIOUS
<1> QED
  BY <1>2, <1>3, <1>4

(* An edge of the clock, at which a bit is taken or offered.               *)
LEMMA SpiEdge ==
  ASSUME Spi!TinySpiAssumption, PatientDriver, SpiTyped, Spi!NoWrite, mode' = mode, Spi!Device,
         NEW e \in 0 .. 2 * SpiBits - 1, Exchanging(e), spi.en, ~spi.done, spi.level,
         spi.edge_cnt = e + 1, spi.data = xfer.sent, spi.ss = 0, xfer' = xfer
  PROVE  Exchanging(e + 1)'
<1> USE SpiNumbers
<1>1. Spi!Clock(FALSE, spi.data, spi.ss)
  BY DEF Spi!NoWrite
<1>2. /\ Spi!Moves /\ (Spi!Odd <=> e % 2 = 0)
      /\ (Spi!Samples <=> (e % 2 = 1 <=> mode.cpha))
      /\ (Spi!Drives <=> ~(e % 2 = 1 <=> mode.cpha))
  BY SpiFields DEF Spi!Moves, Spi!Odd, Spi!Samples, Spi!Drives
<1>3. /\ spi'.clk = 1 - spi.clk /\ spi'.clk # spi.clk /\ spi'.clk = (e + 1) % 2
  <2>1. spi'.clk = 1 - spi.clk
    BY <1>1, <1>2, SpiFields, SpiClockIs DEF Spi!SpiClk
  <2>2. spi.clk = e % 2
    BY DEF Exchanging
  <2> QED
    BY <2>1, <2>2
<1>4. /\ slave.edges = e /\ slave.out = xfer.expected /\ e + 1 <= 2 * SpiBits
      /\ Taken(e) \in 0 .. SpiBits /\ Offered(e) \in 0 .. SpiBits
  <2>1. Taken(e) \in 0 .. SpiBits /\ Offered(e) \in 0 .. SpiBits
    BY SpiCounts
  <2>2. e < 2 * SpiBits
    OBVIOUS
  <2> QED
    BY <2>1, <2>2 DEF Exchanging
<1>5. /\ Taken(e + 1)' = Taken(e + 1) /\ Offered(e + 1)' = Offered(e + 1)
  BY DEF Taken, Offered
<1>6. CASE e % 2 = 1 <=> mode.cpha
  <2>1. /\ Offered(e) = Taken(e) + 1 /\ Taken(e + 1) = Taken(e) + 1
        /\ Offered(e + 1) = Offered(e) /\ (e + 1 = 2 * SpiBits => Taken(e + 1) = SpiBits)
        /\ Taken(e) \in 0 .. SpiBits - 1
    <3>1. /\ Offered(e) = Taken(e) + 1 /\ Taken(e + 1) = Taken(e) + 1
          /\ Offered(e + 1) = Offered(e) /\ (e + 1 = 2 * SpiBits => Taken(e + 1) = SpiBits)
      BY <1>6, SpiCounts
    <3> QED
      BY <1>4, <3>1
  <2>2. /\ spi.mosi = xfer.sent[SpiBits - 1 - Taken(e)]
        /\ slave.miso = xfer.expected[SpiBits - 1 - Taken(e)]
    BY <2>1 DEF Exchanging
  <2>3. /\ spi'.mosi = spi.mosi /\ spi'.bit_index = spi.bit_index
        /\ spi'.rdata = Spi!ShiftIn(spi.rdata, slave.miso)
    BY <1>1, <1>2, <1>6, SpiFields, SpiClockIs DEF Spi!Mosi, Spi!BitIndex
  <2>4. ~Spi!Puts(e + 1)
    BY <1>6, SpiFields DEF Spi!Puts
  <2>5. /\ slave'.in = Spi!ShiftIn(slave.in, spi.mosi)
        /\ e + 1 < 2 * SpiBits => /\ slave'.edges = e + 1 /\ slave'.out = slave.out
                                  /\ slave'.miso = slave.miso
        /\ e + 1 = 2 * SpiBits => slave'.edges = 0 /\ slave'.got = slave'.in
    BY <1>3, <1>4, <2>3, <2>4, SpiDeviceEdge
  <2>6. \A i \in 0 .. Taken(e) : /\ slave'.in[i] = xfer.sent[SpiBits - (Taken(e) + 1) + i]
                                 /\ spi'.rdata[i] = xfer.expected[SpiBits - (Taken(e) + 1) + i]
    <3> SUFFICES ASSUME NEW i \in 0 .. Taken(e)
                 PROVE  /\ slave'.in[i] = xfer.sent[SpiBits - (Taken(e) + 1) + i]
                        /\ spi'.rdata[i] = xfer.expected[SpiBits - (Taken(e) + 1) + i]
      OBVIOUS
    <3>1. spi.mosi \in {0, 1} /\ slave.miso \in {0, 1} /\ slave.in \in SpiByte /\ spi.rdata \in SpiByte
      BY SpiFields
    <3>2. CASE i = 0
      BY <2>1, <2>2, <2>3, <2>5, <3>1, <3>2, ShiftInIs
    <3>3. CASE i # 0
      <4>1. i \in 1 .. SpiBits - 1 /\ i - 1 \in 0 .. Taken(e) - 1
        BY <2>1, <3>3
      <4>2. slave'.in[i] = slave.in[i - 1] /\ spi'.rdata[i] = spi.rdata[i - 1]
        BY <2>3, <2>5, <3>1, <4>1, ShiftInIs
      <4>3. SpiBits - (Taken(e) + 1) + i = SpiBits - Taken(e) + (i - 1)
        BY <2>1, <4>1
      <4> QED
        BY <4>1, <4>2, <4>3 DEF Exchanging
    <3> QED
      BY <3>2, <3>3
  <2>7. e + 1 = 2 * SpiBits => slave'.in = xfer.sent
    <3> SUFFICES ASSUME e + 1 = 2 * SpiBits PROVE slave'.in = xfer.sent
      OBVIOUS
    <3>1. \A i \in 0 .. SpiBits - 1 : slave'.in[i] = xfer.sent[i]
      BY <2>1, <2>6
    <3>2. slave'.in \in SpiByte /\ xfer.sent \in SpiByte
      BY <2>5, SpiFields, ShiftInIs
    <3> QED
      BY <3>1, <3>2, SameByte
  <2>8. /\ spi'.bit_index = IF Offered(e + 1) < SpiBits THEN SpiBits - 1 - Offered(e + 1)
                            ELSE SpiBits + 15 - Offered(e + 1)
        /\ Offered(e + 1) = Taken(e + 1)
    BY <2>1, <2>3 DEF Exchanging
  <2> QED
    BY <1>3, <1>4, <1>5, <2>1, <2>5, <2>6, <2>7, <2>8 DEF Exchanging
<1>7. CASE ~(e % 2 = 1 <=> mode.cpha)
  <2>1. /\ Offered(e) = Taken(e) /\ Taken(e + 1) = Taken(e) /\ Offered(e + 1) = Offered(e) + 1
        /\ (e + 1 < 2 * SpiBits => Taken(e) < SpiBits)
        /\ Taken(e) = IF mode.cpha THEN e \div 2 ELSE (e + 1) \div 2
        /\ (e + 1 = 2 * SpiBits => Taken(e + 1) = SpiBits)
    BY <1>7, SpiCounts
  <2>2. /\ spi'.mosi = Spi!SpiData(spi.bit_index) /\ spi'.rdata = spi.rdata
        /\ spi'.bit_index = (spi.bit_index + 15) % 16
    BY <1>1, <1>2, <1>7, SpiFields, SpiClockIs DEF Spi!Mosi, Spi!BitIndex
  <2>3. Spi!Puts(e + 1)
    BY <1>7, SpiFields DEF Spi!Puts
  <2>4. /\ slave'.in = slave.in
        /\ e + 1 < 2 * SpiBits =>
             /\ slave'.edges = e + 1 /\ slave'.out = slave.out
             /\ slave'.miso = Spi!OutBit(slave.out, IF mode.cpha THEN e ELSE e + 1)
        /\ e + 1 = 2 * SpiBits => slave'.edges = 0 /\ slave'.got = slave.in
    BY <1>3, <1>4, <2>3, SpiDeviceEdge
  <2>5. e + 1 < 2 * SpiBits =>
          /\ spi'.mosi = xfer.sent[SpiBits - 1 - Taken(e)]
          /\ slave'.miso = xfer.expected[SpiBits - 1 - Taken(e)]
    <3> SUFFICES ASSUME e + 1 < 2 * SpiBits
                 PROVE  /\ spi'.mosi = xfer.sent[SpiBits - 1 - Taken(e)]
                        /\ slave'.miso = xfer.expected[SpiBits - 1 - Taken(e)]
      OBVIOUS
    <3>1. spi.bit_index = SpiBits - 1 - Taken(e) /\ spi.bit_index < SpiBits
      BY <1>4, <2>1 DEF Exchanging
    <3>2. spi'.mosi = xfer.sent[SpiBits - 1 - Taken(e)]
      BY <2>2, <3>1 DEF Spi!SpiData
    <3>3. (IF mode.cpha THEN e ELSE e + 1) \div 2 = Taken(e)
      BY <2>1
    <3> QED
      BY <1>4, <2>4, <3>2, <3>3 DEF Spi!OutBit
  <2>6. \A i \in 0 .. Taken(e) - 1 : /\ slave'.in[i] = xfer.sent[SpiBits - Taken(e) + i]
                                     /\ spi'.rdata[i] = xfer.expected[SpiBits - Taken(e) + i]
    BY <2>2, <2>4 DEF Exchanging
  <2>7. e + 1 = 2 * SpiBits => slave'.got = xfer.sent
    <3> SUFFICES ASSUME e + 1 = 2 * SpiBits PROVE slave'.got = xfer.sent
      OBVIOUS
    <3>1. \A i \in 0 .. SpiBits - 1 : slave.in[i] = xfer.sent[i]
      BY <2>1, <2>4, <2>6
    <3>2. slave.in \in SpiByte /\ xfer.sent \in SpiByte
      BY SpiFields
    <3> QED
      BY <2>4, <3>1, <3>2, SameByte
  <2>8. spi'.bit_index = IF Offered(e + 1) < SpiBits THEN SpiBits - 1 - Offered(e + 1)
                         ELSE SpiBits + 15 - Offered(e + 1)
    <3>1. spi.bit_index = IF Offered(e) < SpiBits THEN SpiBits - 1 - Offered(e)
                          ELSE SpiBits + 15 - Offered(e)
      BY DEF Exchanging
    <3>2. (spi.bit_index + 15) % 16 = IF spi.bit_index = 0 THEN 15 ELSE spi.bit_index - 1
      BY SpiFields
    <3>3. Offered(e + 1) = Offered(e) + 1 /\ Offered(e) \in 0 .. SpiBits
      BY <1>4, <2>1
    <3> QED
      BY <2>2, <3>1, <3>2, <3>3
  <2>9. Offered(e + 1) = Taken(e + 1) + 1 /\ Taken(e + 1) < SpiBits =>
          /\ spi'.mosi = xfer.sent[SpiBits - 1 - Taken(e + 1)]
          /\ slave'.miso = xfer.expected[SpiBits - 1 - Taken(e + 1)]
    BY <1>4, <2>1, <2>5
  <2>10. \A i \in 0 .. Taken(e + 1) - 1 :
           /\ slave'.in[i] = xfer.sent[SpiBits - Taken(e + 1) + i]
           /\ spi'.rdata[i] = xfer.expected[SpiBits - Taken(e + 1) + i]
    BY <2>1, <2>6
  <2> QED
    BY <1>3, <1>4, <1>5, <2>4, <2>7, <2>8, <2>9, <2>10 DEF Exchanging
<1> QED
  BY <1>6, <1>7

(* A clock of a transfer under way.                                        *)
LEMMA SpiRunningStep ==
  ASSUME Spi!TinySpiAssumption, PatientDriver, SpiTyped, Running, Spi!NoWrite, mode' = mode,
         Spi!Device, spi.ss = 0, xfer' = xfer
  PROVE  Running' \/ Ends'
<1> USE SpiNumbers
<1>0. PICK ec \in 0 .. 2 * SpiBits + 1 : spi.edge_cnt = ec
  BY SpiFields
<1>1. Spi!Clock(FALSE, spi.data, spi.ss)
  BY DEF Spi!NoWrite, Running
<1>2. /\ ~spi'.start /\ spi'.en /\ spi'.status /\ spi'.data = xfer.sent
      /\ (spi'.done <=> ec = 2 * SpiBits + 1)
      /\ (spi'.level <=> Spi!Tick /\ ec # 2 * SpiBits + 1)
      /\ spi'.edge_cnt = IF Spi!Tick THEN (ec + 1) % (2 * SpiBits + 2) ELSE ec
  <2>1. spi.data \in SpiByte /\ spi.ss \in {0, 1} /\ Spi!Edges = 2 * SpiBits + 1
    BY SpiFields
  <2>2. Spi!EdgeCnt = IF Spi!Tick THEN (ec + 1) % (2 * SpiBits + 2) ELSE ec
    <3>1. 2 * SpiBits + 1 + 1 = 2 * SpiBits + 2
      OBVIOUS
    <3> QED
      BY <1>0, <2>1, <3>1 DEF Running, Spi!EdgeCnt
  <2> QED
    BY <1>0, <1>1, <2>1, <2>2, SpiClockIs DEF Running
<1>3. ec \in 0 .. 2 * SpiBits + 1 /\ (spi.level => ec >= 1) /\ spi.level \in BOOLEAN
  BY <1>0, SpiFields DEF Running
<1>4. Spi!Moves <=> spi.level /\ ec # 2 * SpiBits + 1
  BY <1>0 DEF Running, Spi!Moves
<1>5. ~Spi!Moves => /\ spi'.mosi = spi.mosi /\ spi'.bit_index = spi.bit_index
                    /\ spi'.rdata = spi.rdata
                    /\ spi'.clk = IF spi.level THEN 0 ELSE spi.clk
  BY <1>1, SpiFields, SpiClockIs DEF Running, Spi!SpiClk, Spi!Mosi, Spi!BitIndex, Spi!Drives, Spi!Samples
<1>6. CASE ec = 2 * SpiBits + 1
  <2>1. Made = 2 * SpiBits
    BY <1>0, <1>6 DEF Made
  <2>2. Exchanging(2 * SpiBits)
    BY <2>1 DEF Running
  <2>3. Taken(2 * SpiBits) = SpiBits
    <3>1. (2 * SpiBits) \div 2 = SpiBits /\ (2 * SpiBits + 1) \div 2 = SpiBits
      OBVIOUS
    <3> QED
      BY <3>1 DEF Taken
  <2>4. spi.rdata = xfer.expected
    <3>1. \A i \in 0 .. SpiBits - 1 : spi.rdata[i] = xfer.expected[i]
      BY <2>2, <2>3 DEF Exchanging
    <3> QED
      BY <3>1, SpiFields, SameByte
  <2>5. spi.clk = 0 /\ slave.edges = 0 /\ slave.got = xfer.sent
    BY <2>2 DEF Exchanging
  <2>6. spi'.clk = 0 /\ spi'.rdata = xfer.expected /\ spi'.done /\ ~spi'.level
    BY <1>2, <1>4, <1>5, <1>6, <2>4, <2>5
  <2>7. slave' = slave
    BY <2>5, <2>6 DEF Spi!Device
  <2> QED
    BY <1>2, <2>5, <2>6, <2>7 DEF Ends
<1>7. CASE ec # 2 * SpiBits + 1
  <2>1. ~spi'.done /\ (spi'.level => spi'.edge_cnt >= 1) /\ Made' = ec
    <3>1. CASE Spi!Tick
      <4>1. spi'.edge_cnt = ec + 1 /\ spi'.level /\ ~spi'.done
        BY <1>2, <1>3, <1>7, <3>1
      <4> QED
        BY <1>0, <1>3, <1>7, <4>1 DEF Made
    <3>2. CASE ~Spi!Tick
      <4>1. spi'.edge_cnt = ec /\ ~spi'.level /\ ~spi'.done
        BY <1>2, <1>7, <3>2
      <4> QED
        BY <1>0, <1>3, <1>7, <4>1 DEF Made
    <3> QED
      BY <3>1, <3>2
  <2>2. Exchanging(ec)'
    <3>1. CASE spi.level
      <4>1. PICK e \in 0 .. 2 * SpiBits - 1 : ec = e + 1
        <5>1. ec - 1 \in 0 .. 2 * SpiBits - 1 /\ ec = (ec - 1) + 1
          BY <1>3, <1>7, <3>1
        <5> QED
          BY <5>1
      <4>2. Made = e
        BY <1>0, <1>7, <3>1, <4>1 DEF Made
      <4>3. Exchanging(e) /\ spi.en /\ ~spi.done /\ spi.data = xfer.sent
        BY <4>2 DEF Running
      <4>4. Exchanging(e + 1)'
        BY <1>0, <3>1, <4>1, <4>3, SpiEdge
      <4> QED
        BY <4>1, <4>4
    <3>2. CASE ~spi.level
      <4>1. Made = ec /\ ~Spi!Moves
        BY <1>0, <1>3, <1>4, <1>7, <3>2 DEF Made
      <4>2. Exchanging(ec)
        BY <4>1 DEF Running
      <4>3. spi'.clk = spi.clk
        BY <1>5, <3>2, <4>1
      <4>4. slave' = slave
        BY <4>3 DEF Spi!Device
      <4>5. Taken(ec)' = Taken(ec) /\ Offered(ec)' = Offered(ec)
        BY DEF Taken, Offered
      <4>6. /\ spi'.mosi = spi.mosi /\ spi'.bit_index = spi.bit_index
            /\ spi'.rdata = spi.rdata
        BY <1>5, <4>1
      <4> QED
        BY <4>2, <4>3, <4>4, <4>5, <4>6 DEF Exchanging
    <3> QED
      BY <1>3, <3>1, <3>2
  <2>3. Running'
    BY <1>2, <2>1, <2>2 DEF Running
  <2> QED
    BY <2>3
<1> QED
  BY <1>6, <1>7

(* The clocks after the last edge.                                         *)
LEMMA SpiEndsStep ==
  ASSUME Spi!TinySpiAssumption, PatientDriver, SpiTyped, Ends, Spi!NoWrite, mode' = mode,
         Spi!Device, spi.ss = 0, xfer' = xfer
  PROVE  Ends' \/ (Ended' /\ ~spi'.status /\ spi'.data = xfer'.expected)
<1> DEFINE next == IF spi.done THEN spi.rdata ELSE spi.data
<1>1. Spi!Clock(FALSE, next, spi.ss) /\ next \in SpiByte /\ spi.ss \in {0, 1}
  BY SpiFields DEF Spi!NoWrite
<1>2. next = xfer.expected
  BY SpiFields DEF Ends
<1>3. /\ ~spi'.start /\ ~spi'.en /\ spi'.data = xfer.expected
      /\ (spi'.status <=> spi.en) /\ (spi'.done => spi.en)
  BY <1>1, <1>2, SpiClockIs DEF Ends
<1>4. ~Spi!Moves
  BY DEF Ends, Spi!Moves
<1>5. spi'.clk = 0 /\ spi'.rdata = spi.rdata
  <2>1. ~Spi!Samples /\ Spi!SpiClk = 0
    BY <1>4, SpiFields DEF Ends, Spi!SpiClk, Spi!Samples
  <2> HIDE DEF next
  <2> QED
    BY <1>1, <2>1, SpiClockIs
<1>6. slave' = slave
  BY <1>5 DEF Spi!Device, Ends
<1>7. CASE spi.en
  BY <1>3, <1>5, <1>6, <1>7 DEF Ends
<1>8. CASE ~spi.en
  BY <1>3, <1>5, <1>6, <1>8 DEF Ends, Ended
<1> QED
  BY <1>7, <1>8, SpiFields

(* What the driver does in a clock.                                        *)
LEMMA SpiStep ==
  ASSUME Spi!TinySpiAssumption, PatientDriver, SpiInv, Spi!Next
  PROVE  SpiInv'
<1> USE SpiNumbers
<1>1. /\ SpiTyped /\ mode' = mode /\ Spi!Device
      /\ slave.edges = 0 => slave.miso = slave.out[SpiBits - 1]
  BY DEF SpiInv, SpiPhase, Spi!Next
<1>2. /\ driver.pc \in {"idle", "data", "start", "poll", "read"}
      /\ driver.op \in {"read", "write"} /\ driver.byte \in SpiByte /\ driver.lag \in 0 .. PollLag
      /\ driver = [pc |-> driver.pc, op |-> driver.op, byte |-> driver.byte, lag |-> driver.lag]
  BY DEF SpiInv, SpiTyped
<1> DEFINE kept == IF spi.done THEN spi.rdata ELSE spi.data
(* The write of the clock and the step of the driver.                      *)
<1>3. \E start \in BOOLEAN, data \in SpiByte, ss \in {0, 1} : Spi!Clock(start, data, ss)
  <2>1. /\ spi.start \in BOOLEAN /\ kept \in SpiByte /\ spi.data \in SpiByte
        /\ spi.ss \in {0, 1} /\ 1 - spi.ss \in {0, 1}
    BY <1>1, SpiFields
  <2>2. \/ Spi!Clock(FALSE, kept, spi.ss) \/ Spi!Clock(FALSE, spi.data, 1 - spi.ss)
        \/ Spi!Clock(TRUE, spi.data, spi.ss) \/ Spi!Clock(spi.start, driver.byte, spi.ss)
    BY DEF Spi!Next, Spi!SetSs, Spi!Call, Spi!Driver, Spi!PutData, Spi!StartTransfer, Spi!Poll,
           Spi!ReadBack, Spi!Wait, Spi!NoWrite, Spi!WriteCtrl, Spi!WriteData
  <2> HIDE DEF kept
  <2> QED
    BY <1>2, <2>1, <2>2
<1>4. SpiTyped'
  <2>1. PICK start \in BOOLEAN, data \in SpiByte, ss \in {0, 1} : Spi!Clock(start, data, ss)
    BY <1>3
  <2>2. /\ spi' \in [en : BOOLEAN, clk_cnt : 0 .. mode'.div, edge_cnt : 0 .. Spi!Edges,
                     level : BOOLEAN, clk : {0, 1}, mosi : {0, 1}, bit_index : 0 .. 15,
                     rdata : SpiByte, done : BOOLEAN, status : BOOLEAN, start : BOOLEAN,
                     data : SpiByte, ss : {0, 1}]
        /\ spi'.mosi \in {0, 1}
    BY <1>1, <2>1, SpiClockIs
  <2>3. slave' \in [edges : 0 .. 2 * SpiBits - 1, in : SpiByte, out : SpiBytes, miso : {0, 1},
                    got : SpiByte]
    BY <1>1, <2>2, SpiDeviceIs
  <2>4. driver' \in [pc : {"idle", "data", "start", "poll", "read"}, op : {"read", "write"},
                     byte : SpiByte, lag : 0 .. PollLag]
    <3>1. CASE Spi!SetSs
      BY <3>1, <1>1 DEF Spi!SetSs, SpiTyped
    <3>2. CASE Spi!Call
      BY <3>2, <1>2 DEF Spi!Call
    <3>3. CASE Spi!PutData \/ Spi!StartTransfer
      <4>1. CASE Spi!PutData
        BY <4>1, <1>2 DEF Spi!PutData, Spi!Goto
      <4>2. CASE Spi!StartTransfer
        <5>1. driver' = [pc |-> "poll", op |-> driver.op, byte |-> driver.byte, lag |-> PollLag]
          BY <4>2, <1>2 DEF Spi!StartTransfer, Spi!Goto
        <5> QED
          BY <5>1, <1>2
      <4> QED
        BY <3>3, <4>1, <4>2
    <3>4. CASE Spi!Poll
      BY <3>4, <1>2 DEF Spi!Poll, Spi!Goto
    <3>5. CASE Spi!ReadBack
      BY <3>5, <1>1, <1>2, SpiFields DEF Spi!ReadBack, Spi!Goto
    <3>6. CASE Spi!Wait
      BY <3>6, <1>2 DEF Spi!Wait
    <3> QED
      BY <3>1, <3>2, <3>3, <3>4, <3>5, <3>6 DEF Spi!Next, Spi!Driver
  <2>5. xfer' \in [sent : SpiByte, expected : SpiByte]
    <3>1. xfer' = xfer \/ xfer' = [sent |-> spi.data, expected |-> slave.out]
      BY DEF Spi!Next, Spi!SetSs, Spi!Call, Spi!Driver, Spi!PutData, Spi!StartTransfer, Spi!Poll,
             Spi!ReadBack, Spi!Wait
    <3> QED
      BY <1>1, <3>1, SpiFields DEF SpiTyped
  <2> QED
    BY <1>1, <2>2, <2>3, <2>4, <2>5 DEF SpiTyped
<1>5. slave'.edges = 0 => slave'.miso = slave'.out[SpiBits - 1]
  BY <1>1, SpiFirstBit
<1>6. CASE driver.pc # "poll"
  <2>1. Ended
    BY <1>6 DEF SpiInv, SpiPhase
  <2>2. ASSUME NEW start \in BOOLEAN, NEW data \in SpiByte, NEW ss \in {0, 1},
               Spi!Clock(start, data, ss)
        PROVE  /\ spi'.start = start /\ spi'.data = data /\ spi'.ss = ss
               /\ ~spi'.en /\ ~spi'.done /\ ~spi'.status /\ spi'.clk = 0
               /\ slave'.edges = 0 /\ slave'.got = slave.got
               /\ spi.ss = 0 => slave' = slave
    BY <1>1, <2>1, <2>2, SpiRestStep, SpiClockIs
  <2>3. /\ spi.data \in SpiByte /\ spi.ss \in {0, 1} /\ 1 - spi.ss \in {0, 1}
        /\ Spi!NoWrite => Spi!Clock(FALSE, spi.data, spi.ss)
    <3>1. Spi!NoWrite => Spi!Clock(FALSE, spi.data, spi.ss)
      BY <2>1 DEF Spi!NoWrite, Ended, Spi!Clock
    <3>2. spi.data \in SpiByte /\ spi.ss \in {0, 1} /\ 1 - spi.ss \in {0, 1}
      BY <1>1, SpiFields
    <3> QED
      BY <3>1, <3>2
  <2>4. CASE Spi!SetSs
    <3>1. Spi!Clock(FALSE, spi.data, 1 - spi.ss) /\ driver' = driver /\ xfer' = xfer
          /\ driver.pc = "idle"
      BY <2>4 DEF Spi!SetSs, Spi!WriteCtrl
    <3> QED
      BY <1>4, <1>5, <2>1, <2>2, <2>3, <3>1 DEF SpiInv, SpiPhase, Ended
  <2>5. CASE Spi!Call
    <3>1. /\ Spi!NoWrite /\ spi.ss = 0 /\ driver'.pc \in {"data", "start"} /\ xfer' = xfer
      BY <2>5, <1>2 DEF Spi!Call
    <3> QED
      BY <1>4, <1>5, <2>1, <2>2, <2>3, <3>1 DEF SpiInv, SpiPhase, Ended
  <2>6. CASE Spi!PutData
    <3>1. /\ Spi!Clock(FALSE, driver.byte, spi.ss) /\ driver.pc = "data"
          /\ driver'.pc = "start" /\ xfer' = xfer
      BY <2>1, <2>6, <1>1, <1>2, SpiFields DEF Spi!PutData, Spi!WriteData, Spi!Goto, Ended
    <3> QED
      BY <1>2, <1>4, <1>5, <2>1, <2>2, <2>3, <3>1 DEF SpiInv, SpiPhase, Ended
  <2>7. CASE Spi!StartTransfer
    <3>1. /\ Spi!Clock(TRUE, spi.data, spi.ss) /\ driver.pc = "start"
          /\ driver'.pc = "poll" /\ driver'.lag = PollLag
          /\ xfer' = [sent |-> spi.data, expected |-> slave.out]
      BY <2>7, <1>2 DEF Spi!StartTransfer, Spi!WriteCtrl, Spi!Goto
    <3>2. spi.ss = 0
      BY <3>1 DEF SpiInv, SpiPhase
    <3>3. Armed'
      BY <2>2, <2>3, <3>1, <3>2 DEF Armed
    <3> QED
      BY <1>4, <1>5, <2>2, <2>3, <3>1, <3>2, <3>3 DEF SpiInv, SpiPhase
  <2>8. CASE Spi!ReadBack
    <3>1. Spi!NoWrite /\ driver.pc = "read" /\ driver'.pc = "idle" /\ xfer' = xfer
      BY <2>8, <1>2 DEF Spi!ReadBack, Spi!Goto
    <3> QED
      BY <1>4, <1>5, <2>1, <2>2, <2>3, <3>1 DEF SpiInv, SpiPhase, Ended
  <2>9. CASE Spi!Wait
    <3>1. Spi!NoWrite /\ driver'.pc = driver.pc /\ xfer' = xfer
      BY <2>9, <1>2 DEF Spi!Wait
    <3> QED
      BY <1>4, <1>5, <1>6, <2>1, <2>2, <2>3, <3>1 DEF SpiInv, SpiPhase, Ended
  <2> QED
    BY <1>6, <2>4, <2>5, <2>6, <2>7, <2>8, <2>9 DEF Spi!Next, Spi!Driver, Spi!Poll
<1>7. CASE driver.pc = "poll"
  <2>1. /\ Spi!NoWrite /\ xfer' = xfer /\ spi.ss = 0
        /\ \/ driver.lag = 0 /\ driver'.lag = 0
              /\ driver'.pc = IF spi.status THEN "poll"
                              ELSE IF driver.op = "read" THEN "read" ELSE "idle"
           \/ driver'.pc = "poll" /\ driver'.lag = IF driver.lag = 0 THEN 0 ELSE driver.lag - 1
    BY <1>2, <1>7 DEF Spi!Next, Spi!SetSs, Spi!Call, Spi!Driver, Spi!PutData, Spi!StartTransfer,
       Spi!Poll, Spi!ReadBack, Spi!Wait, Spi!Goto, SpiInv, SpiPhase
  <2>2. spi'.ss = 0
    <3>1. Spi!Clock(FALSE, kept, spi.ss) /\ kept \in SpiByte
      BY <1>1, <2>1, SpiFields DEF Spi!NoWrite
    <3> HIDE DEF kept
    <3> QED
      BY <1>1, <2>1, <3>1, SpiClockIs
  <2>3. CASE Armed
    <3>1. driver'.lag = PollLag - 1 /\ driver'.pc = "poll"
      BY <2>1, <2>3 DEF Armed
    <3>2. slave.miso = slave.out[SpiBits - 1]
      BY <1>1, <2>3 DEF Armed
    <3>3. Running'
      BY <1>1, <2>1, <2>3, <3>1, <3>2, SpiArmedStep
    <3> QED
      BY <1>4, <1>5, <2>2, <3>1, <3>3 DEF SpiInv, SpiPhase
  <2>4. CASE Running
    <3>1. driver'.pc = "poll"
      BY <2>1, <2>4 DEF Running
    <3>2. Running' \/ Ends'
      BY <1>1, <2>1, <2>4, SpiRunningStep
    <3> QED
      BY <1>4, <1>5, <2>2, <3>1, <3>2 DEF SpiInv, SpiPhase
  <2>5. CASE Ends
    <3>1. driver'.pc = "poll"
      BY <2>1, <2>5 DEF Ends
    <3>2. Ends' \/ (Ended' /\ ~spi'.status /\ spi'.data = xfer'.expected)
      BY <1>1, <2>1, <2>5, SpiEndsStep
    <3> QED
      BY <1>4, <1>5, <2>2, <3>1, <3>2 DEF SpiInv, SpiPhase
  <2>6. CASE Ended /\ ~spi.status /\ spi.data = xfer.expected
    <3>1. spi.data \in SpiByte /\ Spi!Clock(FALSE, spi.data, spi.ss) /\ spi.ss \in {0, 1}
      BY <1>1, <2>1, <2>6, SpiFields DEF Spi!NoWrite, Ended
    <3>2. /\ ~spi'.start /\ spi'.data = xfer.expected /\ ~spi'.en /\ ~spi'.done /\ ~spi'.status
          /\ spi'.clk = 0 /\ slave' = slave
      BY <1>1, <2>1, <2>6, <3>1, SpiRestStep, SpiClockIs
    <3>3. Ended' /\ spi'.data = xfer'.expected
      BY <2>1, <2>6, <3>2 DEF Ended
    <3> QED
      BY <1>4, <1>5, <2>1, <2>2, <3>2, <3>3 DEF SpiInv, SpiPhase
  <2> QED
    BY <1>7, <2>3, <2>4, <2>5, <2>6 DEF SpiInv, SpiPhase
<1> QED
  BY <1>6, <1>7

LEMMA SpiInit == ASSUME Spi!TinySpiAssumption, PatientDriver, Spi!Init PROVE SpiInv
<1> USE SpiNumbers
<1>1. Spi!Zeros \in SpiByte
  BY DEF Spi!Zeros, SpiByte
<1>2. PICK b \in SpiBytes : slave = [edges |-> 0, in |-> Spi!Zeros, out |-> b,
                                     miso |-> Spi!OutBit(b, 0), got |-> Spi!Zeros]
  BY DEF Spi!Init
<1>3. Spi!OutBit(b, 0) \in {0, 1} /\ Spi!OutBit(b, 0) = b[SpiBits - 1]
  <2>1. SpiBits - 1 - (0 \div 2) = SpiBits - 1 /\ 0 \in 0 .. 2 * SpiBits - 1 /\ b \in SpiByte
    OBVIOUS
  <2> QED
    BY <2>1, OutBitIs DEF Spi!OutBit
<1>4. /\ mode \in [cpha : BOOLEAN, div : SpiDivs]
      /\ spi = [en |-> FALSE, clk_cnt |-> 0, edge_cnt |-> 0, level |-> FALSE, clk |-> 0,
                mosi |-> 0, bit_index |-> 0, rdata |-> Spi!Zeros, done |-> FALSE,
                status |-> FALSE, start |-> FALSE, data |-> Spi!Zeros, ss |-> 1]
      /\ driver = [pc |-> "idle", op |-> "read", byte |-> Spi!Zeros, lag |-> 0]
      /\ xfer = [sent |-> Spi!Zeros, expected |-> Spi!Zeros]
  BY DEF Spi!Init
<1>5. SpiTyped
  <2>1. mode.div \in Nat /\ 0 \in 0 .. mode.div /\ 0 \in 0 .. Spi!Edges /\ 0 \in 0 .. 2 * SpiBits - 1
    BY <1>4
  <2>2. slave \in [edges : 0 .. 2 * SpiBits - 1, in : SpiByte, out : SpiBytes, miso : {0, 1},
                   got : SpiByte]
    BY <1>1, <1>2, <1>3, <2>1
  <2>3. spi \in [en : BOOLEAN, clk_cnt : 0 .. mode.div, edge_cnt : 0 .. Spi!Edges, level : BOOLEAN,
                 clk : {0, 1}, mosi : {0, 1}, bit_index : 0 .. 15, rdata : SpiByte,
                 done : BOOLEAN, status : BOOLEAN, start : BOOLEAN, data : SpiByte, ss : {0, 1}]
    BY <1>1, <1>4, <2>1
  <2> QED
    BY <1>1, <1>4, <2>2, <2>3 DEF SpiTyped
<1>6. SpiPhase
  BY <1>2, <1>3, <1>4 DEF SpiPhase, Ended
<1> QED
  BY <1>5, <1>6 DEF SpiInv

LEMMA SpiPromises ==
  ASSUME Spi!TinySpiAssumption, PatientDriver, SpiInv
  PROVE  Spi!TypeOK /\ Spi!BytesExchanged
<1>1. Spi!TypeOK
  BY SpiFields DEF SpiInv, SpiTyped, Spi!TypeOK
<1>2. Spi!BytesExchanged
  BY DEF SpiInv, SpiPhase, Ended, Spi!BytesExchanged
<1> QED
  BY <1>1, <1>2

LEMMA SpiAlways ==
  ASSUME Spi!TinySpiAssumption, PatientDriver
  PROVE  MCSpec => []SpiInv
<1>1. MCInit => SpiInv
  BY SpiInit DEF MCInit
<1>2. SpiInv /\ [MCNext]_blocksVars => SpiInv'
  <2> SUFFICES ASSUME SpiInv, [MCNext]_blocksVars PROVE SpiInv'
    OBVIOUS
  <2>1. CASE Spi!Next
    BY <2>1, SpiStep
  <2>2. CASE UNCHANGED spiVars
    <3>1. mode' = mode /\ spi' = spi /\ slave' = slave /\ driver' = driver /\ xfer' = xfer
      BY <2>2 DEF spiVars
    <3>2. SpiTyped'
      BY <3>1 DEF SpiInv, SpiTyped
    <3>3. Made' = Made
      BY <3>1 DEF Made
    <3>4. Exchanging(Made) => Exchanging(Made)'
      BY <3>1, <3>3 DEF Exchanging, Taken, Offered
    <3>5. Armed => Armed'
      BY <3>1 DEF Armed
    <3>6. Running => Running'
      BY <3>1, <3>4 DEF Running
    <3>7. (Ends => Ends') /\ (Ended => Ended')
      BY <3>1 DEF Ends, Ended
    <3>8. SpiPhase'
      BY <3>1, <3>5, <3>6, <3>7 DEF SpiInv, SpiPhase
    <3> QED
      BY <3>2, <3>8 DEF SpiInv
  <2> QED
    BY <2>1, <2>2 DEF MCNext, blocksVars
<1> QED
  BY <1>1, <1>2, PTL DEF MCSpec

-----------------------------------------------------------------------------
(* The counters of the UART (uart.v:162-327).                              *)

SerTyped ==
  /\ regs \in [tx_en : BOOLEAN, rx_en : BOOLEAN, busy : BOOLEAN, over : BOOLEAN,
               uart_rx : Ser!Bytes, valid : BOOLEAN, tx_data : Ser!Bytes]
  /\ uart_tx \in [state : {"IDLE", "START", "SEND_BYTE", "STOP"}, cycle_cnt : 0 .. Baud,
                  bit_cnt : 0 .. UartBits + 1, pin : {0, 1}, ready : BOOLEAN]
  /\ uart_rx \in [q0 : {0, 1}, q1 : {0, 1}, start : BOOLEAN, edges : 0 .. Ser!AllEdges,
                  level : BOOLEAN, clk_cnt : 0 .. Baud, div_cnt : {0, Baud, Baud \div 2},
                  data : Ser!Bytes, over : BOOLEAN]
  /\ sent \subseteq Ser!Bytes

(* The transmitter sends as many bits as there are; the baud counter of    *)
(* the receiver has just started whenever its limit is not the one of its  *)
(* edge, so that it never runs past a limit that gets smaller.             *)
SerCounts ==
  /\ uart_tx.state \in {"START", "SEND_BYTE"} => uart_tx.bit_cnt <= UartBits
  /\ uart_rx.start =>
       /\ uart_rx.div_cnt # 0 /\ uart_rx.clk_cnt <= uart_rx.div_cnt
       /\ uart_rx.edges = 0 /\ uart_rx.div_cnt = Baud => uart_rx.clk_cnt = 0
       /\ uart_rx.edges # 0 /\ uart_rx.div_cnt = Baud \div 2 => uart_rx.clk_cnt = 0

(* The inductive invariant.                                                *)
SerInv == SerTyped /\ SerCounts

(* The numbers and the fields, as the provers use them.                    *)
LEMMA SerNumbers ==
  ASSUME Ser!UartAssumption
  PROVE  /\ UartBits \in Nat \ {0} /\ Baud \in Nat /\ Baud >= 2
         /\ Baud \div 2 \in Nat /\ 1 <= Baud \div 2 /\ Baud \div 2 < Baud
         /\ Ser!AllEdges = UartBits + 1
  BY DEF Ser!UartAssumption, Ser!AllEdges

LEMMA SerFields ==
  ASSUME SerTyped
  PROVE  /\ regs = [tx_en |-> regs.tx_en, rx_en |-> regs.rx_en, busy |-> regs.busy,
                    over |-> regs.over, uart_rx |-> regs.uart_rx, valid |-> regs.valid,
                    tx_data |-> regs.tx_data]
         /\ regs.tx_en \in BOOLEAN /\ regs.rx_en \in BOOLEAN /\ regs.busy \in BOOLEAN
         /\ regs.over \in BOOLEAN /\ regs.uart_rx \in Ser!Bytes /\ regs.valid \in BOOLEAN
         /\ regs.tx_data \in Ser!Bytes
         /\ uart_tx = [state |-> uart_tx.state, cycle_cnt |-> uart_tx.cycle_cnt,
                       bit_cnt |-> uart_tx.bit_cnt, pin |-> uart_tx.pin, ready |-> uart_tx.ready]
         /\ uart_tx.state \in {"IDLE", "START", "SEND_BYTE", "STOP"}
         /\ uart_tx.cycle_cnt \in 0 .. Baud /\ uart_tx.bit_cnt \in 0 .. UartBits + 1
         /\ uart_tx.pin \in {0, 1} /\ uart_tx.ready \in BOOLEAN
         /\ uart_rx.q0 \in {0, 1} /\ uart_rx.q1 \in {0, 1} /\ uart_rx.start \in BOOLEAN
         /\ uart_rx.edges \in 0 .. Ser!AllEdges /\ uart_rx.level \in BOOLEAN
         /\ uart_rx.clk_cnt \in 0 .. Baud /\ uart_rx.div_cnt \in {0, Baud, Baud \div 2}
         /\ uart_rx.data \in Ser!Bytes /\ uart_rx.over \in BOOLEAN
         /\ sent \subseteq Ser!Bytes
  BY DEF SerTyped

(* A clock of the transmitter, and one of the receiver.                    *)
LEMMA SerTransmit ==
  ASSUME Ser!UartAssumption, SerInv, Ser!Transmit
  PROVE  /\ uart_tx' \in [state : {"IDLE", "START", "SEND_BYTE", "STOP"}, cycle_cnt : 0 .. Baud,
                          bit_cnt : 0 .. UartBits + 1, pin : {0, 1}, ready : BOOLEAN]
         /\ uart_tx'.state \in {"START", "SEND_BYTE"} => uart_tx'.bit_cnt <= UartBits
<1> USE SerNumbers, SerFields DEF SerInv
<1> DEFINE last == uart_tx.bit_cnt = UartBits
           bit == IF last THEN 1 ELSE regs.tx_data[uart_tx.bit_cnt]
<1>1. CASE uart_tx.state = "IDLE"
  <2>1. CASE regs.valid
    BY <1>1, <2>1 DEF Ser!Transmit
  <2>2. CASE ~regs.valid
    <3>1. uart_tx' = [state |-> "IDLE", cycle_cnt |-> uart_tx.cycle_cnt,
                      bit_cnt |-> uart_tx.bit_cnt, pin |-> 1, ready |-> FALSE]
      BY <1>1, <2>2 DEF Ser!Transmit
    <3> QED
      BY <3>1
  <2> QED
    BY <2>1, <2>2
<1>2. CASE uart_tx.state # "IDLE" /\ uart_tx.cycle_cnt # Baud
  <2>1. uart_tx' = [state |-> uart_tx.state, cycle_cnt |-> uart_tx.cycle_cnt + 1,
                    bit_cnt |-> uart_tx.bit_cnt, pin |-> uart_tx.pin, ready |-> uart_tx.ready]
    BY <1>2 DEF Ser!Transmit
  <2>2. uart_tx.cycle_cnt + 1 \in 0 .. Baud
    BY <1>2
  <2> QED
    BY <2>1, <2>2 DEF SerCounts
<1>3. CASE uart_tx.state \in {"START", "SEND_BYTE"} /\ uart_tx.cycle_cnt = Baud
  <2>1. uart_tx.bit_cnt \in 0 .. UartBits
    BY <1>3 DEF SerCounts
  <2>2. bit \in {0, 1}
    BY <2>1 DEF Ser!Bytes
  <2>3. uart_tx' = [state |-> IF last THEN "STOP" ELSE "SEND_BYTE", cycle_cnt |-> 0,
                    bit_cnt |-> uart_tx.bit_cnt + 1, pin |-> bit, ready |-> uart_tx.ready]
    BY <1>3 DEF Ser!Transmit
  <2> QED
    BY <2>1, <2>2, <2>3
<1>4. CASE uart_tx.state = "STOP" /\ uart_tx.cycle_cnt = Baud
  <2>1. uart_tx' = [state |-> "IDLE", cycle_cnt |-> 0, bit_cnt |-> uart_tx.bit_cnt, pin |-> 1,
                    ready |-> TRUE]
    BY <1>4 DEF Ser!Transmit
  <2> QED
    BY <2>1
<1> QED
  BY <1>1, <1>2, <1>3, <1>4

LEMMA SerReceive ==
  ASSUME Ser!UartAssumption, SerInv, Ser!Receive(uart_tx.pin)
  PROVE  /\ uart_rx' \in [q0 : {0, 1}, q1 : {0, 1}, start : BOOLEAN, edges : 0 .. Ser!AllEdges,
                          level : BOOLEAN, clk_cnt : 0 .. Baud, div_cnt : {0, Baud, Baud \div 2},
                          data : Ser!Bytes, over : BOOLEAN]
         /\ uart_rx'.start =>
              /\ uart_rx'.div_cnt # 0 /\ uart_rx'.clk_cnt <= uart_rx'.div_cnt
              /\ uart_rx'.edges = 0 /\ uart_rx'.div_cnt = Baud => uart_rx'.clk_cnt = 0
              /\ uart_rx'.edges # 0 /\ uart_rx'.div_cnt = Baud \div 2 => uart_rx'.clk_cnt = 0
<1> USE SerNumbers, SerFields DEF SerInv
<1> DEFINE edges == IF ~uart_rx.start \/ (Ser!Tick /\ uart_rx.edges = Ser!AllEdges) THEN 0
                    ELSE IF Ser!Tick THEN uart_rx.edges + 1 ELSE uart_rx.edges
           clk_cnt == IF uart_rx.start /\ ~Ser!Tick THEN uart_rx.clk_cnt + 1 ELSE 0
<1>1. uart_rx' = [q0 |-> uart_tx.pin, q1 |-> uart_rx.q0, start |-> Ser!RxStart, edges |-> edges,
                  level |-> Ser!Tick /\ uart_rx.edges # Ser!AllEdges, clk_cnt |-> clk_cnt,
                  div_cnt |-> Ser!RxDiv, data |-> Ser!RxData(uart_tx.pin), over |-> Ser!RxOver]
  BY DEF Ser!Receive
<1>2. /\ Ser!RxStart \in BOOLEAN /\ Ser!RxOver \in BOOLEAN
      /\ (Ser!Tick /\ uart_rx.edges # Ser!AllEdges) \in BOOLEAN
  BY DEF Ser!RxStart, Ser!FallingEdge, Ser!RxOver, Ser!Tick
<1>3. edges \in 0 .. Ser!AllEdges
  OBVIOUS
<1>4. clk_cnt \in 0 .. Baud
  BY DEF Ser!Tick, SerCounts
<1>5. Ser!RxDiv \in {Baud, Baud \div 2}
  BY DEF Ser!RxDiv
<1>6. Ser!RxData(uart_tx.pin) \in Ser!Bytes
  <2>1. Ser!ZeroByte \in Ser!Bytes
    BY DEF Ser!ZeroByte, Ser!Bytes
  <2>2. ASSUME uart_rx.edges \in 2 .. Ser!AllEdges
        PROVE  [uart_rx.data EXCEPT ![uart_rx.edges - 2] = IF uart_tx.pin = 1 THEN 1 ELSE @]
                 \in Ser!Bytes
    <3>1. uart_rx.edges - 2 \in 0 .. UartBits - 1
      BY <2>2
    <3> QED
      BY <3>1 DEF Ser!Bytes
  <2> QED
    BY <2>1, <2>2 DEF Ser!RxData
<1>7. /\ clk_cnt <= Ser!RxDiv \/ ~Ser!RxStart
      /\ edges = 0 /\ Ser!RxDiv = Baud => clk_cnt = 0
      /\ edges # 0 /\ Ser!RxDiv = Baud \div 2 => clk_cnt = 0
  <2>1. CASE ~uart_rx.start
    BY <2>1 DEF Ser!RxDiv
  <2>2. CASE uart_rx.start /\ Ser!Tick
    BY <2>2 DEF Ser!RxDiv
  <2>3. CASE uart_rx.start /\ ~Ser!Tick
    BY <2>3 DEF Ser!RxDiv, Ser!Tick, SerCounts
  <2> QED
    BY <2>1, <2>2, <2>3
<1> HIDE DEF edges, clk_cnt
<1> QED
  BY <1>1, <1>2, <1>3, <1>4, <1>5, <1>6, <1>7

LEMMA SerStep == ASSUME Ser!UartAssumption, SerInv, Ser!Next PROVE SerInv'
<1> USE SerFields DEF SerInv
<1>1. Ser!Transmit /\ Ser!Receive(uart_tx.pin)
  BY DEF Ser!Next, Ser!UartInit, Ser!Putc, Ser!Getc, Ser!NoWrite, Ser!Clock
<1>2. regs' \in [tx_en : BOOLEAN, rx_en : BOOLEAN, busy : BOOLEAN, over : BOOLEAN,
                 uart_rx : Ser!Bytes, valid : BOOLEAN, tx_data : Ser!Bytes]
  <2>1. CASE Ser!Idle
    <3>1. regs' = [tx_en |-> regs.tx_en, rx_en |-> regs.rx_en, busy |-> regs.busy /\ ~uart_tx.ready,
                   over |-> regs.over \/ (regs.rx_en /\ uart_rx.over),
                   uart_rx |-> IF regs.rx_en /\ uart_rx.over THEN uart_rx.data ELSE regs.uart_rx,
                   valid |-> FALSE, tx_data |-> regs.tx_data]
      BY <2>1 DEF Ser!Idle
    <3> QED
      BY <3>1
  <2>2. CASE Ser!WriteCtrl
    BY <2>2 DEF Ser!WriteCtrl
  <2>3. CASE Ser!WriteStatus(FALSE)
    BY <2>3 DEF Ser!WriteStatus
  <2>4. ASSUME NEW byte \in Ser!Bytes, Ser!WriteTxData(byte)
        PROVE  regs' \in [tx_en : BOOLEAN, rx_en : BOOLEAN, busy : BOOLEAN, over : BOOLEAN,
                          uart_rx : Ser!Bytes, valid : BOOLEAN, tx_data : Ser!Bytes]
    BY <2>4 DEF Ser!WriteTxData
  <2> QED
    BY <2>1, <2>2, <2>3, <2>4 DEF Ser!Next, Ser!UartInit, Ser!Putc, Ser!Getc, Ser!NoWrite
<1>3. sent' \subseteq Ser!Bytes
  BY DEF Ser!Next, Ser!UartInit, Ser!Putc, Ser!Getc, Ser!NoWrite, Ser!Sent
<1> QED
  BY <1>1, <1>2, <1>3, SerTransmit, SerReceive DEF SerTyped, SerCounts

LEMMA SerInit == ASSUME Ser!UartAssumption, Ser!Init PROVE SerInv
<1>1. Ser!ZeroByte \in Ser!Bytes
  BY DEF Ser!ZeroByte, Ser!Bytes
<1>2. uart_rx = [q0 |-> 0, q1 |-> 0, start |-> FALSE, edges |-> 0, level |-> FALSE,
                 clk_cnt |-> 0, div_cnt |-> 0, data |-> Ser!ZeroByte, over |-> FALSE]
  BY DEF Ser!Init
<1> QED
  BY <1>1, <1>2, SerNumbers DEF Ser!Init, SerInv, SerTyped, SerCounts

LEMMA SerPromises == ASSUME Ser!UartAssumption, SerInv PROVE Ser!TypeOK
  BY SerFields, SerNumbers DEF SerInv, Ser!TypeOK

LEMMA SerAlways == ASSUME Ser!UartAssumption PROVE MCSpec => []SerInv
<1>1. MCInit => SerInv
  BY SerInit DEF MCInit
<1>2. SerInv /\ [MCNext]_blocksVars => SerInv'
  <2> SUFFICES ASSUME SerInv, [MCNext]_blocksVars PROVE SerInv'
    OBVIOUS
  <2>1. CASE Ser!Next
    BY <2>1, SerStep
  <2>2. CASE UNCHANGED serVars
    BY <2>2 DEF serVars, SerInv, SerTyped, SerCounts
  <2> QED
    BY <2>1, <2>2 DEF MCNext, blocksVars
<1> QED
  BY <1>1, <1>2, PTL DEF MCSpec

-----------------------------------------------------------------------------
(* The line of the UART is a channel (uart.v:92-327).                      *)

(* A bit lasts long enough for the receiver, which is four clocks late, to *)
(* take its sample in the bit it is for: uart_baud is 32'h1B8 at reset.    *)
SlowLine == Baud >= 5

(* What the pin is while bit k is sent, the start bit being bit 0 and the  *)
(* stop bit the last one, and what it was before.                          *)
LevelOf(k) == IF k = 0 THEN 0 ELSE IF k = UartBits + 1 THEN 1 ELSE regs.tx_data[k - 1]
LevelBefore(k) == IF k = 0 THEN 1 ELSE LevelOf(k - 1)

RxQuiet == /\ ~uart_rx.start /\ ~uart_rx.over /\ ~uart_rx.level
           /\ uart_rx.edges = 0 /\ uart_rx.clk_cnt = 0 /\ uart_rx.data = Ser!ZeroByte

(* The edge of the start bit is on its way through the synchroniser.       *)
RxWaits == RxQuiet /\ uart_tx.bit_cnt = 0 /\ uart_tx.cycle_cnt \in {0, 1}

(* The receiver has seen it and counts half a bit.                         *)
RxHalfBit ==
  /\ uart_rx.start /\ ~uart_rx.over /\ ~uart_rx.level /\ uart_rx.edges = 0 /\ uart_rx.data = Ser!ZeroByte
  /\ uart_tx.bit_cnt = 0 /\ uart_tx.cycle_cnt = uart_rx.clk_cnt + 2
  /\ uart_rx.clk_cnt <= Baud \div 2
  /\ uart_rx.div_cnt = IF uart_rx.clk_cnt = 0 THEN Baud ELSE Baud \div 2

(* The clock of the bit in which a sample point is, and the bits that have *)
(* been sampled.                                                           *)
Middle == 3 + (Baud \div 2)
Sampled == IF uart_rx.level THEN uart_rx.edges - 2 ELSE uart_rx.edges - 1

RxSamples ==
  /\ uart_rx.start /\ ~uart_rx.over /\ uart_rx.edges >= 1
  /\ uart_rx.level <=> uart_rx.clk_cnt = 0
  /\ uart_rx.edges = Ser!AllEdges => uart_rx.clk_cnt = 0
  /\ uart_rx.div_cnt = IF uart_rx.clk_cnt = 0 /\ uart_rx.edges = 1 THEN Baud \div 2 ELSE Baud
  /\ \/ uart_tx.bit_cnt = uart_rx.edges - 1 /\ uart_tx.cycle_cnt = Middle + uart_rx.clk_cnt
     \/ uart_tx.bit_cnt = uart_rx.edges /\ uart_tx.cycle_cnt + Baud + 1 = Middle + uart_rx.clk_cnt
  /\ \A j \in 0 .. UartBits - 1 : uart_rx.data[j] = IF j < Sampled THEN regs.tx_data[j] ELSE 0

(* The byte is there, in the last bit of it or just behind; what is on the *)
(* line from now on is no edge.                                            *)
BitsArePast == \/ uart_tx.bit_cnt = UartBits /\ uart_tx.cycle_cnt >= 2
               \/ uart_tx.bit_cnt = UartBits + 1
RxHandsOver == ~uart_rx.start /\ uart_rx.over /\ uart_rx.data = regs.tx_data /\ BitsArePast
RxIsDone == RxQuiet /\ BitsArePast

LineIsFree ==
  uart_tx.state = "IDLE" /\ ~regs.valid =>
    /\ RxQuiet /\ sent = {} /\ uart_rx.q1 <= uart_rx.q0 /\ uart_rx.q0 <= uart_tx.pin
    /\ cpu # "init" => uart_tx.pin = 1

LineIsAsked ==
  uart_tx.state = "IDLE" /\ regs.valid =>
    /\ RxQuiet /\ sent = {regs.tx_data} /\ cpu = "free" /\ regs.busy /\ ~uart_tx.ready
    /\ uart_tx.pin = 1 /\ uart_rx.q0 = 1

TxSends ==
  /\ cpu # "init" /\ regs.busy /\ ~uart_tx.ready
  /\ uart_tx.state = IF uart_tx.bit_cnt = 0 THEN "START"
                ELSE IF uart_tx.bit_cnt = UartBits + 1 THEN "STOP" ELSE "SEND_BYTE"
  /\ uart_tx.pin = LevelOf(uart_tx.bit_cnt)
  /\ uart_rx.q0 = IF uart_tx.cycle_cnt >= 1 THEN uart_tx.pin ELSE LevelBefore(uart_tx.bit_cnt)
  /\ uart_rx.q1 = IF uart_tx.cycle_cnt >= 2 THEN uart_tx.pin ELSE LevelBefore(uart_tx.bit_cnt)
  /\ regs.valid => cpu = "getc" /\ uart_tx.bit_cnt = 0 /\ uart_tx.cycle_cnt = 0

LineIsBusy ==
  uart_tx.state # "IDLE" =>
    /\ TxSends
    /\ \/ (RxWaits \/ RxHalfBit \/ RxSamples) /\ sent = {regs.tx_data}
       \/ (RxHandsOver \/ RxIsDone) /\ sent = {}

LineInv ==
  /\ cpu \in {"init", "free", "getc"}
  /\ cpu # "init" => regs.tx_en /\ regs.rx_en
  /\ ~regs.busy => uart_tx.state = "IDLE" /\ ~regs.valid
  /\ LineIsFree /\ LineIsAsked /\ LineIsBusy

(* One clock of the transmitter, of the receiver and of the program.       *)
LEMMA TxClock ==
  ASSUME Ser!UartAssumption, SerInv, Ser!Transmit
  PROVE  /\ uart_tx.state = "IDLE" /\ regs.valid =>
              uart_tx' = [state |-> "START", cycle_cnt |-> 0, bit_cnt |-> 0, pin |-> 0, ready |-> FALSE]
         /\ uart_tx.state = "IDLE" /\ ~regs.valid =>
              uart_tx' = [state |-> "IDLE", cycle_cnt |-> uart_tx.cycle_cnt, bit_cnt |-> uart_tx.bit_cnt,
                     pin |-> 1, ready |-> FALSE]
         /\ uart_tx.state # "IDLE" /\ uart_tx.cycle_cnt # Baud =>
              uart_tx' = [state |-> uart_tx.state, cycle_cnt |-> uart_tx.cycle_cnt + 1, bit_cnt |-> uart_tx.bit_cnt,
                     pin |-> uart_tx.pin, ready |-> uart_tx.ready]
         /\ uart_tx.state \in {"START", "SEND_BYTE"} /\ uart_tx.cycle_cnt = Baud =>
              uart_tx' = [state |-> IF uart_tx.bit_cnt = UartBits THEN "STOP" ELSE "SEND_BYTE",
                     cycle_cnt |-> 0, bit_cnt |-> uart_tx.bit_cnt + 1,
                     pin |-> IF uart_tx.bit_cnt = UartBits THEN 1 ELSE regs.tx_data[uart_tx.bit_cnt],
                     ready |-> uart_tx.ready]
         /\ uart_tx.state = "STOP" /\ uart_tx.cycle_cnt = Baud =>
              uart_tx' = [state |-> "IDLE", cycle_cnt |-> 0, bit_cnt |-> uart_tx.bit_cnt, pin |-> 1,
                     ready |-> TRUE]
<1> USE SerNumbers, SerFields DEF SerInv
<1>1. ASSUME uart_tx.state = "IDLE", regs.valid
      PROVE  uart_tx' = [state |-> "START", cycle_cnt |-> 0, bit_cnt |-> 0, pin |-> 0, ready |-> FALSE]
  BY <1>1 DEF Ser!Transmit
<1>2. ASSUME uart_tx.state = "IDLE", ~regs.valid
      PROVE  uart_tx' = [state |-> "IDLE", cycle_cnt |-> uart_tx.cycle_cnt, bit_cnt |-> uart_tx.bit_cnt,
                    pin |-> 1, ready |-> FALSE]
  BY <1>2 DEF Ser!Transmit
<1>3. ASSUME uart_tx.state # "IDLE", uart_tx.cycle_cnt # Baud
      PROVE  uart_tx' = [state |-> uart_tx.state, cycle_cnt |-> uart_tx.cycle_cnt + 1, bit_cnt |-> uart_tx.bit_cnt,
                    pin |-> uart_tx.pin, ready |-> uart_tx.ready]
  BY <1>3 DEF Ser!Transmit
<1>4. ASSUME uart_tx.state \in {"START", "SEND_BYTE"}, uart_tx.cycle_cnt = Baud
      PROVE  uart_tx' = [state |-> IF uart_tx.bit_cnt = UartBits THEN "STOP" ELSE "SEND_BYTE",
                    cycle_cnt |-> 0, bit_cnt |-> uart_tx.bit_cnt + 1,
                    pin |-> IF uart_tx.bit_cnt = UartBits THEN 1 ELSE regs.tx_data[uart_tx.bit_cnt],
                    ready |-> uart_tx.ready]
  BY <1>4 DEF Ser!Transmit
<1>5. ASSUME uart_tx.state = "STOP", uart_tx.cycle_cnt = Baud
      PROVE  uart_tx' = [state |-> "IDLE", cycle_cnt |-> 0, bit_cnt |-> uart_tx.bit_cnt, pin |-> 1,
                    ready |-> TRUE]
  BY <1>5 DEF Ser!Transmit
<1> QED
  BY <1>1, <1>2, <1>3, <1>4, <1>5

LEMMA RxClock ==
  ASSUME Ser!UartAssumption, SerInv, Ser!Receive(uart_tx.pin)
  PROVE  /\ uart_rx'.q0 = uart_tx.pin /\ uart_rx'.q1 = uart_rx.q0 /\ uart_rx'.start = Ser!RxStart
         /\ uart_rx'.edges = IF ~uart_rx.start \/ (Ser!Tick /\ uart_rx.edges = Ser!AllEdges) THEN 0
                        ELSE IF Ser!Tick THEN uart_rx.edges + 1 ELSE uart_rx.edges
         /\ uart_rx'.level = (Ser!Tick /\ uart_rx.edges # Ser!AllEdges)
         /\ uart_rx'.clk_cnt = IF uart_rx.start /\ ~Ser!Tick THEN uart_rx.clk_cnt + 1 ELSE 0
         /\ uart_rx'.div_cnt = Ser!RxDiv /\ uart_rx'.data = Ser!RxData(uart_tx.pin) /\ uart_rx'.over = Ser!RxOver
  BY DEF Ser!Receive

LEMMA ProgramClock ==
  ASSUME Ser!UartAssumption, SerInv, LineInv, Ser!Next
  PROVE  /\ Ser!Transmit /\ Ser!Receive(uart_tx.pin)
         /\ cpu' \in {"init", "free", "getc"} /\ (cpu # "init" => cpu' # "init")
         /\ cpu' # "init" => regs'.tx_en /\ regs'.rx_en
         /\ \/ /\ cpu = "free" /\ cpu' = "free" /\ ~regs.busy
               /\ regs'.busy /\ regs'.valid /\ regs'.tx_data \in Ser!Bytes
               /\ sent' = IF uart_rx'.over /\ ~uart_rx.over THEN {regs'.tx_data} ELSE sent \cup {regs'.tx_data}
            \/ /\ regs'.tx_data = regs.tx_data
               /\ regs'.valid => regs.valid /\ cpu # "getc" /\ (cpu = "free" => cpu' = "getc")
               /\ regs'.busy = regs.busy \/ (uart_tx.ready /\ regs'.busy = FALSE)
               /\ sent' = IF uart_rx'.over /\ ~uart_rx.over THEN {} ELSE sent
<1> USE SerFields DEF SerInv
<1>1. Ser!Transmit /\ Ser!Receive(uart_tx.pin)
  BY DEF Ser!Next, Ser!UartInit, Ser!Putc, Ser!Getc, Ser!NoWrite, Ser!Clock
<1>2. CASE Ser!UartInit
  <2>1. /\ regs'.tx_en = TRUE /\ regs'.rx_en = TRUE /\ regs'.busy = regs.busy
        /\ regs'.valid = regs.valid /\ regs'.tx_data = regs.tx_data
    BY <1>2 DEF Ser!UartInit, Ser!WriteCtrl
  <2>2. cpu = "init" /\ cpu' = "free" /\ sent' = IF uart_rx'.over /\ ~uart_rx.over THEN {} ELSE sent
    BY <1>2 DEF Ser!UartInit, Ser!Sent
  <2> QED
    BY <1>1, <2>1, <2>2
<1>3. ASSUME NEW byte \in Ser!Bytes, Ser!Putc(byte)
      PROVE  /\ cpu = "free" /\ cpu' = "free" /\ ~regs.busy
             /\ regs'.busy /\ regs'.valid /\ regs'.tx_data = byte /\ regs'.tx_en /\ regs'.rx_en
             /\ sent' = IF uart_rx'.over /\ ~uart_rx.over THEN {byte} ELSE sent \cup {byte}
  <2>1. cpu = "free" /\ cpu' = "free" /\ ~regs.busy /\ Ser!Accepted
    BY <1>3 DEF Ser!Putc, LineInv, Ser!Accepted
  <2>2. regs' = [tx_en |-> regs.tx_en, rx_en |-> regs.rx_en, busy |-> TRUE, over |-> regs.over,
                 uart_rx |-> regs.uart_rx, valid |-> TRUE, tx_data |-> byte]
    BY <1>3, <2>1 DEF Ser!Putc, Ser!WriteTxData
  <2> QED
    BY <1>3, <2>1, <2>2 DEF Ser!Putc, Ser!Sent, LineInv
<1>4. CASE Ser!Getc
  <2>1. /\ regs'.tx_en = regs.tx_en /\ regs'.rx_en = regs.rx_en /\ regs'.busy = regs.busy
        /\ regs'.valid = regs.valid /\ regs'.tx_data = regs.tx_data
    BY <1>4 DEF Ser!Getc, Ser!WriteStatus
  <2>2. cpu = "free" /\ cpu' = "getc" /\ sent' = IF uart_rx'.over /\ ~uart_rx.over THEN {} ELSE sent
    BY <1>4 DEF Ser!Getc, Ser!Sent
  <2> QED
    BY <1>1, <2>1, <2>2 DEF LineInv
<1>5. CASE Ser!NoWrite
  <2>1. /\ regs'.tx_en = regs.tx_en /\ regs'.rx_en = regs.rx_en
        /\ regs'.busy = (regs.busy /\ ~uart_tx.ready)
        /\ regs'.valid = FALSE /\ regs'.tx_data = regs.tx_data
    BY <1>5 DEF Ser!NoWrite, Ser!Idle
  <2>2. /\ cpu' = IF cpu = "getc" /\ regs.over THEN "free" ELSE cpu
        /\ sent' = IF uart_rx'.over /\ ~uart_rx.over THEN {} ELSE sent
    BY <1>5 DEF Ser!NoWrite, Ser!Sent
  <2> QED
    BY <1>1, <2>1, <2>2 DEF LineInv
<1> QED
  BY <1>1, <1>2, <1>3, <1>4, <1>5 DEF Ser!Next

(* The receiver while it waits for an edge, and when it has a byte.        *)
LEMMA QuietClock ==
  ASSUME Ser!UartAssumption, SerInv, Ser!Receive(uart_tx.pin), RxQuiet
  PROVE  /\ ~uart_rx'.over /\ ~uart_rx'.level /\ uart_rx'.edges = 0 /\ uart_rx'.clk_cnt = 0
         /\ uart_rx'.data = Ser!ZeroByte /\ uart_rx'.div_cnt = Baud
         /\ uart_rx'.start = (regs.rx_en /\ Ser!FallingEdge)
  BY RxClock DEF RxQuiet, Ser!Tick, Ser!RxStart, Ser!RxDiv, Ser!RxData, Ser!RxOver

LEMMA HandsOverClock ==
  ASSUME Ser!UartAssumption, SerInv, Ser!Receive(uart_tx.pin), RxHandsOver, ~Ser!FallingEdge
  PROVE  RxQuiet'
  BY RxClock DEF RxHandsOver, RxQuiet, Ser!Tick, Ser!RxStart, Ser!RxData, Ser!RxOver, Ser!ZeroByte

(* The channel that the line is.                                           *)
LEMMA ByteOfOne == ASSUME NEW x, sent = {x} PROVE (CHOOSE b \in sent : TRUE) = x
  OBVIOUS

LEMMA NothingHanded ==
  ASSUME uart_rx.over \in BOOLEAN, uart_rx'.over \in BOOLEAN, ~uart_rx.over, ~uart_rx'.over
  PROVE  UNCHANGED <<uart_rx.over, IF uart_rx.over THEN uart_rx.data ELSE Ser!ZeroByte>>
<1>1. uart_rx.over = FALSE /\ uart_rx'.over = FALSE
  OBVIOUS
<1> QED
  BY <1>1 DEF Ser!ZeroByte

LEMMA LineSame ==
  ASSUME uart_rx.over \in BOOLEAN, uart_rx'.over \in BOOLEAN, ~uart_rx.over, ~uart_rx'.over, regs'.busy = regs.busy, sent' = sent
  PROVE  UNCHANGED Ser!Line!vars
<1>1. UNCHANGED sent
  OBVIOUS
<1> QED
  BY <1>1, NothingHanded DEF Ser!Line!vars

(* While nothing is sent, a byte may be given away.                        *)
LEMMA FreeStep ==
  ASSUME Ser!UartAssumption, SlowLine, SerInv, LineInv, Ser!Next, uart_tx.state = "IDLE", ~regs.valid
  PROVE  LineInv' /\ [Ser!Line!Next]_(Ser!Line!vars)
<1>1. RxQuiet /\ sent = {} /\ uart_rx.q1 <= uart_rx.q0 /\ uart_rx.q0 <= uart_tx.pin /\ (cpu # "init" => uart_tx.pin = 1)
  BY DEF LineInv, LineIsFree
<1>2. uart_tx'.state = "IDLE" /\ uart_tx'.pin = 1 /\ ~uart_tx'.ready
  BY ProgramClock, TxClock
<1>3. ~Ser!FallingEdge
  BY <1>1, SerFields DEF Ser!FallingEdge, SerInv
<1>4. RxQuiet'
  BY <1>1, <1>3, ProgramClock, QuietClock DEF RxQuiet, Ser!ZeroByte
<1>5. ~uart_rx.over /\ ~uart_rx'.over /\ uart_rx.over \in BOOLEAN /\ uart_rx'.over \in BOOLEAN
  BY <1>1, <1>4, SerStep, SerFields DEF RxQuiet, SerInv, SerTyped
<1>6. uart_rx'.q1 <= uart_rx'.q0 /\ uart_rx'.q0 <= uart_tx'.pin /\ uart_rx'.q0 = uart_tx.pin
  BY <1>1, <1>2, ProgramClock, RxClock, SerFields DEF SerInv
<1>7. ASSUME cpu = "free", cpu' = "free", ~regs.busy, regs'.busy, regs'.valid,
             regs'.tx_data \in Ser!Bytes, regs'.tx_en, regs'.rx_en,
             sent' = IF uart_rx'.over /\ ~uart_rx.over THEN {regs'.tx_data} ELSE sent \cup {regs'.tx_data}
      PROVE  LineInv' /\ [Ser!Line!Next]_(Ser!Line!vars)
  <2>1. sent' = {regs'.tx_data}
    BY <1>1, <1>5, <1>7
  <2>2. LineInv'
    BY <1>1, <1>2, <1>4, <1>6, <1>7, <2>1 DEF LineInv, LineIsFree, LineIsAsked, LineIsBusy
  <2>3. Ser!Line!Send(regs'.tx_data)
    <3>1. (CHOOSE b \in sent' : TRUE) = regs'.tx_data
      BY <2>1
    <3>2. sent' # {} /\ ~regs.busy /\ (~regs'.busy) = FALSE
      BY <1>7, <2>1
    <3>3. UNCHANGED <<uart_rx.over, IF uart_rx.over THEN uart_rx.data ELSE Ser!ZeroByte>>
      BY <1>5, NothingHanded
    <3> QED
      BY <3>1, <3>2, <3>3 DEF Ser!Line!Send
  <2> QED
    BY <1>7, <2>2, <2>3 DEF Ser!Line!Next
<1>8. ASSUME regs'.tx_data = regs.tx_data, ~regs'.valid,
             regs'.busy = regs.busy \/ (uart_tx.ready /\ regs'.busy = FALSE),
             cpu' \in {"init", "free", "getc"}, cpu' # "init" => regs'.tx_en /\ regs'.rx_en,
             sent' = IF uart_rx'.over /\ ~uart_rx.over THEN {} ELSE sent
      PROVE  LineInv' /\ [Ser!Line!Next]_(Ser!Line!vars)
  <2>1. sent' = {}
    BY <1>1, <1>5, <1>8
  <2>2. LineInv'
    BY <1>1, <1>2, <1>4, <1>6, <1>8, <2>1 DEF LineInv, LineIsFree, LineIsAsked, LineIsBusy
  <2>3. ASSUME regs'.busy = regs.busy PROVE UNCHANGED Ser!Line!vars
    BY <1>1, <1>5, <2>1, <2>3, LineSame
  <2>4. ASSUME regs.busy, ~regs'.busy PROVE Ser!Line!Free
    <3>1. UNCHANGED <<sent # {}, IF sent = {} THEN Ser!ZeroByte ELSE CHOOSE b \in sent : TRUE>>
      BY <1>1, <2>1
    <3>2. UNCHANGED <<uart_rx.over, IF uart_rx.over THEN uart_rx.data ELSE Ser!ZeroByte>>
      BY <1>5, NothingHanded
    <3> QED
      BY <1>1, <1>5, <2>4, <3>1, <3>2 DEF Ser!Line!Free
  <2>5. regs.busy \in BOOLEAN
    BY SerFields DEF SerInv
  <2> QED
    BY <1>8, <2>2, <2>3, <2>4, <2>5 DEF Ser!Line!Next
<1> QED
  BY <1>7, <1>8, ProgramClock

(* The transmitter takes the byte and pulls the line down.                 *)
LEMMA AskedStep ==
  ASSUME Ser!UartAssumption, SlowLine, SerInv, LineInv, Ser!Next, uart_tx.state = "IDLE", regs.valid
  PROVE  LineInv' /\ [Ser!Line!Next]_(Ser!Line!vars)
<1>1. /\ RxQuiet /\ sent = {regs.tx_data} /\ cpu = "free" /\ regs.busy /\ ~uart_tx.ready
      /\ uart_tx.pin = 1 /\ uart_rx.q0 = 1
  BY DEF LineInv, LineIsAsked
<1>2. uart_tx' = [state |-> "START", cycle_cnt |-> 0, bit_cnt |-> 0, pin |-> 0, ready |-> FALSE]
  BY ProgramClock, TxClock
<1>3. RxQuiet' /\ uart_rx'.q0 = 1 /\ uart_rx'.q1 = 1
  <2>1. ~Ser!FallingEdge
    BY <1>1 DEF Ser!FallingEdge
  <2> QED
    BY <1>1, <2>1, ProgramClock, RxClock, QuietClock DEF RxQuiet, Ser!ZeroByte
<1>4. ~uart_rx.over /\ ~uart_rx'.over /\ uart_rx.over \in BOOLEAN /\ uart_rx'.over \in BOOLEAN
  BY <1>1, <1>3, SerStep, SerFields DEF RxQuiet, SerInv, SerTyped
<1>5. /\ regs'.tx_data = regs.tx_data /\ regs'.busy = regs.busy
      /\ regs'.valid => cpu' = "getc"
      /\ sent' = sent /\ cpu' \in {"free", "getc"} /\ regs'.tx_en /\ regs'.rx_en
  BY <1>1, <1>4, ProgramClock
<1>6. TxSends'
  BY <1>1, <1>2, <1>3, <1>5, SerNumbers DEF TxSends, LevelOf, LevelBefore
<1>7. RxWaits'
  BY <1>2, <1>3 DEF RxWaits
<1>8. LineInv'
  BY <1>1, <1>2, <1>5, <1>6, <1>7 DEF LineInv, LineIsFree, LineIsAsked, LineIsBusy
<1>9. UNCHANGED Ser!Line!vars
  BY <1>1, <1>4, <1>5, LineSame
<1> QED
  BY <1>8, <1>9

(* One clock of a transmission: nothing is accepted, and the line moves to *)
(* the next clock of its bit or to the next bit, or is free again.         *)
LEMMA SendClock ==
  ASSUME Ser!UartAssumption, SlowLine, SerInv, LineInv, Ser!Next, uart_tx.state # "IDLE"
  PROVE  /\ regs'.tx_data = regs.tx_data /\ regs'.busy /\ regs.busy /\ ~regs'.valid
         /\ regs.rx_en /\ regs'.tx_en /\ regs'.rx_en /\ cpu' \in {"free", "getc"}
         /\ sent' = IF uart_rx'.over /\ ~uart_rx.over THEN {} ELSE sent
         /\ IF uart_tx.bit_cnt = UartBits + 1 /\ uart_tx.cycle_cnt = Baud
            THEN uart_tx'.state = "IDLE" /\ uart_tx'.pin = 1 /\ uart_tx.pin = 1
            ELSE /\ uart_tx'.state # "IDLE" /\ TxSends'
                 /\ IF uart_tx.cycle_cnt = Baud
                    THEN uart_tx'.bit_cnt = uart_tx.bit_cnt + 1 /\ uart_tx'.cycle_cnt = 0
                    ELSE uart_tx'.bit_cnt = uart_tx.bit_cnt /\ uart_tx'.cycle_cnt = uart_tx.cycle_cnt + 1
<1> USE SerNumbers, SerFields DEF SerInv
<1>1. TxSends
  BY DEF LineInv, LineIsBusy
<1>2. regs.valid => cpu = "getc"
  BY <1>1 DEF TxSends
<1>3. regs.busy /\ ~uart_tx.ready /\ cpu # "init" /\ regs.rx_en
  BY <1>1 DEF TxSends, LineInv
<1>4. /\ regs'.tx_data = regs.tx_data /\ regs'.busy = regs.busy /\ ~regs'.valid
      /\ regs'.tx_en /\ regs'.rx_en /\ cpu' \in {"free", "getc"}
      /\ sent' = IF uart_rx'.over /\ ~uart_rx.over THEN {} ELSE sent
  BY <1>2, <1>3, ProgramClock
<1>5. uart_rx'.q0 = uart_tx.pin /\ uart_rx'.q1 = uart_rx.q0
  BY ProgramClock, RxClock
<1>6. /\ uart_tx.state = IF uart_tx.bit_cnt = 0 THEN "START"
                    ELSE IF uart_tx.bit_cnt = UartBits + 1 THEN "STOP" ELSE "SEND_BYTE"
      /\ uart_tx.pin = LevelOf(uart_tx.bit_cnt)
      /\ uart_rx.q0 = IF uart_tx.cycle_cnt >= 1 THEN uart_tx.pin ELSE LevelBefore(uart_tx.bit_cnt)
      /\ uart_rx.q1 = IF uart_tx.cycle_cnt >= 2 THEN uart_tx.pin ELSE LevelBefore(uart_tx.bit_cnt)
  BY <1>1 DEF TxSends
<1>7. ASSUME NEW k \in 0 .. UartBits + 1
      PROVE  LevelOf(k)' = LevelOf(k) /\ LevelBefore(k)' = LevelBefore(k)
  BY <1>4 DEF LevelOf, LevelBefore
<1>8. CASE uart_tx.cycle_cnt # Baud
  <2>1. /\ uart_tx'.state = uart_tx.state /\ uart_tx'.cycle_cnt = uart_tx.cycle_cnt + 1 /\ uart_tx'.bit_cnt = uart_tx.bit_cnt
        /\ uart_tx'.pin = uart_tx.pin /\ uart_tx'.ready = uart_tx.ready
    BY <1>8, ProgramClock, TxClock
  <2>2. uart_rx'.q0 = IF uart_tx'.cycle_cnt >= 1 THEN uart_tx'.pin ELSE LevelBefore(uart_tx'.bit_cnt)
    BY <1>5, <2>1
  <2>3. uart_rx'.q1 = IF uart_tx'.cycle_cnt >= 2 THEN uart_tx'.pin ELSE LevelBefore(uart_tx'.bit_cnt)
    BY <1>5, <1>6, <2>1
  <2>4. TxSends'
    BY <1>3, <1>4, <1>6, <1>7, <2>1, <2>2, <2>3 DEF TxSends
  <2> QED
    BY <1>3, <1>4, <1>8, <2>1, <2>4
<1>9. CASE uart_tx.cycle_cnt = Baud /\ uart_tx.bit_cnt # UartBits + 1
  <2>1. uart_tx.state \in {"START", "SEND_BYTE"} /\ uart_tx.bit_cnt \in 0 .. UartBits
    BY <1>6, <1>9
  <2>2. /\ uart_tx'.state = IF uart_tx.bit_cnt = UartBits THEN "STOP" ELSE "SEND_BYTE"
        /\ uart_tx'.cycle_cnt = 0 /\ uart_tx'.bit_cnt = uart_tx.bit_cnt + 1 /\ uart_tx'.ready = uart_tx.ready
        /\ uart_tx'.pin = IF uart_tx.bit_cnt = UartBits THEN 1 ELSE regs.tx_data[uart_tx.bit_cnt]
    BY <1>9, <2>1, ProgramClock, TxClock
  <2>3. LevelBefore(uart_tx.bit_cnt + 1) = uart_tx.pin /\ LevelOf(uart_tx.bit_cnt + 1) = uart_tx'.pin
    BY <1>6, <2>1, <2>2 DEF LevelOf, LevelBefore
  <2>4. uart_rx.q0 = uart_tx.pin
    BY <1>6, <1>9
  <2>5. /\ uart_tx'.state = IF uart_tx'.bit_cnt = UartBits + 1 THEN "STOP" ELSE "SEND_BYTE"
        /\ uart_tx'.bit_cnt # 0 /\ uart_tx'.cycle_cnt = 0 /\ ~uart_tx'.ready
        /\ uart_tx'.bit_cnt \in 0 .. UartBits + 1
    BY <1>3, <2>1, <2>2
  <2>6. /\ uart_tx'.pin = LevelOf(uart_tx'.bit_cnt) /\ uart_rx'.q0 = LevelBefore(uart_tx'.bit_cnt)
        /\ uart_rx'.q1 = LevelBefore(uart_tx'.bit_cnt)
    BY <1>5, <2>2, <2>3, <2>4
  <2>7. LevelOf(uart_tx.bit_cnt)' = uart_tx'.pin /\ LevelBefore(uart_tx.bit_cnt)' = LevelBefore(uart_tx'.bit_cnt)
    BY <1>4, <2>5, <2>6 DEF LevelOf, LevelBefore
  <2>8. TxSends'
    BY <1>3, <1>4, <2>5, <2>6, <2>7 DEF TxSends
  <2> QED
    BY <1>3, <1>4, <1>9, <2>1, <2>2, <2>5, <2>8
<1>10. CASE uart_tx.cycle_cnt = Baud /\ uart_tx.bit_cnt = UartBits + 1
  <2>1. uart_tx.state = "STOP" /\ uart_tx.pin = 1
    BY <1>6, <1>10 DEF LevelOf
  <2> QED
    BY <1>3, <1>4, <1>10, <2>1, ProgramClock, TxClock
<1> QED
  BY <1>8, <1>9, <1>10

(* The only edge that the receiver sees while it waits is the one of the   *)
(* start bit.                                                              *)
LEMMA EdgeSeen ==
  ASSUME Ser!UartAssumption, SlowLine, SerInv, TxSends
  PROVE  /\ uart_tx.bit_cnt = 0 /\ uart_tx.cycle_cnt = 0 => ~Ser!FallingEdge
         /\ uart_tx.bit_cnt = 0 /\ uart_tx.cycle_cnt = 1 => Ser!FallingEdge
         /\ uart_tx.cycle_cnt >= 2 => ~Ser!FallingEdge
         /\ uart_tx.bit_cnt = UartBits + 1 => ~Ser!FallingEdge
  BY SerNumbers, SerFields DEF SerInv, TxSends, Ser!FallingEdge, LevelOf, LevelBefore

(* A byte on its way: what the receiver does, the transmitter being at     *)
(* the clock that its state tells.                                         *)
LEMMA SendingGoesOn ==
  ASSUME Ser!UartAssumption, SlowLine, SerInv, LineInv, Ser!Next, uart_tx.state # "IDLE",
         sent = {regs.tx_data}, ~(uart_tx.bit_cnt = UartBits + 1 /\ uart_tx.cycle_cnt = Baud),
         ~uart_rx.over, RxWaits' \/ RxHalfBit' \/ RxSamples'
  PROVE  LineInv' /\ [Ser!Line!Next]_(Ser!Line!vars)
<1>1. ~uart_rx'.over /\ uart_rx.over \in BOOLEAN /\ uart_rx'.over \in BOOLEAN
  BY SerStep, SerFields DEF RxWaits, RxQuiet, RxHalfBit, RxSamples, SerInv, SerTyped
<1>2. /\ regs'.tx_data = regs.tx_data /\ regs'.busy /\ regs.busy
      /\ regs'.tx_en /\ regs'.rx_en /\ cpu' \in {"free", "getc"}
      /\ sent' = sent /\ uart_tx'.state # "IDLE" /\ TxSends'
  BY <1>1, SendClock
<1>3. LineInv'
  BY <1>2 DEF LineInv, LineIsFree, LineIsAsked, LineIsBusy
<1>4. regs.busy \in BOOLEAN /\ regs'.busy \in BOOLEAN
  BY SerStep, SerFields DEF SerInv, SerTyped
<1>5. UNCHANGED Ser!Line!vars
  BY <1>1, <1>2, <1>4, LineSame
<1> QED
  BY <1>3, <1>5

LEMMA WaitsStep ==
  ASSUME Ser!UartAssumption, SlowLine, SerInv, LineInv, Ser!Next, uart_tx.state # "IDLE", RxWaits,
         sent = {regs.tx_data}
  PROVE  LineInv' /\ [Ser!Line!Next]_(Ser!Line!vars)
<1> USE SerNumbers DEF SlowLine
<1>1. RxQuiet /\ uart_tx.bit_cnt = 0 /\ uart_tx.cycle_cnt \in {0, 1} /\ ~uart_rx.over
  BY DEF RxWaits, RxQuiet
<1>2. uart_tx'.bit_cnt = 0 /\ uart_tx'.cycle_cnt = uart_tx.cycle_cnt + 1 /\ regs.rx_en
  BY <1>1, SendClock
<1>3. TxSends
  BY DEF LineInv, LineIsBusy
<1>4. ASSUME uart_tx.cycle_cnt = 0 PROVE RxWaits'
  <2>1. RxQuiet'
    BY <1>1, <1>3, <1>4, EdgeSeen, ProgramClock, QuietClock DEF RxQuiet, Ser!ZeroByte
  <2> QED
    BY <1>2, <1>4, <2>1 DEF RxWaits
<1>5. ASSUME uart_tx.cycle_cnt = 1 PROVE RxHalfBit'
  <2>1. /\ uart_rx'.start /\ ~uart_rx'.over /\ ~uart_rx'.level /\ uart_rx'.edges = 0 /\ uart_rx'.clk_cnt = 0
        /\ uart_rx'.data = Ser!ZeroByte /\ uart_rx'.div_cnt = Baud
    BY <1>1, <1>2, <1>3, <1>5, EdgeSeen, ProgramClock, QuietClock
  <2> QED
    BY <1>2, <1>5, <2>1 DEF RxHalfBit, Ser!ZeroByte
<1> QED
  BY <1>1, <1>4, <1>5, SendingGoesOn

LEMMA HalfBitStep ==
  ASSUME Ser!UartAssumption, SlowLine, SerInv, LineInv, Ser!Next, uart_tx.state # "IDLE", RxHalfBit,
         sent = {regs.tx_data}
  PROVE  LineInv' /\ [Ser!Line!Next]_(Ser!Line!vars)
<1> USE SerNumbers DEF SlowLine
<1>1. /\ uart_rx.start /\ ~uart_rx.over /\ ~uart_rx.level /\ uart_rx.edges = 0 /\ uart_rx.data = Ser!ZeroByte
      /\ uart_tx.bit_cnt = 0 /\ uart_tx.cycle_cnt = uart_rx.clk_cnt + 2 /\ uart_rx.clk_cnt <= Baud \div 2
      /\ uart_rx.div_cnt = IF uart_rx.clk_cnt = 0 THEN Baud ELSE Baud \div 2
  BY DEF RxHalfBit
<1>2. uart_rx.clk_cnt \in Nat /\ 2 * (Baud \div 2) <= Baud /\ Middle = 3 + (Baud \div 2)
  BY SerFields DEF SerInv, Middle
<1>3. uart_tx'.bit_cnt = 0 /\ uart_tx'.cycle_cnt = uart_tx.cycle_cnt + 1 /\ regs.rx_en
  BY <1>1, <1>2, SendClock
<1>4. /\ uart_rx'.start /\ ~uart_rx'.over /\ uart_rx'.div_cnt = Baud \div 2 /\ uart_rx'.data = Ser!ZeroByte
      /\ uart_rx'.edges = (IF Ser!Tick THEN 1 ELSE 0) /\ (uart_rx'.level <=> Ser!Tick)
      /\ uart_rx'.clk_cnt = (IF Ser!Tick THEN 0 ELSE uart_rx.clk_cnt + 1)
  <2>1. Ser!AllEdges # 0
    OBVIOUS
  <2> QED
    <3>1. Ser!RxStart /\ ~Ser!RxOver /\ Ser!RxDiv = Baud \div 2 /\ Ser!RxData(uart_tx.pin) = Ser!ZeroByte
      BY <1>1, <1>3, <2>1 DEF Ser!RxStart, Ser!RxOver, Ser!RxDiv, Ser!RxData
    <3>2. uart_rx'.start /\ ~uart_rx'.over
      BY <3>1, ProgramClock, RxClock
    <3>3. uart_rx'.div_cnt = Baud \div 2 /\ uart_rx'.data = Ser!ZeroByte
      BY <3>1, ProgramClock, RxClock
    <3>4. uart_rx'.edges = IF Ser!Tick THEN 1 ELSE 0
      BY <1>1, <2>1, ProgramClock, RxClock
    <3>5. uart_rx'.level <=> Ser!Tick
      BY <1>1, <2>1, ProgramClock, RxClock
    <3>6. uart_rx'.clk_cnt = IF Ser!Tick THEN 0 ELSE uart_rx.clk_cnt + 1
      BY <1>1, ProgramClock, RxClock
    <3> QED
      BY <3>2, <3>3, <3>4, <3>5, <3>6
<1>5. ASSUME Ser!Tick PROVE RxSamples'
  <2>1. uart_rx.clk_cnt = Baud \div 2
    BY <1>1, <1>5 DEF Ser!Tick
  <2>2. uart_tx'.cycle_cnt = Middle + uart_rx'.clk_cnt /\ uart_rx'.edges = 1 /\ uart_rx'.clk_cnt = 0 /\ uart_rx'.level
    BY <1>1, <1>2, <1>3, <1>4, <1>5, <2>1
  <2>3. Middle' = Middle /\ Ser!AllEdges # 1
    BY DEF Middle
  <2>4. ASSUME NEW j \in 0 .. UartBits - 1 PROVE uart_rx'.data[j] = 0 /\ ~(j < -1)
    BY <1>4 DEF Ser!ZeroByte
  <2>5. Sampled' = -1
    BY <2>2 DEF Sampled
  <2> QED
    BY <1>3, <1>4, <2>2, <2>3, <2>4, <2>5 DEF RxSamples, Ser!AllEdges
<1>6. ASSUME ~Ser!Tick PROVE RxHalfBit'
  <2>1. uart_rx.clk_cnt # Baud \div 2
    BY <1>1, <1>2, <1>6 DEF Ser!Tick
  <2>2. uart_rx'.clk_cnt = uart_rx.clk_cnt + 1 /\ uart_rx'.edges = 0 /\ ~uart_rx'.level
    BY <1>4, <1>6
  <2>3. uart_rx'.clk_cnt # 0 /\ uart_rx'.clk_cnt <= Baud \div 2 /\ uart_tx'.cycle_cnt = uart_rx'.clk_cnt + 2
    BY <1>1, <1>2, <1>3, <2>1, <2>2
  <2> QED
    BY <1>3, <1>4, <2>2, <2>3 DEF RxHalfBit, Ser!ZeroByte
<1> QED
  BY <1>1, <1>5, <1>6, SendingGoesOn

(* What a sample point puts into the byte is the bit that is sent.         *)
LEMMA SampleIsBit ==
  ASSUME Ser!UartAssumption, SlowLine, SerInv, TxSends, RxSamples, uart_rx.level, uart_rx.edges >= 2
  PROVE  /\ uart_tx.bit_cnt = uart_rx.edges - 1 /\ uart_tx.cycle_cnt = Middle /\ Middle <= Baud
         /\ \A j \in 0 .. UartBits - 1 :
              Ser!RxData(uart_tx.pin)[j] = IF j < uart_rx.edges - 1 THEN regs.tx_data[j] ELSE 0
<1> USE SerNumbers, SerFields DEF SerInv, SlowLine
<1>1. 2 * (Baud \div 2) <= Baud /\ Middle = 3 + (Baud \div 2) /\ Baud \div 2 \in Nat
  BY DEF Middle
<1>2. uart_rx.clk_cnt = 0 /\ uart_rx.start /\ Sampled = uart_rx.edges - 2 /\ uart_rx.edges - 2 \in 0 .. UartBits - 1
  BY DEF RxSamples, Sampled
<1>3. uart_tx.bit_cnt = uart_rx.edges - 1 /\ uart_tx.cycle_cnt = Middle /\ Middle <= Baud
  BY <1>1, <1>2 DEF RxSamples
<1>4. uart_tx.pin = regs.tx_data[uart_rx.edges - 2]
  <2>1. uart_tx.pin = LevelOf(uart_tx.bit_cnt)
    BY DEF TxSends
  <2>2. uart_tx.bit_cnt \in 1 .. UartBits /\ uart_tx.bit_cnt - 1 = uart_rx.edges - 2
    BY <1>2, <1>3
  <2> QED
    BY <2>1, <2>2 DEF LevelOf
<1>5. regs.tx_data[uart_rx.edges - 2] \in {0, 1}
  BY <1>2 DEF Ser!Bytes
<1>6. Ser!RxData(uart_tx.pin) = [uart_rx.data EXCEPT ![uart_rx.edges - 2] = IF uart_tx.pin = 1 THEN 1 ELSE @]
  BY <1>2 DEF Ser!RxData
<1>7. ASSUME NEW j \in 0 .. UartBits - 1
      PROVE  Ser!RxData(uart_tx.pin)[j] = IF j < uart_rx.edges - 1 THEN regs.tx_data[j] ELSE 0
  <2>1. uart_rx.data[j] = IF j < uart_rx.edges - 2 THEN regs.tx_data[j] ELSE 0
    BY <1>2 DEF RxSamples
  <2>2. CASE j = uart_rx.edges - 2
    <3>1. Ser!RxData(uart_tx.pin)[j] = IF uart_tx.pin = 1 THEN 1 ELSE uart_rx.data[j]
      BY <1>2, <1>6, <2>2 DEF Ser!Bytes
    <3> QED
      BY <1>2, <1>4, <1>5, <2>1, <2>2, <3>1
  <2>3. CASE j # uart_rx.edges - 2
    <3>1. Ser!RxData(uart_tx.pin)[j] = uart_rx.data[j]
      BY <1>2, <1>6, <2>3 DEF Ser!Bytes
    <3> QED
      BY <1>2, <2>1, <2>3, <3>1
  <2> QED
    BY <2>2, <2>3
<1> QED
  BY <1>3, <1>7

(* The last bit: the byte is handed over.                                  *)
LEMMA LastSampleStep ==
  ASSUME Ser!UartAssumption, SlowLine, SerInv, LineInv, Ser!Next, uart_tx.state # "IDLE", RxSamples,
         sent = {regs.tx_data}, uart_rx.edges = Ser!AllEdges
  PROVE  LineInv' /\ [Ser!Line!Next]_(Ser!Line!vars)
<1> USE SerNumbers DEF SlowLine
<1>1. TxSends
  BY DEF LineInv, LineIsBusy
<1>2. uart_rx.start /\ ~uart_rx.over /\ uart_rx.level /\ uart_rx.edges >= 2
  BY DEF RxSamples
<1>3. /\ uart_tx.bit_cnt = UartBits /\ uart_tx.cycle_cnt >= 2
      /\ \A j \in 0 .. UartBits - 1 : Ser!RxData(uart_tx.pin)[j] = regs.tx_data[j]
  <2>1. /\ uart_tx.bit_cnt = uart_rx.edges - 1 /\ uart_tx.cycle_cnt = 3 + (Baud \div 2)
        /\ \A j \in 0 .. UartBits - 1 :
             Ser!RxData(uart_tx.pin)[j] = IF j < uart_rx.edges - 1 THEN regs.tx_data[j] ELSE 0
    BY <1>1, <1>2, SampleIsBit DEF Middle
  <2> QED
    BY <2>1
<1>4. ~Ser!FallingEdge
  BY <1>1, <1>3, EdgeSeen
<1>5. ~uart_rx'.start /\ uart_rx'.over /\ uart_rx'.data = Ser!RxData(uart_tx.pin)
  <2>1. ~Ser!RxStart /\ Ser!RxOver
    BY <1>2, <1>4 DEF Ser!RxStart, Ser!RxOver
  <2> QED
    BY <2>1, ProgramClock, RxClock
<1>6. /\ regs'.tx_data = regs.tx_data /\ regs'.busy /\ regs.busy /\ ~regs'.valid
      /\ regs'.tx_en /\ regs'.rx_en /\ cpu' \in {"free", "getc"}
      /\ sent' = {} /\ uart_tx'.state # "IDLE" /\ TxSends' /\ BitsArePast'
  <2>1. uart_tx.bit_cnt # UartBits + 1 /\ uart_tx.cycle_cnt \in Nat
    BY <1>3, SerFields DEF SerInv
  <2> QED
    BY <1>2, <1>3, <1>5, <2>1, SendClock DEF BitsArePast
<1>7. uart_rx'.data = regs.tx_data
  <2>1. uart_rx'.data \in Ser!Bytes /\ regs.tx_data \in Ser!Bytes
    BY SerStep, SerFields DEF SerInv, SerTyped
  <2> QED
    BY <1>3, <1>5, <2>1 DEF Ser!Bytes
<1>8. LineInv'
  <2>1. RxHandsOver'
    BY <1>5, <1>6, <1>7 DEF RxHandsOver
  <2> QED
    BY <1>6, <2>1 DEF LineInv, LineIsFree, LineIsAsked, LineIsBusy
<1>9. Ser!Line!HandOver
  <2>1. (CHOOSE b \in sent : TRUE) = regs.tx_data /\ sent # {}
    BY ByteOfOne
  <2>2. (uart_rx.over)' = TRUE /\ (~regs.busy)' = (~regs.busy)
    <3>1. uart_rx'.over \in BOOLEAN
      BY SerStep DEF SerInv, SerTyped
    <3> QED
      BY <1>5, <1>6, <3>1
  <2>3. (IF uart_rx.over THEN uart_rx.data ELSE Ser!ZeroByte)' = regs.tx_data
    BY <1>5, <1>7
  <2> QED
    BY <1>6, <2>1, <2>2, <2>3 DEF Ser!Line!HandOver, Ser!ZeroByte
<1> QED
  BY <1>8, <1>9 DEF Ser!Line!Next

(* A bit before the last one.                                              *)
LEMMA SamplesStep ==
  ASSUME Ser!UartAssumption, SlowLine, SerInv, LineInv, Ser!Next, uart_tx.state # "IDLE", RxSamples,
         sent = {regs.tx_data}, uart_rx.edges # Ser!AllEdges
  PROVE  LineInv' /\ [Ser!Line!Next]_(Ser!Line!vars)
<1> USE SerNumbers DEF SlowLine
<1>1. TxSends
  BY DEF LineInv, LineIsBusy
<1>2. /\ uart_rx.start /\ ~uart_rx.over /\ uart_rx.edges \in 1 .. UartBits /\ uart_rx.clk_cnt \in 0 .. Baud
      /\ uart_tx.bit_cnt \in 0 .. UartBits + 1 /\ uart_tx.cycle_cnt \in 0 .. Baud
      /\ uart_rx.level \in BOOLEAN /\ (uart_rx.level <=> uart_rx.clk_cnt = 0)
      /\ uart_rx.div_cnt = IF uart_rx.clk_cnt = 0 /\ uart_rx.edges = 1 THEN Baud \div 2 ELSE Baud
      /\ \/ uart_tx.bit_cnt = uart_rx.edges - 1 /\ uart_tx.cycle_cnt = Middle + uart_rx.clk_cnt
         \/ uart_tx.bit_cnt = uart_rx.edges /\ uart_tx.cycle_cnt + Baud + 1 = Middle + uart_rx.clk_cnt
  BY SerFields DEF RxSamples, SerInv
<1>3. /\ 2 * (Baud \div 2) <= Baud /\ Middle = 3 + (Baud \div 2) /\ Baud \div 2 \in Nat
      /\ Middle' = Middle /\ Middle <= Baud
  BY DEF Middle
<1>4. Ser!Tick <=> uart_rx.clk_cnt = Baud
  BY <1>2, <1>3 DEF Ser!Tick
<1>5. uart_tx.bit_cnt # UartBits + 1 /\ regs.rx_en
  BY <1>2, SendClock
<1>6. regs'.tx_data = regs.tx_data
  BY SendClock
<1>7. /\ uart_rx'.start /\ ~uart_rx'.over /\ uart_rx'.div_cnt = Baud /\ uart_rx'.data = Ser!RxData(uart_tx.pin)
      /\ uart_rx'.edges = IF uart_rx.clk_cnt = Baud THEN uart_rx.edges + 1 ELSE uart_rx.edges
      /\ uart_rx'.level <=> uart_rx.clk_cnt = Baud
      /\ uart_rx'.clk_cnt = IF uart_rx.clk_cnt = Baud THEN 0 ELSE uart_rx.clk_cnt + 1
  <2>1. Ser!RxStart /\ ~Ser!RxOver /\ Ser!RxDiv = Baud
    BY <1>2, <1>5 DEF Ser!RxStart, Ser!RxOver, Ser!RxDiv
  <2>2. uart_rx'.start /\ ~uart_rx'.over /\ uart_rx'.div_cnt = Baud /\ uart_rx'.data = Ser!RxData(uart_tx.pin)
    BY <2>1, ProgramClock, RxClock
  <2>3. uart_rx'.edges = IF Ser!Tick THEN uart_rx.edges + 1 ELSE uart_rx.edges
    BY <1>2, ProgramClock, RxClock
  <2>4. uart_rx'.level <=> Ser!Tick
    BY <1>2, ProgramClock, RxClock
  <2>5. uart_rx'.clk_cnt = IF Ser!Tick THEN 0 ELSE uart_rx.clk_cnt + 1
    BY <1>2, ProgramClock, RxClock
  <2> QED
    BY <1>4, <2>2, <2>3, <2>4, <2>5
<1>8. ASSUME NEW j \in 0 .. UartBits - 1
      PROVE  uart_rx'.data[j] = IF j < uart_rx.edges - 1 THEN regs.tx_data[j] ELSE 0
  <2>1. CASE uart_rx.level /\ uart_rx.edges >= 2
    BY <1>1, <1>7, <2>1, SampleIsBit
  <2>2. CASE uart_rx.level /\ uart_rx.edges = 1
    <3>1. uart_rx'.data[j] = uart_rx.data[j]
      BY <1>2, <1>7, <2>2 DEF Ser!RxData
    <3>2. uart_rx.data[j] = 0
      BY <2>2 DEF RxSamples, Sampled
    <3> QED
      BY <2>2, <3>1, <3>2
  <2>3. CASE ~uart_rx.level
    <3>1. uart_rx'.data[j] = uart_rx.data[j]
      BY <1>2, <1>7, <2>3 DEF Ser!RxData
    <3>2. uart_rx.data[j] = IF j < uart_rx.edges - 1 THEN regs.tx_data[j] ELSE 0
      BY <2>3 DEF RxSamples, Sampled
    <3> QED
      BY <3>1, <3>2
  <2> QED
    BY <1>2, <2>1, <2>2, <2>3
<1>9. RxSamples'
  <2>1. Sampled' = uart_rx.edges - 1
    BY <1>2, <1>7 DEF Sampled
  <2>2. \/ uart_tx'.bit_cnt = uart_rx'.edges - 1 /\ uart_tx'.cycle_cnt = Middle + uart_rx'.clk_cnt
        \/ uart_tx'.bit_cnt = uart_rx'.edges /\ uart_tx'.cycle_cnt + Baud + 1 = Middle + uart_rx'.clk_cnt
    <3>1. IF uart_tx.cycle_cnt = Baud
          THEN uart_tx'.bit_cnt = uart_tx.bit_cnt + 1 /\ uart_tx'.cycle_cnt = 0
          ELSE uart_tx'.bit_cnt = uart_tx.bit_cnt /\ uart_tx'.cycle_cnt = uart_tx.cycle_cnt + 1
      BY <1>5, SendClock
    <3>2. CASE uart_rx.clk_cnt = Baud
      BY <1>2, <1>3, <1>7, <3>1, <3>2
    <3>3. CASE uart_rx.clk_cnt # Baud
      BY <1>2, <1>3, <1>7, <3>1, <3>3
    <3> QED
      BY <3>2, <3>3
  <2>3. /\ uart_rx'.start /\ ~uart_rx'.over /\ uart_rx'.edges >= 1 /\ (uart_rx'.level <=> uart_rx'.clk_cnt = 0)
        /\ uart_rx'.edges = Ser!AllEdges => uart_rx'.clk_cnt = 0
        /\ ~(uart_rx'.clk_cnt = 0 /\ uart_rx'.edges = 1)
    BY <1>2, <1>7
  <2> QED
    BY <1>3, <1>6, <1>7, <1>8, <2>1, <2>2, <2>3 DEF RxSamples, Ser!AllEdges
<1> QED
  BY <1>2, <1>5, <1>9, SendingGoesOn

(* The byte is there, and the line comes to the end of its stop bit.       *)
LEMMA ReceivedStep ==
  ASSUME Ser!UartAssumption, SlowLine, SerInv, LineInv, Ser!Next, uart_tx.state # "IDLE",
         RxHandsOver \/ RxIsDone, sent = {}
  PROVE  LineInv' /\ [Ser!Line!Next]_(Ser!Line!vars)
<1> USE SerNumbers, SerFields DEF SlowLine, SerInv
<1>1. TxSends
  BY DEF LineInv, LineIsBusy
<1>2. BitsArePast
  BY DEF RxHandsOver, RxIsDone
<1>3. ~Ser!FallingEdge
  BY <1>1, <1>2, EdgeSeen DEF BitsArePast
<1>4. RxQuiet'
  <2>1. CASE RxHandsOver
    BY <1>3, <2>1, ProgramClock, HandsOverClock
  <2>2. CASE RxIsDone
    BY <1>3, <2>2, ProgramClock, QuietClock DEF RxIsDone, RxQuiet, Ser!ZeroByte
  <2> QED
    BY <2>1, <2>2
<1>5. ~uart_rx'.over /\ uart_rx.over \in BOOLEAN /\ uart_rx'.over \in BOOLEAN
  BY <1>4, SerStep DEF RxQuiet, SerTyped
<1>6. /\ regs'.tx_data = regs.tx_data /\ regs'.busy /\ regs.busy /\ ~regs'.valid
      /\ regs'.tx_en /\ regs'.rx_en /\ cpu' \in {"free", "getc"} /\ sent' = {}
  BY <1>5, SendClock
<1>7. LineInv'
  <2>1. CASE uart_tx.bit_cnt = UartBits + 1 /\ uart_tx.cycle_cnt = Baud
    <3>1. uart_tx'.state = "IDLE" /\ uart_tx'.pin = 1 /\ uart_tx.pin = 1
      BY <2>1, SendClock
    <3>2. uart_rx'.q0 = 1 /\ uart_rx'.q1 \in {0, 1}
      BY <3>1, ProgramClock, RxClock
    <3> QED
      BY <1>4, <1>6, <3>1, <3>2 DEF LineInv, LineIsFree, LineIsAsked, LineIsBusy
  <2>2. CASE ~(uart_tx.bit_cnt = UartBits + 1 /\ uart_tx.cycle_cnt = Baud)
    <3>1. /\ uart_tx'.state # "IDLE" /\ TxSends'
          /\ IF uart_tx.cycle_cnt = Baud
             THEN uart_tx'.bit_cnt = uart_tx.bit_cnt + 1 /\ uart_tx'.cycle_cnt = 0
             ELSE uart_tx'.bit_cnt = uart_tx.bit_cnt /\ uart_tx'.cycle_cnt = uart_tx.cycle_cnt + 1
      BY <2>2, SendClock
    <3>2. BitsArePast'
      BY <1>2, <2>2, <3>1 DEF BitsArePast
    <3>3. RxIsDone'
      BY <1>4, <3>2 DEF RxIsDone
    <3> QED
      BY <1>6, <3>1, <3>3 DEF LineInv, LineIsFree, LineIsAsked, LineIsBusy
  <2> QED
    BY <2>1, <2>2
<1>8. ASSUME uart_rx.over PROVE Ser!Line!EndPulse
  <2>1. UNCHANGED <<~regs.busy, sent # {}, IF sent = {} THEN Ser!ZeroByte ELSE CHOOSE b \in sent : TRUE>>
    <3>1. regs.busy \in BOOLEAN /\ regs'.busy \in BOOLEAN
      BY SerStep DEF SerTyped
    <3> QED
      BY <1>6, <3>1 DEF Ser!ZeroByte
  <2> QED
    BY <1>5, <1>8, <2>1 DEF Ser!Line!EndPulse, Ser!ZeroByte
<1>9. ASSUME ~uart_rx.over PROVE UNCHANGED Ser!Line!vars
  <2>1. regs.busy \in BOOLEAN /\ regs'.busy \in BOOLEAN
    BY SerStep DEF SerTyped
  <2> QED
    BY <1>5, <1>6, <1>9, <2>1, LineSame
<1> QED
  BY <1>7, <1>8, <1>9 DEF Ser!Line!Next

LEMMA LineStep ==
  ASSUME Ser!UartAssumption, SlowLine, SerInv, LineInv, Ser!Next
  PROVE  LineInv' /\ [Ser!Line!Next]_(Ser!Line!vars)
<1>1. CASE uart_tx.state = "IDLE"
  BY <1>1, FreeStep, AskedStep
<1>2. CASE uart_tx.state # "IDLE"
  <2>1. \/ (RxWaits \/ RxHalfBit \/ RxSamples) /\ sent = {regs.tx_data}
        \/ (RxHandsOver \/ RxIsDone) /\ sent = {}
    BY <1>2 DEF LineInv, LineIsBusy
  <2> QED
    BY <1>2, <2>1, WaitsStep, HalfBitStep, SamplesStep, LastSampleStep, ReceivedStep
<1> QED
  BY <1>1, <1>2

LEMMA LineInit == ASSUME Ser!UartAssumption, Ser!Init PROVE LineInv /\ Ser!Line!Init
<1>1. LineInv
  BY DEF Ser!Init, LineInv, LineIsFree, LineIsAsked, LineIsBusy, RxQuiet
<1>2. Ser!Line!Init
  BY DEF Ser!Init, Ser!Line!Init
<1> QED
  BY <1>1, <1>2

(* A byte that uart_putc gives away is received once, unchanged and in     *)
(* order, before the next one is accepted, for every number of bits and    *)
(* every baud that is not too fast, whatever the program does meanwhile    *)
(* (uart.v:101-327).                                                       *)
THEOREM LineInStep ==
  ASSUME SlowLine
  PROVE  MCSpec => LineSpec
<1> USE BlocksAssumption
<1>1. MCInit => SerInv /\ LineInv /\ Ser!Line!Init
  BY SerInit, LineInit DEF MCInit
<1>2. SerInv /\ LineInv /\ [MCNext]_blocksVars =>
        SerInv' /\ LineInv' /\ [Ser!Line!Next]_(Ser!Line!vars)
  <2> SUFFICES ASSUME SerInv, LineInv, [MCNext]_blocksVars
               PROVE  SerInv' /\ LineInv' /\ [Ser!Line!Next]_(Ser!Line!vars)
    OBVIOUS
  <2>1. CASE Ser!Next
    BY <2>1, SerStep, LineStep
  <2>2. CASE UNCHANGED serVars
    <3>1. /\ regs' = regs /\ uart_tx' = uart_tx /\ uart_rx' = uart_rx
          /\ cpu' = cpu /\ burst' = burst /\ sent' = sent
      BY <2>2 DEF serVars
    <3>2. SerInv'
      BY <3>1 DEF SerInv, SerTyped, SerCounts
    <3>3. /\ LevelOf(uart_tx.bit_cnt)' = LevelOf(uart_tx.bit_cnt)
          /\ LevelBefore(uart_tx.bit_cnt)' = LevelBefore(uart_tx.bit_cnt)
      BY <3>1 DEF LevelOf, LevelBefore
    <3>4. RxQuiet' = RxQuiet /\ BitsArePast' = BitsArePast
      BY <3>1 DEF RxQuiet, BitsArePast
    <3>5. (RxWaits' = RxWaits) /\ (RxHandsOver' = RxHandsOver) /\ (RxIsDone' = RxIsDone)
      BY <3>1, <3>4 DEF RxWaits, RxHandsOver, RxIsDone
    <3>6. (RxHalfBit' = RxHalfBit) /\ (RxSamples' = RxSamples)
      BY <3>1 DEF RxHalfBit, RxSamples, Sampled, Middle
    <3>7. TxSends' = TxSends
      BY <3>1, <3>3 DEF TxSends
    <3>8. LineIsBusy'
      BY <3>1, <3>5, <3>6, <3>7 DEF LineInv, LineIsBusy
    <3>9. LineInv'
      BY <3>1, <3>4, <3>8 DEF LineInv, LineIsFree, LineIsAsked
    <3>10. UNCHANGED Ser!Line!vars
      BY <3>1 DEF Ser!Line!vars
    <3> QED
      BY <3>2, <3>9, <3>10
  <2> QED
    BY <2>1, <2>2 DEF MCNext, blocksVars
<1> QED
  BY <1>1, <1>2, PTL DEF MCSpec, LineSpec, Ser!LineSpec, Ser!Line!Spec

-----------------------------------------------------------------------------
(* What a program or the debugger does to a register takes effect, though  *)
(* the other side of it moves in the same clock: the periods of the timer  *)
(* (timer.v:75-94), the calls of the SPI driver (spi.v:72-229) and what    *)
(* the debugger and the core put into memory and registers                 *)
(* (jtag_dm.v:158-300, rib.v:119-133, regs.v:53-62).                       *)
THEOREM AccessesWork ==
  ASSUME UnhurriedTimer, PatientDriver
  PROVE  MCSpec => []AccessesTakeEffect
<1>1. Tmr!TinyTimerAssumption /\ Spi!TinySpiAssumption /\ Bus!DebugBusAssumption
  BY BlocksAssumption
<1>2. MCSpec => []TmrInv /\ []SpiInv /\ []BusInv
  BY <1>1, TmrAlways, SpiAlways, BusAlways
<1>3. TmrInv /\ SpiInv /\ BusInv => AccessesTakeEffect
  BY <1>1, TmrPromises, SpiPromises, BusHolds DEF AccessesTakeEffect
<1> QED
  BY <1>2, <1>3, PTL

(* The registers of every block keep their types.                          *)
THEOREM BlocksTypes ==
  ASSUME UnhurriedTimer, PatientDriver
  PROVE  MCSpec => []TypesOK
<1>1. /\ Tmr!TinyTimerAssumption /\ Spi!TinySpiAssumption /\ Bus!DebugBusAssumption
      /\ Ser!UartAssumption
  BY BlocksAssumption
<1>2. MCSpec => []TmrInv /\ []SpiInv /\ []BusInv /\ []SerInv
  BY <1>1, TmrAlways, SpiAlways, BusAlways, SerAlways
<1>3. MCSpec => []FwP!TypeOK
  <2>1. FwP!FwUpdateAssumption
    BY BlocksAssumption DEF Fw!FwUpdateAssumption, FwP!FwUpdateAssumption
  <2> QED
    BY <2>1, LoaderRuns, FwP!FwTypes
<1>4. MCSpec => []JtagP!TypeOK
  <2>1. JtagP!JtagDmiAssumption /\ JtagP!LongScans
    BY DEF JtagP!JtagDmiAssumption, JtagP!LongScans
  <2> QED
    BY <2>1, ZeroAssumption, TransportRuns, JtagP!TransportTypes
<1>5. MCSpec => []TypeOK
  <2>1. MCInit => Init
    BY DEF MCInit
  <2>2. [MCNext]_blocksVars => [Next]_vars
    BY DEF MCNext, blocksVars, vars
  <2>3. MCSpec => Spec
    BY <2>1, <2>2, PTL DEF MCSpec, Spec
  <2> QED
    BY <2>3, TypeCorrect
<1>6. FwP!TypeOK => Fw!TypeOK
  BY SameData DEF FwP!TypeOK, Fw!TypeOK
<1>7. JtagP!TypeOK => Jtag!TypeOK
  <2>1. /\ Jtag!TapStates = JtagP!TapStates /\ Jtag!IrRegs = JtagP!IrRegs
        /\ Jtag!DtmcsWords = JtagP!DtmcsWords
    BY DEF Jtag!TapStates, JtagP!TapStates, Jtag!IrRegs, JtagP!IrRegs,
           Jtag!DtmcsWords, JtagP!DtmcsWords
  <2>2. Jtag!TxRegs = JtagP!TxRegs /\ Jtag!RxRegs = JtagP!RxRegs
    BY DEF Jtag!TxRegs, JtagP!TxRegs, Jtag!TxStates, JtagP!TxStates,
           Jtag!RxRegs, JtagP!RxRegs, Jtag!RxStates, JtagP!RxStates
  <2> QED
    BY <2>1, <2>2 DEF JtagP!TypeOK, Jtag!TypeOK
<1>8. TypeOK /\ FwP!TypeOK /\ JtagP!TypeOK /\ TmrInv /\ SpiInv /\ BusInv /\ SerInv => TypesOK
  BY <1>1, <1>6, <1>7, TmrPromises, SpiPromises, BusHolds, SerPromises DEF TypesOK
<1> QED
  BY <1>2, <1>3, <1>4, <1>5, <1>8, PTL
=============================================================================
