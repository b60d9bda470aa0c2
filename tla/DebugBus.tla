------------------------------- MODULE DebugBus -------------------------------
(***************************************************************************)
(* What a debugger's requests do in tiny-risc-v: the registers of the      *)
(* debug module (rtl/debug/jtag_dm.v), the arbitration of the bus          *)
(* (rtl/core/rib.v) and of the register file (rtl/core/regs.v), with a     *)
(* core that accesses both.  One step is one clock.  The transport is      *)
(* module JtagDmi, the pipeline module TinyCore; the firmware loader,      *)
(* which outranks both masters, is off.                                    *)
(***************************************************************************)
EXTENDS Naturals

CONSTANTS
  Words,     \* words of memory; addresses wrap
  Vals,      \* values of a word or a register, 0 among them
  Regs,      \* numbers of registers, 0 among them
  DpcReg,    \* what the number of dpc is as one of a register (17 in the source)
  ScanGap,   \* fewest clocks between two requests
  Drain,     \* clocks that a hart may still execute after the halt request
  HaltFirst, \* the debugger halts the hart before it accesses it
  FlagSets,  \* what the debugger writes to sbcs
  Uses       \* what it is used for: "memory", "registers"

DebugBusAssumption ==
  /\ {Words, ScanGap} \subseteq Nat \ {0} /\ Drain \in 1 .. ScanGap - 1
  /\ 0 \in Vals /\ {0, DpcReg} \subseteq Regs /\ HaltFirst \in BOOLEAN
  /\ FlagSets \subseteq [auto : BOOLEAN, onaddr : BOOLEAN, ondata : BOOLEAN]
  /\ Uses \subseteq {"memory", "registers"}

VARIABLES
  dm,     \* the registers of jtag_dm
  mem,    \* the memories behind the bus
  regs,   \* regs.v
  hart,   \* clocks that the core will still execute once it is halted
  dbg,    \* the debugger: clocks since its request, and where it is in a transfer
  view,   \* history: memory and registers as everyone was promised
  answer  \* history: what the request before should be answered, if it reads

vars == <<dm, mem, regs, hart, dbg, view, answer>>

Addrs == 0 .. Words - 1
None == [op |-> "none"]
NoFlags == [auto |-> FALSE, onaddr |-> FALSE, ondata |-> FALSE]

Control == [op : {"halt", "resume", "inactive", "dmstatus"}]
Requests ==
  [memory |-> Control \cup [op : {"sbread"}] \cup [op : {"sbcs"}, flags : FlagSets]
              \cup [op : {"sbaddress"}, addr : Addrs] \cup [op : {"sbwrite"}, data : Vals],
   registers |-> Control \cup [op : {"dpc", "data0read"}] \cup [op : {"data0write"}, data : Vals]
                 \cup [op : {"regread", "regwrite"}, reg : Regs]]

(* What EX does in a clock.                                                *)
Idles == [mem |-> "none", reg |-> FALSE]
CoreSteps ==
  [memory |-> {Idles, [mem |-> "load", reg |-> FALSE]}
              \cup [mem : {"store"}, reg : {FALSE}, addr : Addrs, data : Vals],
   registers |-> {Idles} \cup [mem : {"none"}, reg : {TRUE}, to : Regs, data : Vals]]

Put(f, a, x) == [f EXCEPT ![a] = x]
PutReg(f, r, x) == IF r = 0 THEN f ELSE Put(f, r, x)

-----------------------------------------------------------------------------
(* rib.v:114-133 and regs.v:53-62 - EX before the debugger.                *)
op_req(rx) == rx.op \notin {"none", "dmstatus"} \/ dm.need_resp
Granted(rx, ex) == ex.mem = "none" /\ op_req(rx)
ReadData(rx, ex) == IF Granted(rx, ex) THEN mem[dm.mem_addr] ELSE 0
ReadReg == IF dm.reg_addr = 0 THEN 0 ELSE regs[dm.reg_addr]

Mem(rx, ex) ==
  IF ex.mem = "store" THEN Put(mem, ex.addr, ex.data)
  ELSE IF Granted(rx, ex) /\ dm.mem_we THEN Put(mem, dm.mem_addr, dm.mem_wdata)
  ELSE mem

RegFile(ex) ==
  IF ex.reg /\ ex.to # 0 THEN Put(regs, ex.to, ex.data)
  ELSE IF dm.reg_we THEN PutReg(regs, dm.reg_addr, dm.reg_wdata)
  ELSE regs

(* jtag_dm.v:158-300; of dmstatus, the bit allhalted.                      *)
Next4 == (dm.sbaddress + 1) % Words
(* mutant of Advance: looks at sbreadondata instead of sbautoincrement.     *)
Advance_ReadOnData(d) == IF dm.sbcs.ondata THEN [d EXCEPT !.sbaddress = Next4] ELSE d
Advance(d) == IF dm.sbcs.auto THEN [d EXCEPT !.sbaddress = Next4] ELSE d

Decode(rx, ex) ==
  LET d == [dm EXCEPT !.need_resp = TRUE, !.read_data = 0]
  IN
  CASE rx.op = "none" ->
         [dm EXCEPT !.need_resp = FALSE, !.mem_we = FALSE, !.reg_we = FALSE, !.reset = FALSE]
    [] rx.op = "halt" -> [d EXCEPT !.halt = TRUE]
    [] rx.op = "resume" -> [d EXCEPT !.halt = FALSE]
    [] rx.op = "inactive" -> [d EXCEPT !.halt = FALSE, !.reset = FALSE, !.sbcs = NoFlags]
    [] rx.op = "dpc" -> [d EXCEPT !.halt = FALSE, !.reset = TRUE, !.reg_addr = DpcReg]
    [] rx.op = "dmstatus" -> [d EXCEPT !.read_data = IF dm.halt THEN 1 ELSE 0]
    [] rx.op = "sbcs" -> [d EXCEPT !.sbcs = rx.flags]
    [] rx.op = "sbaddress" ->
         [d EXCEPT !.sbaddress = rx.addr, !.mem_addr = IF dm.sbcs.onaddr THEN rx.addr ELSE @]
    [] rx.op = "sbread" ->
         [Advance(d) EXCEPT !.read_data = ReadData(rx, ex),
                            !.mem_addr = IF dm.sbcs.ondata THEN Next4 ELSE @]
    [] rx.op = "sbwrite" ->
         [Advance(d) EXCEPT !.mem_addr = dm.sbaddress, !.mem_wdata = rx.data, !.mem_we = TRUE]
    [] rx.op = "data0write" -> [d EXCEPT !.data0 = rx.data]
    [] rx.op = "data0read" ->
         [d EXCEPT !.read_data = IF dm.is_read_reg THEN ReadReg ELSE dm.data0, !.is_read_reg = FALSE]
    [] rx.op = "regread" -> [d EXCEPT !.reg_addr = rx.reg, !.is_read_reg = TRUE]
    [] rx.op = "regwrite" ->
         [d EXCEPT !.reg_addr = rx.reg, !.reg_we = TRUE, !.reg_wdata = dm.data0]

-----------------------------------------------------------------------------
(* The debugger, as OpenOCD uses the module: a transfer of words begins    *)
(* with the address and goes one way; before the last word of a block that *)
(* is read, reading on may be switched off; a register that was asked for  *)
(* is read before data0 is used for something else.                        *)
Accesses == {"sbread", "sbwrite", "regwrite", "regread", "data0read"}

Allowed(rx) ==
  /\ HaltFirst /\ rx.op \in Accesses => dm.halt
  /\ rx.op = "sbread" => \/ dbg.block = "new" /\ dm.sbcs.onaddr
                         \/ dbg.block \in {"read", "last"}
  /\ rx.op = "sbwrite" => dbg.block \in {"new", "write"}
  /\ rx.op \in {"data0write", "dpc", "regread", "regwrite"} => ~dbg.asked
  /\ rx.op = "resume" => dm.halt

Block(rx) ==
  CASE rx.op = "sbaddress" -> "new"
    [] rx.op = "sbread" -> IF dbg.block = "last" \/ dm.sbcs.ondata # dm.sbcs.auto
                           THEN "none" ELSE "read"
    [] rx.op = "sbwrite" -> "write"
    [] rx.op = "sbcs" /\ dbg.block = "read" -> "last"
    [] rx.op \in {"sbcs", "inactive"} /\ dbg.block # "read" -> "none"
    [] rx.op = "inactive" /\ dbg.block = "read" -> "none"
    [] OTHER -> dbg.block

Debugger(rx) ==
  /\ rx = None \/ (dbg.gap = 0 /\ Allowed(rx))
  /\ dbg' = [gap |-> IF rx # None THEN ScanGap ELSE IF dbg.gap = 0 THEN 0 ELSE dbg.gap - 1,
             block |-> Block(rx),
             cursor |-> IF rx.op = "sbaddress" THEN rx.addr
                        ELSE IF rx.op \in {"sbread", "sbwrite"} /\ dm.sbcs.auto
                             THEN (dbg.cursor + 1) % Words ELSE dbg.cursor,
             asked |-> IF rx.op \in {"regread", "data0read"} THEN rx.op = "regread" ELSE dbg.asked,
             reg |-> IF rx.op = "regread" THEN rx.reg ELSE dbg.reg,
             data0 |-> IF rx.op = "data0write" THEN rx.data ELSE dbg.data0,
             uses |-> dbg.uses]

(* The core runs until it is halted and empty (HaltStops and               *)
(* HaltedStaysDrained of TinyCore).                                        *)
Core(ex) ==
  /\ hart = 0 => ex = Idles
  /\ hart' = IF ~dm.halt THEN Drain ELSE IF hart = 0 THEN 0 ELSE hart - 1

(* What everyone was promised, and what the answer should be.              *)
Promise(rx, ex) ==
  LET m == IF ex.mem = "store" THEN Put(view.mem, ex.addr, ex.data) ELSE view.mem
      r == IF ex.reg THEN PutReg(view.regs, ex.to, ex.data) ELSE view.regs
  IN view' = [mem  |-> IF rx.op = "sbwrite" THEN Put(m, dbg.cursor, rx.data) ELSE m,
              regs |-> IF rx.op = "regwrite" THEN PutReg(r, rx.reg, dbg.data0) ELSE r]

Answer(rx) ==
  answer' = CASE rx.op = "sbread" -> view.mem[dbg.cursor]
              [] rx.op = "data0read" /\ dbg.asked -> view.regs[dbg.reg]
              [] rx.op = "data0read" /\ ~dbg.asked -> dbg.data0
              [] rx.op = "dmstatus" -> IF hart = 0 THEN 1 ELSE 0
              [] OTHER -> 0

Clock(rx, ex) ==
  /\ Debugger(rx) /\ Core(ex)
  /\ dm' = Decode(rx, ex) /\ mem' = Mem(rx, ex) /\ regs' = RegFile(ex)
  /\ Promise(rx, ex) /\ Answer(rx)

Init ==
  /\ dm = [halt |-> FALSE, reset |-> FALSE, need_resp |-> FALSE, read_data |-> 0,
           is_read_reg |-> FALSE, reg_we |-> FALSE, reg_addr |-> 0, reg_wdata |-> 0,
           data0 |-> 0, sbcs |-> NoFlags, sbaddress |-> 0, mem_we |-> FALSE,
           mem_addr |-> 0, mem_wdata |-> 0]
  /\ mem = [a \in Addrs |-> 0] /\ regs = [r \in Regs |-> 0]
  /\ hart = Drain
  /\ dbg \in [gap : {0}, block : {"none"}, cursor : {0}, asked : {FALSE}, reg : {0},
              data0 : {0}, uses : Uses]
  /\ view = [mem |-> mem, regs |-> regs]
  /\ answer = 0

Next == \E rx \in Requests[dbg.uses] \cup {None}, ex \in CoreSteps[dbg.uses] : Clock(rx, ex)
Spec == Init /\ [][Next]_vars

-----------------------------------------------------------------------------
TypeOK ==
  /\ mem \in [Addrs -> Vals] /\ regs \in [Regs -> Vals] /\ regs[0] = 0
  /\ dm.sbaddress \in Addrs /\ dm.mem_addr \in Addrs /\ dm.sbcs \in FlagSets \cup {NoFlags}
  /\ hart \in 0 .. Drain /\ dbg.gap \in 0 .. ScanGap

(* No access is lost: when no write of the debug module is on its way,     *)
(* memory and registers are what the stores and results of the core and    *)
(* the requests of the debugger have made of them, although a write of the *)
(* debugger is dropped when EX accesses the bus or the register file in    *)
(* its clock (rib.v:123, regs.v:57) and requests of every kind take the    *)
(* bus from the fetch.                                                     *)
NoAccessLost ==
  /\ ~dm.mem_we => mem = view.mem
  /\ ~dm.reg_we => regs = view.regs

(* An answer is the word at the address that the transfer has come to, the *)
(* register that was asked for, and allhalted only of a hart that is empty *)
(* (jtag_dm.v:187-195, 278-286).                                           *)
AnswersTrue == dm.need_resp => dm.read_data = answer
=============================================================================
