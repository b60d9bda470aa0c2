------------------------------ MODULE TinyCore ------------------------------
(***************************************************************************)
(* The three-stage pipeline of tiny-risc-v (rtl/core) with its interrupt   *)
(* controller, one action per clock.  A program is a function from word    *)
(* addresses to instructions; what an instruction computes is left out,    *)
(* what it does to the flow of control, to the trap CSRs, to the divider   *)
(* and to the bus is kept.  The wires of the source are operators on the   *)
(* state, its registers are the variables, and each always-block is the    *)
(* definition of one next value.                                           *)
(*                                                                         *)
(* The variable arch is a history variable: an instruction-set machine     *)
(* that is moved by what the pipeline really executes.  The properties     *)
(* say that the two never disagree.                                        *)
(***************************************************************************)
EXTENDS Integers, DividerCtl

CONSTANTS
  NWords,      \* size of the address space in words; addresses wrap
  Mtvec,       \* the trap vector that software stored in mtvec
  Programs,    \* the programs to be run: functions from addresses to insts
  CalcCycles,  \* clocks that the divider spends in CALC (32 in the source)
  IntInputs,   \* values the interrupt request line may take
  DmOps,       \* debug operations that the debug module may deliver
  ResetAtRest  \* the debugger writes dpc only after the hart has come to rest

Addrs == 0 .. NWords - 1
Succ(a) == (a + 1) % NWords
Pred(a) == (a - 1) % NWords

JumpOps  == {"jmp", "br"}                  \* jal, jalr, fence; branches
CsrOps   == {"csrs", "csrc", "epc"}        \* set/clear mstatus.MIE, step mepc
SyncOps  == {"ecall", "ebreak"}
PlainOps == {"alu", "mem"}                 \* anything else; loads and stores
Ops      == JumpOps \cup CsrOps \cup SyncOps \cup PlainOps \cup {"div", "mret"}

Insts == [op : Ops, to : Addrs]
Nop   == [op |-> "nop", to |-> 0]          \* INST_NOP: the pipeline bubble

ASSUME NWordsAssumption     == NWords \in Nat \ {0}
ASSUME MtvecAssumption      == Mtvec \in Addrs
ASSUME ProgramsAssumption   == Programs \subseteq [Addrs -> Insts]
ASSUME CalcCyclesAssumption == CalcCycles \in Nat \ {0}
ASSUME IntInputsAssumption  == IntInputs \subseteq BOOLEAN
ASSUME DmOpsAssumption      == DmOps \subseteq {"halt", "resume", "reset", "access", "dmstatus"}
ASSUME ResetAtRestAssumption == ResetAtRest \in BOOLEAN

(* The trap CSRs out of reset (csr_reg.v:77-83).                            *)
ResetCsr == [mie |-> FALSE, mpie |-> FALSE, mepc |-> 0, mcause |-> "none"]

VARIABLES
  rom,     \* the program
  pc,      \* pc_reg: address being fetched
  if_id,   \* if_id: instruction in ID, its address, its interrupt flag
  id_ex,   \* id_ex: instruction in EX, its address and operands
  clint,   \* clint: CSR write sequencer and its registered outputs
  csr,     \* csr_reg: mstatus.MIE, mstatus.MPIE, mepc, mcause
  div,     \* div: state, count, busy_o, ready_o
  dm,      \* what the core sees of jtag_dm: phase of an access, halt, reset
  arch     \* history: the instruction-set state

vars == <<rom, pc, if_id, id_ex, clint, csr, div, dm, arch>>

-----------------------------------------------------------------------------
(* Wires of ex, rib, clint and ctrl.                                       *)

InEx(ops) == id_ex.inst.op \in ops

(* ex.v:149 - int_assert takes the start signal away from the divider.     *)
DivStart == ~clint.int_assert /\ (InEx({"div"}) \/ div.busy)

(* ex.v:160 - a load or store in EX asks for the bus.                      *)
MemReq == InEx({"mem"}) /\ ~clint.int_assert

(* ex.v:163 - a division jumps to its own successor to empty the stages    *)
(* before it (ex.v:209-213).                                               *)
JumpFlag == \/ InEx({"jmp", "div"})
            \/ InEx({"br"}) /\ id_ex.flag
            \/ clint.int_assert

JumpAddr == IF clint.int_assert THEN clint.int_addr
            ELSE IF InEx({"div"}) THEN Succ(id_ex.addr)
            ELSE id_ex.inst.to

HoldEx == InEx({"div"}) \/ div.busy

(* ex.v:224-243 - the quotient is written once the divider is ready.       *)
DivWrites == /\ ~clint.int_assert
             /\ ~InEx({"div"}) /\ ~div.busy /\ div.ready

(* jtag_dm.v:310 - the debug module owns the bus in the clock in which a   *)
(* request arrives (unless it reads dmstatus) and in the next one.         *)
DmReq == dm.phase \in {"rx", "resp"}

(* rib.v:119-133 - the fetch gets the bus, and the pipeline is not held,   *)
(* only if nobody else asks.                                               *)
HoldRib == MemReq \/ DmReq

(* A bug: a word is fetched while a debug access has the bus.              *)
Fetched_Unmasked == rom[pc]

Fetched == IF HoldRib THEN Nop ELSE rom[pc]

(* A bug: interrupts are taken although mstatus masks them.                *)
IntState_IgnoresMie ==
  IF if_id.inst.op \in SyncOps THEN IF DivStart THEN "IDLE" ELSE "SYNC"
  ELSE IF if_id.int_flag THEN "ASYNC"
  ELSE IF if_id.inst.op = "mret" THEN "MRET"
  ELSE "IDLE"

(* A bug: an ecall behind a division does not wait for it.                 *)
IntState_IgnoresDiv ==
  IF if_id.inst.op \in SyncOps THEN "SYNC"
  ELSE IF if_id.int_flag /\ csr.mie THEN "ASYNC"
  ELSE IF if_id.inst.op = "mret" THEN "MRET"
  ELSE "IDLE"

(* clint.v:89-108 - what the instruction in ID asks for.                   *)
IntState ==
  IF if_id.inst.op \in SyncOps THEN IF DivStart THEN "IDLE" ELSE "SYNC"
  ELSE IF if_id.int_flag /\ csr.mie THEN "ASYNC"
  ELSE IF if_id.inst.op = "mret" THEN "MRET"
  ELSE "IDLE"

(* A bug: clint holds the pipeline one clock late.                         *)
HoldClint_Late == clint.csr_state # "IDLE"

HoldClint == IntState # "IDLE" \/ clint.csr_state # "IDLE"

(* A bug: a halt does not hold the pipeline.                               *)
HoldFlag_IgnoresHalt == IF JumpFlag \/ HoldEx \/ HoldClint THEN "Id"
                        ELSE IF HoldRib THEN "Pc"
                        ELSE "None"

(* ctrl.v:48-66.                                                           *)
HoldFlag == IF JumpFlag \/ HoldEx \/ HoldClint THEN "Id"
            ELSE IF HoldRib THEN "Pc"
            ELSE IF dm.halt THEN "Id"
            ELSE "None"

(* ex.v:167 with the write data of ex.v:825-849.                           *)
CsrWe == InEx(CsrOps) /\ ~clint.int_assert

CsrWritten ==
  CASE InEx({"csrs"}) -> [csr EXCEPT !.mie = TRUE,  !.mpie = id_ex.csr.mpie]
    [] InEx({"csrc"}) -> [csr EXCEPT !.mie = FALSE, !.mpie = id_ex.csr.mpie]
    [] OTHER          -> [csr EXCEPT !.mepc = Succ(id_ex.csr.mepc)]

(* A bug: ID reads the CSR that EX is writing.                             *)
CsrRead_NotForwarded == csr

(* csr_reg.v:141-175 - ID reads a CSR with the write of EX forwarded.      *)
CsrRead == IF CsrWe THEN CsrWritten ELSE csr

-----------------------------------------------------------------------------
(* The next value of each register.                                        *)

(* pc_reg.v:35-49.                                                         *)
PcReg == pc' = IF dm.reset THEN 0
               ELSE IF JumpFlag THEN JumpAddr
               ELSE IF HoldFlag # "None" THEN pc
               ELSE Succ(pc)

(* A bug: a hold of ID keeps the word in it.                               *)
IfId_NotFlushed(int_i) ==
  if_id' = IF HoldFlag = "Id"
           THEN if_id
           ELSE [inst |-> Fetched, addr |-> pc, int_flag |-> int_i]

(* if_id.v:38-50 - a hold of ID flushes the stage and its interrupt flag.  *)
IfId(int_i) ==
  if_id' = IF HoldFlag = "Id"
           THEN [inst |-> Nop, addr |-> 0, int_flag |-> FALSE]
           ELSE [inst |-> Fetched, addr |-> pc, int_flag |-> int_i]

(* id_ex.v:57-109.  The operands decide whether a branch is taken and      *)
(* whether a divisor is zero: flag is one of the two, for those only.      *)
EmptyEx == [inst |-> Nop, addr |-> 0, flag |-> FALSE, csr |-> ResetCsr]

IdEx ==
  \E flag \in BOOLEAN :
    /\ flag => if_id.inst.op \in {"br", "div"}
    /\ id_ex' = IF HoldFlag = "Id" THEN EmptyEx
                ELSE [inst |-> if_id.inst, addr |-> if_id.addr, flag |-> flag,
                      csr |-> IF if_id.inst.op \in CsrOps THEN CsrRead ELSE ResetCsr]

(* A bug: a trap does not write mstatus.                                   *)
ClintState_SkipsMstatus ==
  CASE clint.csr_state = "IDLE" ->
         (CASE IntState \in {"SYNC", "ASYNC"} -> "MEPC"
            [] IntState = "MRET" -> "MSTATUS_MRET"
            [] OTHER -> "IDLE")
    [] clint.csr_state = "MEPC" -> "MCAUSE"
    [] OTHER -> "IDLE"

(* clint.v:110-174.  A trap writes mepc, mstatus and mcause in turn, a     *)
(* return writes mstatus only; inst_addr is where the trap will return to. *)
ClintState ==
  CASE clint.csr_state = "IDLE" ->
         (CASE IntState \in {"SYNC", "ASYNC"} -> "MEPC"
            [] IntState = "MRET" -> "MSTATUS_MRET"
            [] OTHER -> "IDLE")
    [] clint.csr_state = "MEPC" -> "MSTATUS"
    [] clint.csr_state = "MSTATUS" -> "MCAUSE"
    [] OTHER -> "IDLE"

(* A bug: the trap does not look at a jump in EX.                          *)
ReturnAddr_IgnoresJump ==
  IF IntState = "ASYNC" /\ DivStart THEN Pred(if_id.addr) ELSE if_id.addr

ReturnAddr ==
  IF IntState = "SYNC"
  THEN IF JumpFlag THEN Pred(JumpAddr) ELSE if_id.addr
  ELSE IF JumpFlag THEN JumpAddr
       ELSE IF DivStart THEN Pred(if_id.addr) ELSE if_id.addr

Accepts == clint.csr_state = "IDLE" /\ IntState \in {"SYNC", "ASYNC"}

Clint ==
  clint' =
    [csr_state  |-> ClintState,
     inst_addr  |-> IF Accepts THEN ReturnAddr ELSE clint.inst_addr,
     cause      |-> IF ~Accepts THEN clint.cause
                    ELSE IF IntState = "SYNC" THEN if_id.inst.op ELSE "timer",
     we         |-> clint.csr_state # "IDLE",
     waddr      |-> clint.csr_state,
     \* clint.v:195-207: the mstatus word is computed one clock before it
     \* is written.
     mie        |-> clint.csr_state = "MSTATUS_MRET" /\ csr.mpie,
     int_assert |-> clint.csr_state \in {"MCAUSE", "MSTATUS_MRET"},
     int_addr   |-> CASE clint.csr_state = "MCAUSE" -> Mtvec
                      [] clint.csr_state = "MSTATUS_MRET" -> csr.mepc
                      [] OTHER -> 0]

(* csr_reg.v:74-137 - a write of EX is served first and the write of clint *)
(* in the same clock is dropped.  clint.data_o is inst_addr, cause or mie. *)
CsrReg ==
  csr' = IF CsrWe THEN CsrWritten
         ELSE IF ~clint.we THEN csr
         ELSE CASE clint.waddr = "MEPC"   -> [csr EXCEPT !.mepc = clint.inst_addr]
                [] clint.waddr = "MCAUSE" -> [csr EXCEPT !.mcause = clint.cause]
                [] OTHER                  -> [csr EXCEPT !.mie = clint.mie]

(* div.v:71-210.  Losing the start signal aborts the division.             *)
Div == div' = DivCtlStep(div, DivStart, id_ex.flag, CalcCycles)

(* jtag_dm.v:158-299.  A request is decoded in phase rx; what it sets is   *)
(* seen by the core in phase resp.  A reset request also resumes           *)
(* (jtag_dm.v:253-256) and lasts one clock.  The arrival of a read of      *)
(* dmstatus is invisible to the core, its response is not.                 *)
(*                                                                         *)
(* A debugger looks whether the hart is halted before it writes dpc, which *)
(* takes more clocks (a scan has 40) than the stages need to drain.        *)
Drained == if_id.inst = Nop /\ id_ex.inst = Nop /\ ~div.busy /\ ~div.ready

TrapIdle == clint.csr_state = "IDLE" /\ ~clint.we

AtRest == dm.halt /\ Drained /\ TrapIdle

DmQuiet == dm.phase = "quiet" /\ UNCHANGED dm

DmArrives == /\ dm.phase = "quiet"
             /\ DmOps \ {"dmstatus"} # {}
             /\ dm' = [dm EXCEPT !.phase = "rx"]

DmReadsStatus == /\ dm.phase = "quiet"
                 /\ "dmstatus" \in DmOps
                 /\ dm' = [dm EXCEPT !.phase = "resp"]

DmDecodes(op) ==
  /\ dm.phase = "rx"
  /\ op = "reset" /\ ResetAtRest => AtRest
  /\ dm' = [phase |-> "resp",
            halt  |-> op = "halt" \/ (dm.halt /\ op = "access"),
            reset |-> op = "reset"]

DmResponds == /\ dm.phase = "resp"
              /\ dm' = [dm EXCEPT !.phase = "quiet", !.reset = FALSE]

Dm == \/ DmQuiet
      \/ DmArrives
      \/ DmReadsStatus
      \/ \E op \in DmOps \ {"dmstatus"} : DmDecodes(op)
      \/ DmResponds

-----------------------------------------------------------------------------
(* The instruction-set machine.  An instruction is executed in the clock   *)
(* in which EX lets its effect happen; a trap or a return is executed in   *)
(* the clock in which the pipeline jumps to its address.                   *)

Executes == /\ ~clint.int_assert
            /\ InEx(JumpOps \cup CsrOps \cup PlainOps) \/ DivWrites

ArchNext(inst) ==
  IF inst.op = "jmp" \/ (inst.op = "br" /\ id_ex.flag) THEN inst.to
  ELSE Succ(arch.next)

Arch ==
  /\ LET inst == rom[arch.next] IN
     arch' = [next |-> IF dm.reset THEN 0
                       ELSE IF clint.int_assert
                            THEN IF arch.taken = "MRET" THEN arch.mepc ELSE Mtvec
                       ELSE IF Executes THEN ArchNext(inst)
                       ELSE arch.next,
              mie  |-> IF clint.int_assert
                       THEN arch.taken = "MRET" /\ csr.mpie
                       ELSE IF Executes /\ inst.op \in {"csrs", "csrc"}
                            THEN inst.op = "csrs"
                       ELSE arch.mie,
              mepc |-> IF clint.int_assert /\ arch.taken # "MRET" THEN arch.next
                       ELSE IF Executes /\ inst.op = "epc" THEN Succ(arch.mepc)
                       ELSE arch.mepc,
              \* why the sequencer was started
              taken |-> IF clint.csr_state = "IDLE" /\ IntState # "IDLE" THEN IntState
                        ELSE IF clint.int_assert THEN "IDLE"
                        ELSE arch.taken]

-----------------------------------------------------------------------------
(* Reset, and software has stored the trap vector and the initial mstatus  *)
(* (csr_reg.v:77-83, then start-up code).                                  *)
Init ==
  /\ rom \in Programs
  /\ pc = 0
  /\ if_id = [inst |-> Nop, addr |-> 0, int_flag |-> FALSE]
  /\ id_ex = EmptyEx
  /\ clint = [csr_state |-> "IDLE", inst_addr |-> 0, cause |-> "none",
              we |-> FALSE, waddr |-> "IDLE", mie |-> FALSE,
              int_assert |-> FALSE, int_addr |-> 0]
  /\ csr \in {[ResetCsr EXCEPT !.mie = e, !.mpie = TRUE] : e \in BOOLEAN}
  /\ div = DivIdle
  /\ dm = [phase |-> "quiet", halt |-> FALSE, reset |-> FALSE]
  /\ arch = [next |-> 0, mie |-> csr.mie, mepc |-> csr.mepc, taken |-> "IDLE"]

(* One clock of the core.                                                  *)
Clock(int_i) ==
  /\ UNCHANGED rom
  /\ PcReg
  /\ IfId(int_i)
  /\ IdEx
  /\ Clint
  /\ CsrReg
  /\ Div
  /\ Dm
  /\ Arch

Next == \E int_i \in IntInputs : Clock(int_i)

Spec == Init /\ [][Next]_vars

(* The clock runs.                                                         *)
FairSpec == Spec /\ WF_vars(Next)
-----------------------------------------------------------------------------
(* Types, and which stage may hold what: a trap or a return never leaves   *)
(* ID as an instruction, and the divider counts only in CALC.              *)
TypeOK ==
  /\ rom \in [Addrs -> Insts]
  /\ pc \in Addrs
  /\ if_id.inst \in Insts \cup {Nop} /\ if_id.addr \in Addrs
  /\ id_ex.inst \in {i \in Insts : i.op \notin SyncOps \cup {"mret"}} \cup {Nop}
  /\ id_ex.addr \in Addrs
  /\ clint.csr_state \in {"IDLE", "MEPC", "MSTATUS", "MCAUSE", "MSTATUS_MRET"}
  /\ clint.inst_addr \in Addrs /\ clint.int_addr \in Addrs
  /\ csr.mepc \in Addrs
  /\ div.state \in {"IDLE", "START", "CALC", "END"}
  /\ div.busy <=> div.state # "IDLE"
  /\ div.count \in 0 .. CalcCycles
  /\ div.count > 0 <=> div.state = "CALC"
  /\ arch.next \in Addrs /\ arch.mepc \in Addrs

(* The pipeline executes the program: whatever reaches EX is the next      *)
(* instruction of the program, fetched from its own address, and a         *)
(* quotient is written exactly when the next instruction is the division.  *)
(* Nothing is lost, repeated or reordered by jumps, bus holds, divisions,  *)
(* traps, returns and debug halts (ctrl.v:48-66, pc_reg.v:35-49,           *)
(* if_id.v:38-50, id_ex.v:57-109).                                         *)
InOrder ==
  ~clint.int_assert =>
    /\ id_ex.inst.op # "nop" => /\ id_ex.addr = arch.next
                                /\ id_ex.inst = rom[arch.next]
    /\ DivWrites => rom[arch.next].op = "div"

(* Traps are precise: an interrupt returns to the first instruction that   *)
(* was not executed, a synchronous trap is taken at an ecall or ebreak     *)
(* that the program has come to and reports its cause, and a return is     *)
(* taken at an mret and goes to mepc (clint.v:110-240).                    *)
PreciseTraps ==
  clint.int_assert =>
    \/ /\ arch.taken = "ASYNC"
       /\ csr.mepc = arch.next /\ clint.int_addr = Mtvec /\ clint.cause = "timer"
    \/ /\ arch.taken = "SYNC"
       /\ rom[arch.next].op \in SyncOps
       /\ csr.mepc = arch.next /\ clint.int_addr = Mtvec
       /\ clint.cause = rom[arch.next].op
    \/ /\ arch.taken = "MRET"
       /\ rom[arch.next].op = "mret"
       /\ clint.int_addr = arch.mepc

(* Between traps the CSRs are those of the instruction-set machine: no     *)
(* write of EX or of clint is lost, late or computed from an old value     *)
(* (csr_reg.v:84-136, clint.v:176-215).                                    *)
CsrsFollow == TrapIdle => csr.mie = arch.mie /\ csr.mepc = arch.mepc

(* A CSR instruction in EX works on the current value of the CSR, although *)
(* it read it one clock earlier in ID (csr_reg.v:141-175).                 *)
CsrFresh == CsrWe => id_ex.csr = csr

(* csr_reg drops the write of clint when EX writes in the same clock; that *)
(* clock never comes (csr_reg.v:85-111).                                   *)
NoCsrWriteDropped == ~(CsrWe /\ clint.we)

(* The CSRs are never read stale nor written twice in a clock: both of     *)
(* these at once (csr_reg.v:84-175).                                       *)
CsrsCoherent == CsrFresh /\ NoCsrWriteDropped

(* An interrupt is taken only if the program has interrupts enabled at     *)
(* that point.                                                             *)
InterruptsOnlyIfEnabled ==
  clint.int_assert /\ arch.taken = "ASYNC" => arch.mie

(* A division that the divider has accepted runs to its result; only a     *)
(* lost start signal could abort it (div.v:152-158, 175-181, 201-206).     *)
DivNotAborted == [][div.busy => div'.busy \/ div'.ready]_vars

(* Once the stages are empty a halted hart stays empty, although the bus   *)
(* holds of debug accesses outrank the halt and let the pipeline move      *)
(* (ctrl.v:57-62).                                                         *)
HaltedStaysDrained == [][dm.halt /\ Drained => Drained']_vars

(* A halt takes effect: a hart that is halted for good comes to rest, even *)
(* if an interrupt line stays high.                                        *)
HaltStops == <>[]dm.halt => <>[](~Executes /\ ~clint.int_assert)

(* The core never gets stuck: unless the debugger holds it, it keeps       *)
(* executing instructions or taking traps, whatever debug accesses, loads, *)
(* divisions and interrupts do to the bus and the pipeline.                *)
Progress == <>[](~dm.halt) => []<>(Executes \/ clint.int_assert)

-----------------------------------------------------------------------------
(* The programs and surroundings for which the core keeps the order of the *)
(* instruction set.  What is excluded are limits of the core: an ecall,    *)
(* ebreak or mret right behind a jump is taken although the jump skips it  *)
(* (run core_shadow); an mret right behind a division aborts it, and so    *)
(* does an interrupt (run core_div_int); a debugger that moves pc while an *)
(* interrupt comes in moves it without mepc.                               *)

(* No ecall, ebreak or mret stands right behind a jump.                    *)
ShadowFree(p) ==
  \A a \in Addrs : p[a].op \in JumpOps => p[Succ(a)].op \notin SyncOps \cup {"mret"}

(* No mret stands right behind a division.                                 *)
ReturnFree(p) == \A a \in Addrs : p[a].op = "div" => p[Succ(a)].op # "mret"

(* A program without divisions.                                            *)
DivFree(p) == \A a \in Addrs : p[a].op # "div"

(* A program that leaves it to traps to mask interrupts.                   *)
ClearFree(p) == \A a \in Addrs : p[a].op # "csrc"

CoreInit == Init /\ ShadowFree(rom) /\ ReturnFree(rom)

(* Interrupts meet programs without divisions.  The debugger moves pc at   *)
(* rest, and no interrupt comes in around that clock.                      *)
CoreNext ==
  \E int_i \in IntInputs :
    /\ int_i => DivFree(rom) /\ ~dm.reset
    /\ Clock(int_i)
    /\ dm'.reset => AtRest /\ IntState = "IDLE" /\ ~int_i

CoreSpec == CoreInit /\ [][CoreNext]_vars

-----------------------------------------------------------------------------
(* The core is a machine that executes one instruction after another: what *)
(* pipeline, divider, bus, clint and debugger do together is seen by the   *)
(* program as steps of TinyIsa, with an interrupt only where the program   *)
(* has them enabled (tinyriscv.v:142-369).                                 *)
Machine == INSTANCE TinyIsa WITH
         next <- arch.next, mie <- arch.mie, mepc <- arch.mepc,
         mpie <- csr.mpie, mcause <- csr.mcause

ImplementsIsa == Machine!Spec
=============================================================================
