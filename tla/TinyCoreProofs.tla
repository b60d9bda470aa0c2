--------------------------- MODULE TinyCoreProofs ---------------------------
(***************************************************************************)
(* What holds of the core for every program, every address space, every    *)
(* length of a division and every debug traffic: the types and who may be  *)
(* in which stage, the two sides of the CSR write port, the forwarding of  *)
(* CSR writes, and that a halted hart stays drained; and, for the programs *)
(* and surroundings of CoreSpec, that it implements the instruction set.   *)
(***************************************************************************)
EXTENDS TinyCore, TLAPS

CsrRegs == [mie : BOOLEAN, mpie : BOOLEAN, mepc : Addrs,
            mcause : {"none", "ecall", "ebreak", "timer"}]

DivRegs == [state : {"IDLE", "START", "CALC", "END"}, zero : BOOLEAN,
            count : Nat, busy : BOOLEAN, ready : BOOLEAN]

DmRegs == [phase : {"quiet", "rx", "resp"}, halt : BOOLEAN, reset : BOOLEAN]

ClintStates == {"IDLE", "MEPC", "MSTATUS", "MCAUSE", "MSTATUS_MRET"}

(* The sequencer writes only into an empty EX, and it asserts the trap in  *)
(* the clock of its last write.                                            *)
Sequencer == /\ clint.we => id_ex.inst = Nop
             /\ clint.we /\ clint.csr_state = "IDLE" => clint.int_assert

Typed == /\ csr \in CsrRegs
         /\ id_ex.csr \in CsrRegs
         /\ id_ex.flag \in BOOLEAN
         /\ div \in DivRegs
         /\ clint.cause \in {"none", "ecall", "ebreak", "timer"}
         /\ clint.mie \in BOOLEAN
         /\ dm \in DmRegs

IInv == TypeOK /\ Typed /\ Sequencer /\ CsrFresh

-----------------------------------------------------------------------------
(* Addresses wrap within the address space.                                *)
LEMMA SuccAddr ==
  ASSUME NEW a \in Addrs
  PROVE  Succ(a) \in Addrs
  BY NWordsAssumption DEF Addrs, Succ

LEMMA PredAddr ==
  ASSUME NEW a \in Addrs
  PROVE  Pred(a) \in Addrs
  BY NWordsAssumption DEF Addrs, Pred

LEMMA ZeroAddr == 0 \in Addrs
  BY NWordsAssumption DEF Addrs

-----------------------------------------------------------------------------
LEMMA InitIInv == Init => IInv
<1> SUFFICES ASSUME Init PROVE IInv
  OBVIOUS
<1>1. rom \in [Addrs -> Insts]
  BY ProgramsAssumption DEF Init
<1>2. ResetCsr \in CsrRegs
  BY ZeroAddr DEF ResetCsr, CsrRegs
<1>3. csr \in CsrRegs
  BY ZeroAddr DEF Init, ResetCsr, CsrRegs
<1>4. div \in DivRegs
  BY DEF Init, DivIdle, DivStops, DivRegs
<1>5. TypeOK
  <2>1. div.state = "IDLE" /\ ~div.busy /\ div.count = 0
    BY DEF Init, DivIdle, DivStops
  <2>2. /\ if_id.inst = Nop /\ if_id.addr = 0
        /\ id_ex.inst = Nop /\ id_ex.addr = 0
        /\ clint.csr_state = "IDLE" /\ clint.inst_addr = 0 /\ clint.int_addr = 0
        /\ arch.next = 0 /\ arch.mepc = csr.mepc /\ pc = 0
    BY DEF Init, EmptyEx
  <2>3. csr.mepc \in Addrs
    BY <1>3 DEF CsrRegs
  <2> QED
    BY <1>1, <2>1, <2>2, <2>3, ZeroAddr, CalcCyclesAssumption DEF TypeOK
<1>6. Typed
  BY <1>2, <1>3, <1>4 DEF Init, Typed, EmptyEx, DmRegs
<1>7. Sequencer
  BY DEF Init, Sequencer
<1>8. CsrFresh
  BY DEF Init, CsrFresh, CsrWe, InEx, EmptyEx, Nop, CsrOps
<1> QED
  BY <1>5, <1>6, <1>7, <1>8 DEF IInv

-----------------------------------------------------------------------------
(* Whatever asks clint for a trap or a return, and every division, flushes *)
(* IF and ID, so it never moves on as an instruction.                      *)
LEMMA IdFlushed ==
  ASSUME IInv, HoldFlag # "Id"
  PROVE  /\ if_id.inst.op \notin SyncOps \cup {"mret"}
         /\ clint.csr_state = "IDLE"
         /\ ~clint.int_assert
         /\ ~clint.we
<1>1. ~JumpFlag /\ ~HoldEx /\ ~HoldClint
  BY DEF HoldFlag
<1>2. ~clint.int_assert
  BY <1>1 DEF JumpFlag
<1>3. IntState = "IDLE" /\ clint.csr_state = "IDLE"
  BY <1>1 DEF HoldClint
<1>4. ~DivStart
  BY <1>1 DEF DivStart, HoldEx
<1>5. if_id.inst.op \notin SyncOps \cup {"mret"}
  BY <1>3, <1>4 DEF IntState, SyncOps
<1>6. ~clint.we
  BY <1>2, <1>3 DEF IInv, Sequencer
<1> QED
  BY <1>2, <1>3, <1>5, <1>6

(* A jump goes to an address.                                              *)
LEMMA JumpAddrType ==
  ASSUME IInv, JumpFlag
  PROVE  JumpAddr \in Addrs
<1>1. id_ex.addr \in Addrs /\ clint.int_addr \in Addrs
  BY DEF IInv, TypeOK
<1>2. Succ(id_ex.addr) \in Addrs
  BY <1>1, SuccAddr
<1>3. id_ex.inst.to \in Addrs
  BY ZeroAddr DEF IInv, TypeOK, Insts, Nop
<1> QED
  BY <1>1, <1>2, <1>3 DEF JumpAddr

(* A CSR instruction of EX leaves well-typed CSRs.                         *)
LEMMA CsrWrittenType ==
  ASSUME IInv
  PROVE  CsrWritten \in CsrRegs
<1>1. csr \in CsrRegs /\ id_ex.csr \in CsrRegs
  BY DEF IInv, Typed
<1>2. Succ(id_ex.csr.mepc) \in Addrs /\ id_ex.csr.mpie \in BOOLEAN
  BY <1>1, SuccAddr DEF CsrRegs
<1> QED
  BY <1>1, <1>2 DEF CsrWritten, CsrRegs

LEMMA CsrReadType ==
  ASSUME IInv
  PROVE  CsrRead \in CsrRegs
  BY CsrWrittenType DEF CsrRead, IInv, Typed

(* Where a trap will return to is an address.                              *)
LEMMA ReturnAddrType ==
  ASSUME IInv
  PROVE  ReturnAddr \in Addrs
<1>1. if_id.addr \in Addrs /\ Pred(if_id.addr) \in Addrs
  BY PredAddr DEF IInv, TypeOK
<1>2. JumpFlag => JumpAddr \in Addrs /\ Pred(JumpAddr) \in Addrs
  BY JumpAddrType, PredAddr
<1> QED
  BY <1>1, <1>2 DEF ReturnAddr

-----------------------------------------------------------------------------
(* One lemma for each register: its next value has its type.               *)

LEMMA PcStep ==
  ASSUME IInv, PcReg
  PROVE  pc' \in Addrs
<1>1. pc \in Addrs /\ Succ(pc) \in Addrs
  BY SuccAddr DEF IInv, TypeOK
<1> QED
  BY <1>1, JumpAddrType, ZeroAddr DEF PcReg

LEMMA IfIdStep ==
  ASSUME IInv, NEW int_i, IfId(int_i)
  PROVE  if_id'.inst \in Insts \cup {Nop} /\ if_id'.addr \in Addrs
<1>1. Fetched \in Insts \cup {Nop}
  BY DEF Fetched, IInv, TypeOK
<1> QED
  BY <1>1, ZeroAddr DEF IfId, IInv, TypeOK

(* The new contents of EX, and what is known when they are not a bubble.   *)
LEMMA IdExStep ==
  ASSUME IInv, IdEx
  PROVE  /\ id_ex'.inst \in {i \in Insts : i.op \notin SyncOps \cup {"mret"}} \cup {Nop}
         /\ id_ex'.addr \in Addrs
         /\ id_ex'.csr \in CsrRegs /\ id_ex'.flag \in BOOLEAN
         /\ HoldFlag = "Id" => id_ex' = EmptyEx
         /\ HoldFlag # "Id" /\ if_id.inst.op \in CsrOps => id_ex'.csr = CsrRead
         /\ HoldFlag # "Id" => id_ex'.inst = if_id.inst
<1>1. PICK flag \in BOOLEAN :
        id_ex' = IF HoldFlag = "Id" THEN EmptyEx
                 ELSE [inst |-> if_id.inst, addr |-> if_id.addr, flag |-> flag,
                       csr |-> IF if_id.inst.op \in CsrOps THEN CsrRead ELSE ResetCsr]
  BY DEF IdEx
<1>2. ResetCsr \in CsrRegs
  BY ZeroAddr DEF ResetCsr, CsrRegs
<1>3. CASE HoldFlag = "Id"
  BY <1>1, <1>2, <1>3, ZeroAddr DEF EmptyEx
<1>4. CASE HoldFlag # "Id"
  <2>1. if_id.inst \in {i \in Insts : i.op \notin SyncOps \cup {"mret"}} \cup {Nop}
    BY <1>4, IdFlushed DEF IInv, TypeOK
  <2> QED
    BY <1>1, <1>2, <1>4, <2>1, CsrReadType DEF IInv, TypeOK
<1> QED
  BY <1>3, <1>4

LEMMA ClintStep ==
  ASSUME IInv, Clint
  PROVE  /\ clint'.csr_state \in ClintStates
         /\ clint'.inst_addr \in Addrs /\ clint'.int_addr \in Addrs
         /\ clint'.cause \in {"none", "ecall", "ebreak", "timer"}
         /\ clint'.mie \in BOOLEAN
         /\ clint'.we => clint.csr_state # "IDLE"
         /\ clint'.we /\ clint'.csr_state = "IDLE" => clint'.int_assert
<1>1. clint.csr_state \in ClintStates
  BY DEF IInv, TypeOK, ClintStates
<1>2. /\ clint'.csr_state = ClintState
      /\ clint'.inst_addr = IF Accepts THEN ReturnAddr ELSE clint.inst_addr
      /\ clint'.cause = IF ~Accepts THEN clint.cause
                        ELSE IF IntState = "SYNC" THEN if_id.inst.op ELSE "timer"
      /\ clint'.int_addr = CASE clint.csr_state = "MCAUSE" -> Mtvec
                             [] clint.csr_state = "MSTATUS_MRET" -> csr.mepc
                             [] OTHER -> 0
  BY DEF Clint
<1>3. clint'.mie \in BOOLEAN
  BY DEF Clint
<1>4. /\ clint'.we <=> clint.csr_state # "IDLE"
      /\ clint'.int_assert <=> clint.csr_state \in {"MCAUSE", "MSTATUS_MRET"}
  BY DEF Clint
<1>5. ClintState \in ClintStates
  BY <1>1 DEF ClintState, ClintStates
<1>6. clint.csr_state \in {"MEPC", "MSTATUS"} => ClintState # "IDLE"
  BY DEF ClintState
<1>7. clint'.inst_addr \in Addrs
  BY <1>2, ReturnAddrType DEF IInv, TypeOK
<1>8. clint'.int_addr \in Addrs
  BY <1>1, <1>2, MtvecAssumption, ZeroAddr DEF IInv, Typed, CsrRegs
<1>9. clint'.cause \in {"none", "ecall", "ebreak", "timer"}
  <2>1. IntState = "SYNC" => if_id.inst.op \in SyncOps
    BY DEF IntState
  <2> QED
    BY <1>2, <2>1 DEF SyncOps, IInv, Typed
<1> QED
  BY <1>1, <1>2, <1>3, <1>4, <1>5, <1>6, <1>7, <1>8, <1>9 DEF ClintStates

LEMMA CsrStep ==
  ASSUME IInv, CsrReg
  PROVE  csr' \in CsrRegs
<1>1. csr \in CsrRegs /\ clint.inst_addr \in Addrs /\ clint.mie \in BOOLEAN
      /\ clint.cause \in {"none", "ecall", "ebreak", "timer"}
  BY DEF IInv, Typed, TypeOK
<1> QED
  BY <1>1, CsrWrittenType DEF CsrReg, CsrRegs

LEMMA DivStep ==
  ASSUME IInv, Div
  PROVE  /\ div' \in DivRegs
         /\ div'.busy <=> div'.state # "IDLE"
         /\ div'.count \in 0 .. CalcCycles
         /\ div'.count > 0 <=> div'.state = "CALC"
<1> DEFINE Goal(d) == /\ d \in DivRegs
                      /\ d.busy <=> d.state # "IDLE"
                      /\ d.count \in 0 .. CalcCycles
                      /\ d.count > 0 <=> d.state = "CALC"
<1>1. /\ div \in DivRegs /\ id_ex.flag \in BOOLEAN
      /\ div.count \in 0 .. CalcCycles
      /\ div.count > 0 <=> div.state = "CALC"
      /\ div.busy <=> div.state # "IDLE"
  BY DEF IInv, Typed, TypeOK
<1>2. Goal(DivIdle)
  BY CalcCyclesAssumption DEF DivIdle, DivStops, DivRegs
<1>3. Goal(DivDone)
  BY CalcCyclesAssumption DEF DivDone, DivStops, DivRegs
<1>4. ASSUME div.state = "IDLE"
      PROVE  Goal([div EXCEPT !.state = "START", !.busy = TRUE, !.zero = id_ex.flag])
  BY <1>1, <1>4 DEF DivRegs
<1>5. ASSUME div.state = "START"
      PROVE  Goal([div EXCEPT !.state = "CALC", !.count = CalcCycles])
  <2> DEFINE d == [div EXCEPT !.state = "CALC", !.count = CalcCycles]
  <2>1. d \in DivRegs /\ d.state = "CALC" /\ d.count = CalcCycles
    BY <1>1, CalcCyclesAssumption DEF DivRegs
  <2>2. d.busy = div.busy
    BY <1>1 DEF DivRegs
  <2>3. div.busy
    BY <1>1, <1>5
  <2> QED
    BY <2>1, <2>2, <2>3, CalcCyclesAssumption
<1>6. ASSUME div.state = "CALC", div.count > 1
      PROVE  Goal([div EXCEPT !.count = @ - 1])
  BY <1>1, <1>6, CalcCyclesAssumption DEF DivRegs
<1>7. ASSUME div.state = "CALC"
      PROVE  Goal([div EXCEPT !.state = "END", !.count = 0])
  <2> DEFINE d == [div EXCEPT !.state = "END", !.count = 0]
  <2>1. d \in DivRegs /\ d.state = "END" /\ d.count = 0
    BY <1>1 DEF DivRegs
  <2>2. d.busy = div.busy
    BY <1>1 DEF DivRegs
  <2>3. div.busy
    BY <1>1, <1>7
  <2> QED
    BY <2>1, <2>2, <2>3, CalcCyclesAssumption
<1> HIDE DEF Goal
<1>8. Goal(div')
  BY <1>2, <1>3, <1>4, <1>5, <1>6, <1>7 DEF Div, DivCtlStep
<1> QED
  BY <1>8 DEF Goal

-----------------------------------------------------------------------------
LEMMA DmStep ==
  ASSUME IInv, Dm
  PROVE  dm' \in DmRegs
<1>1. dm \in DmRegs
  BY DEF IInv, Typed
<1>2. ASSUME NEW op, DmDecodes(op) PROVE dm' \in DmRegs
  BY <1>1, <1>2 DEF DmDecodes, DmRegs
<1> QED
  BY <1>1, <1>2 DEF Dm, DmQuiet, DmArrives, DmReadsStatus, DmResponds, DmRegs

(* The history variable keeps to the address space.                        *)
LEMMA ArchStep ==
  ASSUME IInv, Arch
  PROVE  arch'.next \in Addrs /\ arch'.mepc \in Addrs
<1>1. arch.next \in Addrs /\ arch.mepc \in Addrs
  BY DEF IInv, TypeOK
<1>2. Succ(arch.next) \in Addrs /\ Succ(arch.mepc) \in Addrs
  BY <1>1, SuccAddr
<1>3. rom[arch.next].to \in Addrs
  BY <1>1 DEF IInv, TypeOK, Insts
<1>4. ArchNext(rom[arch.next]) \in Addrs
  BY <1>2, <1>3 DEF ArchNext
<1> QED
  BY <1>1, <1>2, <1>4, ZeroAddr, MtvecAssumption DEF Arch

(* The CSR write port and the forwarding, one clock later.                 *)
LEMMA SequencerStep ==
  ASSUME IInv, IdEx, Clint
  PROVE  Sequencer'
<1>1. ASSUME clint'.we PROVE id_ex'.inst = Nop
  <2>1. HoldFlag = "Id"
    BY <1>1, ClintStep, IdFlushed
  <2> QED
    BY <2>1, IdExStep DEF EmptyEx
<1> QED
  BY <1>1, ClintStep DEF Sequencer

LEMMA CsrFreshStep ==
  ASSUME IInv, IdEx, CsrReg
  PROVE  CsrFresh'
<1> SUFFICES ASSUME CsrWe' PROVE id_ex'.csr = csr'
  BY DEF CsrFresh
<1>1. id_ex'.inst.op \in CsrOps
  BY DEF CsrWe, InEx
<1>2. HoldFlag # "Id"
  BY <1>1, IdExStep DEF EmptyEx, Nop, CsrOps
<1>3. if_id.inst.op \in CsrOps
  BY <1>1, <1>2, IdExStep
<1>4. id_ex'.csr = CsrRead
  BY <1>2, <1>3, IdExStep
<1>5. csr' = CsrRead
  BY <1>2, IdFlushed DEF CsrReg, CsrRead
<1> QED
  BY <1>4, <1>5

LEMMA StepIInv == IInv /\ [Next]_vars => IInv'
<1> SUFFICES ASSUME IInv, [Next]_vars PROVE IInv'
  OBVIOUS
<1>1. CASE Next
  <2>1. PICK int_i \in IntInputs : Clock(int_i)
    BY <1>1 DEF Next
  <2>2. /\ UNCHANGED rom /\ PcReg /\ IfId(int_i) /\ IdEx /\ Clint
        /\ CsrReg /\ Div /\ Dm /\ Arch
    BY <2>1 DEF Clock
  <2>3. csr' \in CsrRegs
    BY <2>2, CsrStep
  <2>4. TypeOK'
    <3>1. csr'.mepc \in Addrs
      BY <2>3 DEF CsrRegs
    <3>2. rom' \in [Addrs -> Insts]
      BY <2>2 DEF IInv, TypeOK
    <3>3. div'.state \in {"IDLE", "START", "CALC", "END"}
      BY <2>2, DivStep DEF DivRegs
    <3>4. if_id'.inst \in Insts \cup {Nop} /\ if_id'.addr \in Addrs
      BY <2>2, IfIdStep
    <3> QED
      BY <2>2, <3>1, <3>2, <3>3, <3>4, PcStep, IdExStep, ClintStep, DivStep, ArchStep
         DEF TypeOK, ClintStates
  <2>5. Typed'
    BY <2>2, <2>3, IdExStep, ClintStep, DivStep, DmStep DEF Typed
  <2>6. Sequencer' /\ CsrFresh'
    BY <2>2, SequencerStep, CsrFreshStep
  <2> QED
    BY <2>4, <2>5, <2>6 DEF IInv
<1>2. CASE UNCHANGED vars
  BY <1>2 DEF vars, IInv, TypeOK, Typed, Sequencer, CsrFresh, CsrWe, InEx
<1> QED
  BY <1>1, <1>2

THEOREM InductiveInvariant == Spec => []IInv
  BY InitIInv, StepIInv, PTL DEF Spec

-----------------------------------------------------------------------------
(* The stages keep their types; no trap or return ever becomes an          *)
(* instruction of EX, and the divider counts in CALC only.                 *)
THEOREM TypeCorrect == Spec => []TypeOK
<1>1. IInv => TypeOK
  BY DEF IInv
<1> QED
  BY <1>1, InductiveInvariant, PTL

(* The write of clint and the write of EX never meet at the CSR file,      *)
(* which would drop the former (csr_reg.v:85-111).                         *)
THEOREM WritesNeverMeet == Spec => []NoCsrWriteDropped
<1>1. IInv => NoCsrWriteDropped
  BY DEF IInv, Sequencer, NoCsrWriteDropped, CsrWe, InEx, Nop, CsrOps
<1> QED
  BY <1>1, InductiveInvariant, PTL

(* A CSR instruction works on the current CSRs (csr_reg.v:141-175).        *)
THEOREM ForwardingIsFresh == Spec => []CsrFresh
<1>1. IInv => CsrFresh
  BY DEF IInv
<1> QED
  BY <1>1, InductiveInvariant, PTL

(* CSRs are never read stale, nor written twice in a clock.                *)
THEOREM CsrsStayCoherent == Spec => []CsrsCoherent
  BY WritesNeverMeet, ForwardingIsFresh, PTL DEF CsrsCoherent

(* One clock of a halted hart whose stages are empty.                      *)
LEMMA DrainedStep ==
  ASSUME IInv, NEW int_i, Clock(int_i), dm.halt, Drained
  PROVE  Drained'
<1>1. IfId(int_i) /\ IdEx /\ Div
  BY DEF Clock
<1>2. if_id'.inst = Nop
  <2>1. HoldFlag = "Id" \/ HoldRib
    BY DEF HoldFlag
  <2> QED
    BY <1>1, <2>1 DEF IfId, Fetched
<1>3. id_ex'.inst = Nop
  BY <1>1, IdExStep DEF EmptyEx, Drained
<1>4. ~div'.busy /\ ~div'.ready
  <2>1. ~DivStart
    BY DEF DivStart, InEx, Drained, Nop
  <2>2. div' = DivIdle
    BY <1>1, <2>1 DEF Div, DivCtlStep
  <2> QED
    BY <2>2 DEF DivIdle, DivStops
<1> QED
  BY <1>2, <1>3, <1>4 DEF Drained

(* A halted hart whose stages are empty stays empty, whatever the debugger *)
(* accesses (ctrl.v:57-62).                                                *)
THEOREM HaltedHartStaysDrained == Spec => HaltedStaysDrained
<1>1. IInv /\ [Next]_vars => [dm.halt /\ Drained => Drained']_vars
  <2> SUFFICES ASSUME IInv, Next, dm.halt, Drained PROVE Drained'
    BY DEF vars
  <2> QED
    BY DrainedStep DEF Next
<1> QED
  BY <1>1, InductiveInvariant, PTL DEF Spec, HaltedStaysDrained

-----------------------------------------------------------------------------
(* The pipeline executes the program and its traps are precise, for every  *)
(* program of the workload, every address space, every length of a         *)
(* division, every pattern of interrupts and all debug traffic.            *)
(*                                                                         *)
(* The invariant says where the stages stand relative to the next          *)
(* instruction of the instruction-set machine: EX holds it or is empty, ID *)
(* holds the upcoming one or is empty, and pc is right behind.  While clint*)
(* works the stages are empty, and what it has written so far is known.    *)

(* EX holds an instruction, or its division is under way or just finished. *)
Waiting == id_ex.inst # Nop \/ div.busy \/ div.ready

(* The instruction that ID is to bring.                                    *)
Upcoming == IF Waiting THEN Succ(arch.next) ELSE arch.next

InTrap == clint.csr_state # "IDLE" \/ clint.int_assert

Orderly == ShadowFree(rom) /\ ReturnFree(rom)

ExAtNext ==
  /\ id_ex.inst # Nop => id_ex.addr = arch.next /\ id_ex.inst = rom[arch.next]
  /\ div.busy \/ div.ready => /\ rom[arch.next].op = "div"
                              /\ id_ex.inst = Nop /\ if_id.inst = Nop

IdAtUpcoming ==
  /\ if_id.inst # Nop => if_id.inst = rom[Upcoming]
  /\ if_id.inst # Nop \/ if_id.int_flag => if_id.addr = Upcoming
  /\ if_id.int_flag => DivFree(rom)
  /\ pc = IF if_id.inst # Nop THEN Succ(Upcoming) ELSE Upcoming

CsrsAgree == csr.mie = arch.mie /\ csr.mepc = arch.mepc

Running == ~InTrap => ExAtNext /\ IdAtUpcoming /\ CsrsAgree /\ ~clint.we

Held == /\ dm.halt => if_id.inst = Nop
        /\ dm.reset => dm.phase = "resp" /\ Drained /\ ~InTrap /\ ~if_id.int_flag

(* Why the sequencer runs, once it has accepted a trap.                    *)
Cause ==
  \/ arch.taken = "ASYNC" /\ clint.cause = "timer"
  \/ /\ arch.taken = "SYNC" /\ rom[arch.next].op \in SyncOps
     /\ clint.cause = rom[arch.next].op

Returning == arch.taken = "MRET" /\ rom[arch.next].op = "mret" /\ csr.mepc = arch.mepc

(* The states of the sequencer, each with the write that it has on the     *)
(* CSR port.                                                               *)
AtMepc == /\ clint.csr_state = "MEPC" /\ ~clint.int_assert /\ ~clint.we
          /\ Cause /\ clint.inst_addr = arch.next /\ CsrsAgree

AtMstatus == /\ clint.csr_state = "MSTATUS" /\ ~clint.int_assert
             /\ clint.we /\ clint.waddr = "MEPC"
             /\ Cause /\ clint.inst_addr = arch.next

AtMcause == /\ clint.csr_state = "MCAUSE" /\ ~clint.int_assert
            /\ clint.we /\ clint.waddr = "MSTATUS" /\ ~clint.mie
            /\ Cause /\ csr.mepc = arch.next

AtTrap == /\ clint.csr_state = "IDLE" /\ clint.int_assert
          /\ clint.we /\ clint.waddr = "MCAUSE"
          /\ Cause /\ csr.mepc = arch.next /\ csr.mie = FALSE /\ clint.int_addr = Mtvec

AtMret == /\ clint.csr_state = "MSTATUS_MRET" /\ ~clint.int_assert /\ ~clint.we
          /\ Returning

AtReturn == /\ clint.csr_state = "IDLE" /\ clint.int_assert
            /\ clint.we /\ clint.waddr = "MSTATUS_MRET"
            /\ Returning /\ clint.int_addr = csr.mepc /\ clint.mie = csr.mpie

Trapping ==
  InTrap => /\ Drained /\ ~if_id.int_flag
            /\ AtMepc \/ AtMstatus \/ AtMcause \/ AtTrap \/ AtMret \/ AtReturn

Order == Orderly /\ Running /\ Held /\ Trapping

OInv == IInv /\ Order

-----------------------------------------------------------------------------
LEMMA NopIsNoInst == Nop \notin Insts /\ Nop.op = "nop"
  BY DEF Nop, Insts, Ops, JumpOps, CsrOps, SyncOps, PlainOps

LEMMA InitOrder == CoreInit => OInv
<1> SUFFICES ASSUME CoreInit PROVE OInv
  OBVIOUS
<1>1. Init /\ Orderly
  BY DEF CoreInit, Orderly
<1>2. IInv
  BY <1>1, InitIInv
<1>3. ~InTrap
  BY <1>1 DEF Init, InTrap
<1>4. /\ if_id.inst = Nop /\ ~if_id.int_flag /\ id_ex.inst = Nop
      /\ ~div.busy /\ ~div.ready
  BY <1>1 DEF Init, EmptyEx, DivIdle, DivStops
<1>5. pc = arch.next /\ CsrsAgree /\ ~clint.we /\ ~dm.halt /\ ~dm.reset
  BY <1>1 DEF Init, CsrsAgree
<1>6. Running
  BY <1>4, <1>5 DEF Running, ExAtNext, IdAtUpcoming, Upcoming, Waiting
<1> QED
  BY <1>1, <1>2, <1>3, <1>5, <1>6 DEF OInv, Order, Held, Trapping

-----------------------------------------------------------------------------
(* What EX may hold outside a trap.                                        *)
LEMMA ExHolds ==
  ASSUME OInv, ~InTrap
  PROVE  /\ id_ex.inst = Nop \/ id_ex.inst.op \in JumpOps \cup CsrOps \cup PlainOps \cup {"div"}
         /\ id_ex.inst # Nop => /\ id_ex.inst = rom[arch.next] /\ id_ex.addr = arch.next
                                /\ ~div.busy /\ ~div.ready
         /\ InEx(Ops) <=> id_ex.inst # Nop
         /\ ~clint.int_assert /\ clint.csr_state = "IDLE" /\ ~clint.we
<1>1. ExAtNext /\ ~clint.we
  BY DEF OInv, Order, Running
<1>2. id_ex.inst \in {i \in Insts : i.op \notin SyncOps \cup {"mret"}} \cup {Nop}
  BY DEF OInv, IInv, TypeOK
<1>3. id_ex.inst = Nop \/ id_ex.inst.op \in Ops \ (SyncOps \cup {"mret"})
  BY <1>2 DEF Insts
<1>4. ~clint.int_assert /\ clint.csr_state = "IDLE"
  BY DEF InTrap
<1> QED
  BY <1>1, <1>3, <1>4, NopIsNoInst DEF ExAtNext, InEx, Ops, SyncOps, JumpOps, CsrOps, PlainOps

(* The divider, outside a trap: a division that is started goes on.        *)
LEMMA DivGoesOn ==
  ASSUME IInv, Div
  PROVE  /\ ~DivStart => ~div'.busy /\ ~div'.ready
         /\ DivStart => div'.busy \/ div'.ready
<1>1. /\ div \in DivRegs
      /\ div.count \in 0 .. CalcCycles
      /\ div.count > 0 <=> div.state = "CALC"
      /\ div.busy <=> div.state # "IDLE"
  BY DEF IInv, Typed, TypeOK
<1>2. CASE ~DivStart
  <2>1. div' = DivIdle
    BY <1>2 DEF Div, DivCtlStep
  <2> QED
    BY <1>2, <2>1 DEF DivIdle, DivStops
<1>3. CASE DivStart
  <2>1. DivDone.ready
    BY DEF DivDone, DivStops
  <2>2. CASE div.state = "IDLE"
    BY <1>1, <1>3, <2>2 DEF Div, DivCtlStep, DivRegs
  <2>3. CASE div.state = "START"
    BY <1>1, <1>3, <2>1, <2>3 DEF Div, DivCtlStep, DivRegs
  <2>4. CASE div.state = "CALC"
    <3>1. div.count > 1 \/ div.count = 1
      BY <1>1, <2>4, CalcCyclesAssumption
    <3> QED
      BY <1>1, <1>3, <2>4, <3>1 DEF Div, DivCtlStep, DivRegs
  <2>5. CASE div.state = "END"
    BY <1>1, <1>3, <2>1, <2>5 DEF Div, DivCtlStep, DivRegs
  <2> QED
    BY <1>1, <2>2, <2>3, <2>4, <2>5 DEF DivRegs
<1> QED
  BY <1>2, <1>3

-----------------------------------------------------------------------------
(* Outside a trap the instruction-set machine moves to where EX sends the  *)
(* fetch, or to the upcoming instruction; a division under way keeps it.   *)
LEMMA ArchAdvances ==
  ASSUME OInv, ~InTrap, ~dm.reset, Arch
  PROVE  /\ ~JumpFlag /\ ~DivStart => arch'.next = Upcoming
         /\ JumpFlag /\ ~DivStart => arch'.next = JumpAddr
         /\ DivStart => arch'.next = arch.next
<1> DEFINE inst == rom[arch.next]
<1>1. arch'.next = IF Executes THEN ArchNext(inst) ELSE arch.next
  BY ExHolds DEF Arch
<1>2. CASE id_ex.inst = Nop
  <2>1. ~InEx(Ops)
    BY <1>2, ExHolds
  <2>2. ~JumpFlag /\ (DivStart <=> div.busy) /\ (Executes <=> ~div.busy /\ div.ready)
    BY <2>1, ExHolds
       DEF JumpFlag, DivStart, Executes, DivWrites, InEx, Ops, PlainOps, CsrOps, JumpOps
  <2>3. Executes => inst.op = "div"
    BY <2>2 DEF OInv, Order, Running, ExAtNext
  <2>4. Executes => ArchNext(inst) = Succ(arch.next)
    BY <2>3 DEF ArchNext
  <2> QED
    BY <1>1, <1>2, <2>2, <2>4 DEF Upcoming, Waiting
<1>3. CASE id_ex.inst # Nop
  <2>1. inst = id_ex.inst /\ ~div.busy /\ ~div.ready /\ ~clint.int_assert
    BY <1>3, ExHolds
  <2>2. Upcoming = Succ(arch.next)
    BY <1>3 DEF Upcoming, Waiting
  <2>3. CASE InEx({"div"})
    BY <1>1, <2>1, <2>2, <2>3
       DEF Executes, DivWrites, DivStart, InEx, JumpOps, CsrOps, PlainOps
  <2>4. CASE ~InEx({"div"})
    <3>1. InEx(JumpOps \cup CsrOps \cup PlainOps)
      BY <1>3, <2>4, ExHolds DEF InEx
    <3>2. Executes /\ ~DivStart
      BY <2>1, <2>4, <3>1 DEF Executes, DivStart
    <3>3. JumpFlag <=> inst.op = "jmp" \/ (inst.op = "br" /\ id_ex.flag)
      BY <2>1, <2>4 DEF JumpFlag, InEx
    <3>4. JumpFlag => JumpAddr = inst.to
      BY <2>1, <2>4 DEF JumpAddr
    <3> QED
      BY <1>1, <2>2, <3>2, <3>3, <3>4 DEF ArchNext
  <2> QED
    BY <2>3, <2>4
<1> QED
  BY <1>2, <1>3

(* Outside a trap the CSRs follow the instruction-set machine.             *)
LEMMA CsrsAdvance ==
  ASSUME OInv, ~InTrap, Arch, CsrReg
  PROVE  CsrsAgree'
<1> DEFINE inst == rom[arch.next]
<1>1. CsrsAgree /\ CsrFresh
  BY DEF OInv, IInv, Order, Running
<1>2. /\ arch'.mie = IF Executes /\ inst.op \in {"csrs", "csrc"} THEN inst.op = "csrs"
                     ELSE arch.mie
      /\ arch'.mepc = IF Executes /\ inst.op = "epc" THEN Succ(arch.mepc) ELSE arch.mepc
  BY ExHolds DEF Arch
<1>3. csr' = IF CsrWe THEN CsrWritten ELSE csr
  BY ExHolds DEF CsrReg
<1>4. csr \in CsrRegs
  BY DEF OInv, IInv, Typed
<1>5. CASE CsrWe
  <2>1. InEx(CsrOps) /\ id_ex.csr = csr
    BY <1>1, <1>5 DEF CsrWe, CsrFresh
  <2>2. inst = id_ex.inst
    BY <2>1, ExHolds, NopIsNoInst DEF InEx, CsrOps
  <2>3. Executes
    BY <2>1, ExHolds DEF Executes, InEx
  <2>4. CASE inst.op = "csrs"
    BY <1>1, <1>2, <1>3, <1>4, <1>5, <2>2, <2>3, <2>4
       DEF CsrsAgree, CsrWritten, InEx, CsrRegs
  <2>5. CASE inst.op = "csrc"
    BY <1>1, <1>2, <1>3, <1>4, <1>5, <2>2, <2>3, <2>5
       DEF CsrsAgree, CsrWritten, InEx, CsrRegs
  <2>6. CASE inst.op = "epc"
    BY <1>1, <1>2, <1>3, <1>4, <1>5, <2>1, <2>2, <2>3, <2>6
       DEF CsrsAgree, CsrWritten, InEx, CsrRegs
  <2> QED
    BY <2>1, <2>2, <2>4, <2>5, <2>6 DEF InEx, CsrOps
<1>6. CASE ~CsrWe
  <2>1. ~(Executes /\ inst.op \in CsrOps)
    <3>1. SUFFICES ASSUME Executes, inst.op \in CsrOps PROVE FALSE
      OBVIOUS
    <3>2. CASE DivWrites
      BY <3>1, <3>2 DEF DivWrites, OInv, Order, Running, ExAtNext, CsrOps
    <3>3. CASE InEx(JumpOps \cup CsrOps \cup PlainOps)
      <4>1. id_ex.inst = inst
        BY <3>3, ExHolds, NopIsNoInst DEF InEx, JumpOps, CsrOps, PlainOps
      <4> QED
        BY <1>6, <3>1, <4>1, ExHolds DEF CsrWe, InEx
    <3> QED
      BY <3>1, <3>2, <3>3 DEF Executes
  <2> QED
    BY <1>1, <1>2, <1>3, <1>6, <2>1 DEF CsrsAgree, CsrOps
<1> QED
  BY <1>5, <1>6

-----------------------------------------------------------------------------
(* A flushing hold leaves EX and ID empty, and the upcoming instruction is *)
(* where EX sends the fetch, or the one that it was.                       *)
LEMMA UpcomingAfterFlush ==
  ASSUME OInv, ~InTrap, ~dm.reset, HoldFlag = "Id", NEW int_i,
         IfId(int_i), IdEx, Div, Arch
  PROVE  /\ id_ex'.inst = Nop /\ if_id'.inst = Nop /\ ~if_id'.int_flag
         /\ Upcoming' = IF JumpFlag THEN JumpAddr ELSE Upcoming
<1>1. id_ex'.inst = Nop /\ if_id'.inst = Nop /\ ~if_id'.int_flag
  BY IdExStep DEF EmptyEx, IfId, OInv
<1>2. Waiting' <=> div'.busy \/ div'.ready
  BY <1>1 DEF Waiting
<1>3. CASE ~DivStart
  <2>1. Upcoming' = arch'.next
    BY <1>2, <1>3, DivGoesOn DEF Upcoming, OInv
  <2> QED
    BY <1>1, <1>3, <2>1, ArchAdvances
<1>4. CASE DivStart
  <2>1. arch'.next = arch.next
    BY <1>4, ArchAdvances
  <2>2. Upcoming' = Succ(arch.next)
    BY <1>2, <1>4, <2>1, DivGoesOn DEF Upcoming, Succ, OInv
  <2>3. Upcoming = Succ(arch.next)
    BY <1>4, NopIsNoInst DEF DivStart, Upcoming, Waiting, InEx
  <2>4. JumpFlag => JumpAddr = Succ(arch.next)
    <3>1. SUFFICES ASSUME JumpFlag PROVE JumpAddr = Succ(arch.next)
      OBVIOUS
    <3>2. id_ex.inst # Nop
      BY <3>1, ExHolds, NopIsNoInst DEF JumpFlag, InEx
    <3>3. InEx({"div"}) /\ id_ex.addr = arch.next
      BY <1>4, <3>2, ExHolds DEF DivStart
    <3> QED
      BY <3>3, ExHolds DEF JumpAddr
  <2> QED
    BY <1>1, <2>2, <2>3, <2>4
<1> QED
  BY <1>1, <1>3, <1>4

(* Otherwise ID moves on to EX, and the upcoming instruction is at pc.     *)
LEMMA UpcomingAfterMove ==
  ASSUME OInv, ~InTrap, ~dm.reset, HoldFlag # "Id", IdEx, Div, Arch
  PROVE  /\ id_ex'.inst = if_id.inst
         /\ id_ex'.inst # Nop => id_ex'.addr = Upcoming
         /\ ~div'.busy /\ ~div'.ready
         /\ arch'.next = Upcoming
         /\ Upcoming' = pc
<1>1. id_ex'.inst = if_id.inst /\ id_ex'.addr = if_id.addr
  <2>1. PICK flag \in BOOLEAN :
          id_ex' = [inst |-> if_id.inst, addr |-> if_id.addr, flag |-> flag,
                    csr |-> IF if_id.inst.op \in CsrOps THEN CsrRead ELSE ResetCsr]
    BY DEF IdEx
  <2> QED
    BY <2>1
<1>2. ~JumpFlag /\ ~DivStart
  BY DEF HoldFlag, HoldEx, DivStart
<1>3. ~div'.busy /\ ~div'.ready
  BY <1>2, DivGoesOn DEF OInv
<1>4. arch'.next = Upcoming
  BY <1>2, ArchAdvances
<1>5. IdAtUpcoming
  BY DEF OInv, Order, Running
<1>6. Upcoming' = IF if_id.inst # Nop THEN Succ(Upcoming) ELSE Upcoming
  BY <1>1, <1>3, <1>4 DEF Upcoming, Waiting, Succ
<1> QED
  BY <1>1, <1>3, <1>4, <1>5, <1>6 DEF IdAtUpcoming

-----------------------------------------------------------------------------
(* A clock of the running pipeline in which clint accepts nothing.         *)
LEMMA RunningStep ==
  ASSUME OInv, ~InTrap, ~dm.reset, IntState = "IDLE",
         NEW int_i \in IntInputs, int_i => DivFree(rom), Clock(int_i)
  PROVE  ~InTrap' /\ Running'
<1>1. /\ rom' = rom /\ PcReg /\ IfId(int_i) /\ IdEx /\ Clint
      /\ CsrReg /\ Div /\ Arch
  BY DEF Clock
<1>2. clint.csr_state = "IDLE" /\ ~clint.int_assert /\ IInv
  BY ExHolds DEF OInv
<1>3. ~InTrap' /\ ~clint'.we
  BY <1>1, <1>2 DEF Clint, ClintState, InTrap
<1>4. CsrsAgree'
  BY <1>1, CsrsAdvance
<1>5. if_id'.int_flag => DivFree(rom)'
  BY <1>1 DEF IfId, DivFree
<1>6. IdAtUpcoming /\ ExAtNext
  BY DEF OInv, Order, Running
<1>7. CASE HoldFlag = "Id"
  <2>1. /\ id_ex'.inst = Nop /\ if_id'.inst = Nop /\ ~if_id'.int_flag
        /\ Upcoming' = IF JumpFlag THEN JumpAddr ELSE Upcoming
    BY <1>1, <1>7, UpcomingAfterFlush
  <2>2. ~JumpFlag => if_id.inst = Nop
    <3>1. CASE div.busy
      BY <1>6, <3>1 DEF ExAtNext
    <3>2. CASE ~div.busy /\ ~JumpFlag
      <4>1. ~HoldEx /\ ~HoldClint
        BY <1>2, <3>2 DEF HoldEx, HoldClint, JumpFlag, InEx
      <4>2. dm.halt
        BY <1>7, <3>2, <4>1 DEF HoldFlag
      <4> QED
        BY <4>2 DEF OInv, Order, Held
    <3> QED
      BY <3>1, <3>2
  <2>3. pc' = Upcoming'
    BY <1>1, <1>6, <1>7, <2>1, <2>2 DEF PcReg, IdAtUpcoming
  <2>4. div'.busy \/ div'.ready => rom'[arch'.next].op = "div"
    <3>1. SUFFICES ASSUME DivStart PROVE rom[arch.next].op = "div"
      BY <1>1, <1>2, DivGoesOn, ArchAdvances
    <3> QED
      BY <1>6, <3>1, ExHolds, NopIsNoInst DEF DivStart, ExAtNext, InEx
  <2> QED
    BY <1>3, <1>4, <2>1, <2>3, <2>4 DEF Running, ExAtNext, IdAtUpcoming
<1>8. CASE HoldFlag # "Id"
  <2>1. /\ id_ex'.inst = if_id.inst
        /\ id_ex'.inst # Nop => id_ex'.addr = Upcoming
        /\ ~div'.busy /\ ~div'.ready
        /\ arch'.next = Upcoming /\ Upcoming' = pc
    BY <1>1, <1>8, UpcomingAfterMove
  <2>2. if_id' = [inst |-> Fetched, addr |-> pc, int_flag |-> int_i]
    BY <1>1, <1>8 DEF IfId
  <2>3. ExAtNext'
    BY <1>1, <1>6, <2>1 DEF ExAtNext, IdAtUpcoming
  <2>4. if_id'.inst # Nop => if_id'.inst = rom'[Upcoming']
    BY <1>1, <2>1, <2>2 DEF Fetched
  <2>5. ~JumpFlag
    BY <1>8 DEF HoldFlag
  <2>6. pc' = IF if_id'.inst # Nop THEN Succ(Upcoming') ELSE Upcoming'
    <3>1. CASE HoldRib
      <4>1. HoldFlag # "None"
        BY <3>1 DEF HoldFlag
      <4>2. pc' = pc
        BY <1>1, <2>5, <4>1 DEF PcReg
      <4> QED
        BY <2>1, <2>2, <3>1, <4>2 DEF Fetched
    <3>2. CASE ~HoldRib
      <4>1. HoldFlag = "None"
        BY <1>8, <3>2 DEF HoldFlag
      <4>2. pc' = Succ(pc)
        BY <1>1, <2>5, <4>1 DEF PcReg
      <4>3. Fetched \in Insts
        BY <1>2, <3>2 DEF Fetched, IInv, TypeOK
      <4> QED
        BY <2>1, <2>2, <4>2, <4>3, NopIsNoInst
    <3> QED
      BY <3>1, <3>2
  <2>7. IdAtUpcoming'
    BY <1>5, <2>1, <2>2, <2>4, <2>6 DEF IdAtUpcoming
  <2> QED
    BY <1>3, <1>4, <2>3, <2>7 DEF Running
<1> QED
  BY <1>7, <1>8

-----------------------------------------------------------------------------
(* What clint accepts finds no division and, if it is not an interrupt, no *)
(* jump in EX: that is where the conditions on the program are needed.     *)
LEMMA AcceptedAlone ==
  ASSUME OInv, ~InTrap, IntState # "IDLE"
  PROVE  /\ ~DivStart
         /\ IntState \in {"SYNC", "MRET"} => ~JumpFlag
         /\ IntState \in {"SYNC", "ASYNC", "MRET"}
<1>1. IdAtUpcoming /\ ExAtNext /\ Orderly /\ IInv
  BY DEF OInv, Order, Running
<1>2. IntState \in {"SYNC", "ASYNC", "MRET"}
  BY DEF IntState
<1>3. arch.next \in Addrs
  BY <1>1 DEF IInv, TypeOK
<1>4. ASSUME IntState \in {"SYNC", "MRET"}
      PROVE  /\ if_id.inst # Nop /\ ~div.busy
             /\ if_id.inst.op \in SyncOps \cup {"mret"}
             /\ id_ex.inst # Nop => rom[Succ(arch.next)] = if_id.inst
  <2>1. if_id.inst.op \in SyncOps \cup {"mret"}
    BY <1>4 DEF IntState
  <2>2. if_id.inst # Nop
    BY <2>1, NopIsNoInst DEF SyncOps
  <2> QED
    BY <1>1, <2>1, <2>2 DEF ExAtNext, IdAtUpcoming, Upcoming, Waiting
<1>5. IntState \in {"SYNC", "MRET"} => ~JumpFlag /\ ~DivStart
  <2>1. SUFFICES ASSUME IntState \in {"SYNC", "MRET"} PROVE ~JumpFlag /\ ~DivStart
    OBVIOUS
  <2>2. ASSUME id_ex.inst # Nop PROVE id_ex.inst.op \notin JumpOps
    BY <1>1, <1>3, <1>4, <2>1, <2>2, ExHolds DEF Orderly, ShadowFree
  <2>3. ~DivStart
    <3>1. CASE IntState = "SYNC"
      BY <3>1 DEF IntState
    <3>2. CASE IntState = "MRET"
      <4>1. if_id.inst.op = "mret"
        BY <3>2 DEF IntState
      <4>2. ASSUME id_ex.inst # Nop PROVE id_ex.inst.op # "div"
        BY <1>1, <1>3, <1>4, <2>1, <4>1, <4>2, ExHolds DEF Orderly, ReturnFree
      <4> QED
        BY <1>4, <2>1, <4>2, NopIsNoInst DEF DivStart, InEx
    <3> QED
      BY <2>1, <3>1, <3>2
  <2>4. ~InEx({"div"})
    BY <2>3, ExHolds DEF DivStart
  <2> QED
    BY <2>2, <2>3, <2>4, ExHolds, NopIsNoInst DEF JumpFlag, InEx, JumpOps
<1>6. IntState = "ASYNC" => ~DivStart
  <2>1. SUFFICES ASSUME IntState = "ASYNC" PROVE ~DivStart
    OBVIOUS
  <2>2. DivFree(rom)
    BY <1>1, <2>1 DEF IntState, IdAtUpcoming
  <2> QED
    BY <1>1, <1>3, <2>2, ExHolds, NopIsNoInst DEF DivStart, InEx, DivFree, ExAtNext
<1> QED
  BY <1>2, <1>5, <1>6

(* A clock in which clint accepts a trap or a return.                      *)
LEMMA AcceptStep ==
  ASSUME OInv, ~InTrap, ~dm.reset, IntState # "IDLE",
         NEW int_i \in IntInputs, Clock(int_i)
  PROVE  InTrap' /\ Trapping'
<1>1. /\ rom' = rom /\ PcReg /\ IfId(int_i) /\ IdEx /\ Clint
      /\ CsrReg /\ Div /\ Arch
  BY DEF Clock
<1>2. clint.csr_state = "IDLE" /\ ~clint.int_assert /\ IInv
  BY ExHolds DEF OInv
<1>3. HoldFlag = "Id"
  BY DEF HoldFlag, HoldClint
<1>4. ~DivStart /\ (IntState \in {"SYNC", "MRET"} => ~JumpFlag)
  BY AcceptedAlone
<1>5. Drained' /\ ~if_id'.int_flag
  BY <1>1, <1>2, <1>3, <1>4, UpcomingAfterFlush, DivGoesOn DEF Drained
<1>6. arch'.next = IF JumpFlag THEN JumpAddr ELSE Upcoming
  BY <1>1, <1>4, ArchAdvances
<1>7. CsrsAgree'
  BY <1>1, CsrsAdvance
<1>8. arch'.taken = IntState
  BY <1>1, <1>2 DEF Arch
<1>9. ~clint'.int_assert /\ ~clint'.we /\ clint'.csr_state = ClintState
  BY <1>1, <1>2 DEF Clint
<1>10. IdAtUpcoming
  BY DEF OInv, Order, Running
<1>11. IntState \in {"SYNC", "MRET"} => if_id.inst # Nop /\ rom'[arch'.next] = if_id.inst
  <2>1. SUFFICES ASSUME IntState \in {"SYNC", "MRET"}
                 PROVE  if_id.inst # Nop /\ rom'[arch'.next] = if_id.inst
    OBVIOUS
  <2>2. if_id.inst # Nop
    BY <2>1, NopIsNoInst DEF IntState, SyncOps
  <2> QED
    BY <1>1, <1>4, <1>6, <1>10, <2>1, <2>2 DEF IdAtUpcoming
<1>12. CASE IntState \in {"SYNC", "ASYNC"}
  <2>1. /\ Accepts /\ ClintState = "MEPC"
        /\ clint'.inst_addr = ReturnAddr
        /\ clint'.cause = IF IntState = "SYNC" THEN if_id.inst.op ELSE "timer"
    BY <1>1, <1>2, <1>12 DEF Clint, Accepts, ClintState
  <2>2. if_id.addr = Upcoming
    BY <1>10, <1>11, <1>12 DEF IdAtUpcoming, IntState
  <2>3. ReturnAddr = arch'.next
    BY <1>4, <1>6, <1>12, <2>2 DEF ReturnAddr
  <2>4. IntState = "SYNC" => if_id.inst.op \in SyncOps
    BY DEF IntState
  <2>5. AtMepc'
    BY <1>7, <1>8, <1>9, <1>11, <1>12, <2>1, <2>3, <2>4 DEF AtMepc, Cause
  <2> QED
    BY <1>5, <1>9, <2>1, <2>5 DEF InTrap, Trapping
<1>13. CASE IntState = "MRET"
  <2>1. ClintState = "MSTATUS_MRET"
    BY <1>2, <1>13 DEF ClintState
  <2>2. if_id.inst.op = "mret"
    BY <1>13 DEF IntState
  <2>3. AtMret'
    BY <1>7, <1>8, <1>9, <1>11, <1>13, <2>1, <2>2 DEF AtMret, Returning, CsrsAgree
  <2> QED
    BY <1>5, <1>9, <2>1, <2>3 DEF InTrap, Trapping
<1> QED
  BY <1>12, <1>13, AcceptedAlone

-----------------------------------------------------------------------------
(* While clint works the stages stay empty, EX writes nothing, and the     *)
(* instruction-set machine waits for the jump.                             *)
LEMMA TrapIsAlone ==
  ASSUME OInv, InTrap, NEW int_i \in IntInputs, Clock(int_i)
  PROVE  /\ Drained' /\ ~if_id'.int_flag
         /\ IntState = "IDLE" /\ ~CsrWe /\ ~dm.reset
         /\ ~clint.int_assert => arch' = [next |-> arch.next, mie |-> arch.mie,
                                         mepc |-> arch.mepc, taken |-> arch.taken]
         /\ clint.int_assert => pc' = clint.int_addr
<1>1. /\ PcReg /\ IfId(int_i) /\ IdEx /\ Div /\ Arch
  BY DEF Clock
<1>2. Drained /\ ~if_id.int_flag /\ ~dm.reset /\ IInv
  BY DEF OInv, Order, Held, Trapping
<1>3. ~DivStart /\ ~CsrWe /\ ~InEx(Ops) /\ ~DivWrites
  BY <1>2, NopIsNoInst
     DEF Drained, DivStart, CsrWe, InEx, DivWrites, Ops, JumpOps, CsrOps, SyncOps, PlainOps
<1>4. ~Executes
  BY <1>3 DEF Executes, InEx, Ops
<1>5. IntState = "IDLE"
  BY <1>2, NopIsNoInst DEF Drained, IntState, SyncOps
<1>6. HoldFlag = "Id"
  BY DEF HoldFlag, InTrap, JumpFlag, HoldClint
<1>7. Drained' /\ ~if_id'.int_flag
  BY <1>1, <1>2, <1>3, <1>6, IdExStep, DivGoesOn DEF Drained, IfId, EmptyEx
<1>8. ~clint.int_assert => arch' = [next |-> arch.next, mie |-> arch.mie,
                                    mepc |-> arch.mepc, taken |-> arch.taken]
  BY <1>1, <1>2, <1>4, <1>5 DEF Arch
<1>9. clint.int_assert => pc' = clint.int_addr
  BY <1>1, <1>2 DEF PcReg, JumpFlag, JumpAddr
<1> QED
  BY <1>2, <1>3, <1>5, <1>7, <1>8, <1>9

(* A clock of the sequencer, or the one of the jump.                       *)
LEMMA TrapStep ==
  ASSUME OInv, InTrap, NEW int_i \in IntInputs, Clock(int_i)
  PROVE  Running' /\ Trapping'
<1>1. rom' = rom /\ Clint /\ CsrReg /\ Arch
  BY DEF Clock
<1>2. /\ Drained' /\ ~if_id'.int_flag
      /\ IntState = "IDLE" /\ ~CsrWe /\ ~dm.reset
      /\ ~clint.int_assert => arch' = [next |-> arch.next, mie |-> arch.mie,
                                      mepc |-> arch.mepc, taken |-> arch.taken]
      /\ clint.int_assert => pc' = clint.int_addr
  BY TrapIsAlone
<1>3. csr \in CsrRegs
  BY DEF OInv, IInv, Typed
<1>4. AtMepc \/ AtMstatus \/ AtMcause \/ AtTrap \/ AtMret \/ AtReturn
  BY DEF OInv, Order, Trapping
<1>5. csr' = IF ~clint.we THEN csr
             ELSE CASE clint.waddr = "MEPC"   -> [csr EXCEPT !.mepc = clint.inst_addr]
                    [] clint.waddr = "MCAUSE" -> [csr EXCEPT !.mcause = clint.cause]
                    [] OTHER                  -> [csr EXCEPT !.mie = clint.mie]
  BY <1>1, <1>2 DEF CsrReg
<1>6. /\ clint'.csr_state = ClintState
      /\ ~Accepts => clint'.inst_addr = clint.inst_addr /\ clint'.cause = clint.cause
      /\ clint'.we <=> clint.csr_state # "IDLE"
      /\ clint'.waddr = clint.csr_state
      /\ clint'.mie <=> clint.csr_state = "MSTATUS_MRET" /\ csr.mpie
      /\ clint'.int_assert <=> clint.csr_state \in {"MCAUSE", "MSTATUS_MRET"}
      /\ clint'.int_addr = CASE clint.csr_state = "MCAUSE" -> Mtvec
                             [] clint.csr_state = "MSTATUS_MRET" -> csr.mepc
                             [] OTHER -> 0
  BY <1>1 DEF Clint
<1>7. ~Accepts
  BY <1>2 DEF Accepts
<1>8. CASE AtMepc
  <2>1. arch'.next = arch.next /\ arch'.taken = arch.taken
    BY <1>2, <1>8 DEF AtMepc
  <2>2. AtMstatus'
    BY <1>1, <1>6, <1>7, <1>8, <2>1 DEF AtMepc, AtMstatus, Cause, ClintState
  <2> QED
    BY <1>2, <2>2 DEF Running, Trapping, InTrap, AtMstatus
<1>9. CASE AtMstatus
  <2>1. arch'.next = arch.next /\ arch'.taken = arch.taken
    BY <1>2, <1>9 DEF AtMstatus
  <2>2. csr'.mepc = arch.next
    BY <1>3, <1>5, <1>9 DEF AtMstatus, CsrRegs
  <2>3. AtMcause'
    BY <1>1, <1>6, <1>7, <1>9, <2>1, <2>2 DEF AtMstatus, AtMcause, Cause, ClintState
  <2> QED
    BY <1>2, <2>3 DEF Running, Trapping, InTrap, AtMcause
<1>10. CASE AtMcause
  <2>1. arch'.next = arch.next /\ arch'.taken = arch.taken
    BY <1>2, <1>10 DEF AtMcause
  <2>2. csr'.mepc = arch.next /\ csr'.mie = clint.mie
    BY <1>3, <1>5, <1>10 DEF AtMcause, CsrRegs
  <2>3. csr'.mie = FALSE
    BY <1>10, <2>2 DEF AtMcause, OInv, IInv, Typed
  <2>4. AtTrap'
    BY <1>1, <1>6, <1>7, <1>10, <2>1, <2>2, <2>3 DEF AtMcause, AtTrap, Cause, ClintState
  <2> QED
    BY <1>2, <2>4 DEF Running, Trapping, InTrap, AtTrap
<1>11. CASE AtMret
  <2>1. /\ arch'.next = arch.next /\ arch'.taken = arch.taken /\ arch'.mepc = arch.mepc
        /\ csr' = csr
    BY <1>2, <1>5, <1>11 DEF AtMret
  <2>2. clint'.mie = csr.mpie
    BY <1>1, <1>3, <1>11 DEF AtMret, Clint, CsrRegs
  <2>3. AtReturn'
    BY <1>1, <1>6, <1>11, <2>1, <2>2 DEF AtMret, AtReturn, Returning, ClintState
  <2> QED
    BY <1>2, <2>3 DEF Running, Trapping, InTrap, AtReturn
<1>12. ASSUME AtTrap \/ AtReturn, pc' = arch'.next, CsrsAgree'
       PROVE  Running' /\ Trapping'
  <2>1. clint.csr_state = "IDLE"
    BY <1>12 DEF AtTrap, AtReturn
  <2>2. ~InTrap' /\ ~clint'.we
    BY <1>2, <1>6, <2>1 DEF InTrap, ClintState
  <2>3. Upcoming' = arch'.next
    BY <1>2 DEF Drained, Upcoming, Waiting
  <2> QED
    BY <1>2, <1>12, <2>2, <2>3, NopIsNoInst
       DEF Running, Trapping, ExAtNext, IdAtUpcoming, Drained
<1>13. CASE AtTrap
  <2>1. arch.taken # "MRET" /\ clint.int_assert /\ clint.int_addr = Mtvec
    BY <1>13 DEF AtTrap, Cause
  <2>2. arch'.next = Mtvec /\ arch'.mie = FALSE /\ arch'.mepc = arch.next
    BY <1>1, <1>2, <2>1 DEF Arch
  <2>3. csr'.mie = FALSE /\ csr'.mepc = arch.next
    BY <1>3, <1>5, <1>13 DEF AtTrap, CsrRegs
  <2> QED
    BY <1>2, <1>12, <1>13, <2>1, <2>2, <2>3 DEF CsrsAgree
<1>14. CASE AtReturn
  <2>1. arch.taken = "MRET" /\ clint.int_assert /\ clint.int_addr = arch.mepc
    BY <1>14 DEF AtReturn, Returning
  <2>2. arch'.next = arch.mepc /\ arch'.mie = csr.mpie /\ arch'.mepc = arch.mepc
    <3>1. csr.mpie \in BOOLEAN
      BY <1>3 DEF CsrRegs
    <3>2. ~Executes
      BY <2>1 DEF Executes
    <3> QED
      BY <1>1, <1>2, <2>1, <3>1, <3>2 DEF Arch
  <2>3. csr'.mie = csr.mpie /\ csr'.mepc = arch.mepc
    BY <1>3, <1>5, <1>14 DEF AtReturn, Returning, CsrRegs
  <2> QED
    BY <1>2, <1>12, <1>14, <2>1, <2>2, <2>3 DEF CsrsAgree
<1> QED
  BY <1>4, <1>8, <1>9, <1>10, <1>11, <1>13, <1>14

-----------------------------------------------------------------------------
(* The debugger: a halt keeps ID empty, and a move of pc finds the hart at *)
(* rest and lasts one clock.                                               *)
LEMMA HeldStep ==
  ASSUME OInv, NEW int_i \in IntInputs, Clock(int_i),
         dm'.reset => AtRest /\ IntState = "IDLE" /\ ~int_i
  PROVE  Held'
<1>1. IfId(int_i) /\ IdEx /\ Clint /\ Div /\ Dm
  BY DEF Clock
<1>2. Held /\ IInv
  BY DEF OInv, Order
<1>3. dm \in DmRegs
  BY <1>2 DEF IInv, Typed
<1>4. dm'.halt => if_id'.inst = Nop
  <2>1. SUFFICES ASSUME dm'.halt PROVE if_id'.inst = Nop
    OBVIOUS
  <2>2. dm.halt \/ dm.phase = "rx"
    BY <1>1, <1>3, <2>1
       DEF DmRegs, Dm, DmQuiet, DmArrives, DmReadsStatus, DmDecodes, DmResponds
  <2>3. HoldFlag = "Id" \/ HoldRib
    BY <2>2 DEF HoldFlag, HoldRib, DmReq
  <2> QED
    BY <1>1, <2>3 DEF IfId, Fetched
<1>5. ASSUME dm'.reset
      PROVE  dm'.phase = "resp" /\ Drained' /\ ~InTrap' /\ ~if_id'.int_flag
  <2>1. AtRest /\ IntState = "IDLE" /\ ~int_i
    BY <1>5
  <2>2. dm'.phase = "resp"
    <3>1. dm.phase = "rx"
      BY <1>1, <1>2, <1>3, <1>5
         DEF Held, DmRegs, Dm, DmQuiet, DmArrives, DmReadsStatus, DmDecodes, DmResponds
    <3> QED
      BY <1>1, <3>1 DEF Dm, DmQuiet, DmArrives, DmReadsStatus, DmDecodes, DmResponds
  <2>3. Drained'
    BY <1>2, <2>1, DrainedStep DEF AtRest
  <2>4. ~InTrap'
    BY <1>1, <2>1 DEF AtRest, TrapIdle, Clint, ClintState, InTrap
  <2>5. ~if_id'.int_flag
    BY <1>1, <2>1 DEF IfId
  <2> QED
    BY <2>2, <2>3, <2>4, <2>5
<1> QED
  BY <1>4, <1>5 DEF Held

(* The clock in which pc is moved.                                         *)
LEMMA ResetStep ==
  ASSUME OInv, dm.reset, NEW int_i \in IntInputs, ~int_i, Clock(int_i)
  PROVE  ~InTrap' /\ Running'
<1>1. /\ rom' = rom /\ PcReg /\ IfId(int_i) /\ IdEx /\ Clint
      /\ CsrReg /\ Div /\ Arch
  BY DEF Clock
<1>2. dm.phase = "resp" /\ Drained /\ ~InTrap /\ ~if_id.int_flag /\ IInv
  BY DEF OInv, Order, Held
<1>3. IntState = "IDLE"
  BY <1>2, NopIsNoInst DEF Drained, IntState, SyncOps
<1>4. HoldRib /\ ~DivStart
  BY <1>2, NopIsNoInst DEF HoldRib, DmReq, DivStart, InEx, Drained
<1>5. if_id'.inst = Nop /\ ~if_id'.int_flag
  BY <1>1, <1>4 DEF IfId, Fetched
<1>6. id_ex'.inst = Nop
  BY <1>1, <1>2, IdExStep DEF Drained, EmptyEx
<1>7. ~div'.busy /\ ~div'.ready
  BY <1>1, <1>2, <1>4, DivGoesOn
<1>8. ~InTrap' /\ ~clint'.we
  BY <1>1, <1>2, <1>3 DEF Clint, ClintState, InTrap
<1>9. pc' = 0 /\ arch'.next = 0
  BY <1>1 DEF PcReg, Arch
<1>10. CsrsAgree'
  BY <1>1, <1>2, CsrsAdvance
<1> QED
  BY <1>5, <1>6, <1>7, <1>8, <1>9, <1>10
     DEF Running, ExAtNext, IdAtUpcoming, Upcoming, Waiting

LEMMA StepOrder == OInv /\ [CoreNext]_vars => OInv'
<1> SUFFICES ASSUME OInv, [CoreNext]_vars PROVE OInv'
  OBVIOUS
<1>1. CASE CoreNext
  <2>1. PICK int_i \in IntInputs :
          /\ int_i => DivFree(rom) /\ ~dm.reset
          /\ Clock(int_i)
          /\ dm'.reset => AtRest /\ IntState = "IDLE" /\ ~int_i
    BY <1>1 DEF CoreNext
  <2>2. IInv'
    BY <2>1, StepIInv DEF OInv, Next
  <2>3. Orderly'
    <3>1. rom' = rom
      BY <2>1 DEF Clock
    <3> QED
      BY <3>1 DEF OInv, Order, Orderly, ShadowFree, ReturnFree
  <2>4. Held'
    BY <2>1, HeldStep
  <2>5. Running' /\ Trapping'
    <3>1. CASE InTrap
      BY <2>1, <3>1, TrapStep
    <3>2. CASE dm.reset
      BY <2>1, <3>2, ResetStep DEF Trapping
    <3>3. CASE ~InTrap /\ ~dm.reset /\ IntState = "IDLE"
      BY <2>1, <3>3, RunningStep DEF Trapping
    <3>4. CASE ~InTrap /\ ~dm.reset /\ IntState # "IDLE"
      BY <2>1, <3>4, AcceptStep DEF Running
    <3> QED
      BY <3>1, <3>2, <3>3, <3>4
  <2> QED
    BY <2>2, <2>3, <2>4, <2>5 DEF OInv, Order
<1>2. CASE UNCHANGED vars
  <2>1. IInv'
    BY <1>2, StepIInv DEF OInv
  <2>2. Orderly'
    BY <1>2 DEF vars, OInv, Order, Orderly, ShadowFree, ReturnFree
  <2>3. Running'
    BY <1>2 DEF vars, OInv, Order, Running, InTrap, ExAtNext, IdAtUpcoming, Upcoming,
                Waiting, CsrsAgree, Succ, DivFree
  <2>4. Held'
    BY <1>2 DEF vars, OInv, Order, Held, Drained, InTrap
  <2>5. Trapping'
    BY <1>2 DEF vars, OInv, Order, Trapping, InTrap, Drained, AtMepc, AtMstatus, AtMcause,
                AtTrap, AtMret, AtReturn, Cause, Returning, CsrsAgree
  <2> QED
    BY <2>1, <2>2, <2>3, <2>4, <2>5 DEF OInv, Order
<1> QED
  BY <1>1, <1>2

THEOREM OrderIsInvariant == CoreSpec => []OInv
  BY InitOrder, StepOrder, PTL DEF CoreSpec

-----------------------------------------------------------------------------
(* The pipeline executes the program: whatever reaches EX is the next      *)
(* instruction, and a quotient is written when that is a division          *)
(* (ctrl.v:48-66, pc_reg.v:35-49, if_id.v:38-50, id_ex.v:57-109).          *)
THEOREM ProgramOrder == CoreSpec => []InOrder
<1>1. OInv => InOrder
  <2> SUFFICES ASSUME OInv, ~clint.int_assert PROVE
         /\ id_ex.inst.op # "nop" => /\ id_ex.addr = arch.next
                                     /\ id_ex.inst = rom[arch.next]
         /\ DivWrites => rom[arch.next].op = "div"
    BY DEF InOrder
  <2>1. CASE InTrap
    BY <2>1, NopIsNoInst DEF OInv, Order, Trapping, Drained, DivWrites
  <2>2. CASE ~InTrap
    BY <2>2, NopIsNoInst DEF OInv, Order, Running, ExAtNext, DivWrites
  <2> QED
    BY <2>1, <2>2
<1> QED
  BY <1>1, OrderIsInvariant, PTL

(* Traps are precise: mepc and the cause are those of the next instruction *)
(* of the program, and a return goes to mepc (clint.v:110-240).            *)
THEOREM TrapsArePrecise == CoreSpec => []PreciseTraps
<1>1. OInv => PreciseTraps
  <2> SUFFICES ASSUME OInv, clint.int_assert PROVE PreciseTraps
    BY DEF PreciseTraps
  <2>1. AtTrap \/ AtReturn
    BY DEF OInv, Order, Trapping, InTrap, AtMepc, AtMstatus, AtMcause, AtMret
  <2> QED
    BY <2>1 DEF AtTrap, AtReturn, Cause, Returning, PreciseTraps
<1> QED
  BY <1>1, OrderIsInvariant, PTL

(* Between traps mstatus.MIE and mepc are those of the instruction-set     *)
(* machine (csr_reg.v:84-136, clint.v:176-215).                            *)
THEOREM CsrsAreArchitectural == CoreSpec => []CsrsFollow
<1>1. OInv => CsrsFollow
  <2> SUFFICES ASSUME OInv, TrapIdle PROVE CsrsAgree
    BY DEF CsrsFollow, CsrsAgree
  <2>1. ~InTrap
    BY DEF OInv, Order, Trapping, TrapIdle, AtMepc, AtMstatus, AtMcause, AtTrap,
           AtMret, AtReturn
  <2> QED
    BY <2>1 DEF OInv, Order, Running
<1> QED
  BY <1>1, OrderIsInvariant, PTL

(* A division that the divider has accepted runs to its result             *)
(* (div.v:152-158, 175-181, 201-206).                                      *)
THEOREM DivisionsFinish == CoreSpec => DivNotAborted
<1>1. OInv /\ [CoreNext]_vars => [div.busy => div'.busy \/ div'.ready]_vars
  <2> SUFFICES ASSUME OInv, CoreNext, div.busy PROVE div'.busy \/ div'.ready
    BY DEF vars
  <2>1. ~clint.int_assert
    BY DEF OInv, Order, Trapping, InTrap, Drained
  <2>2. DivStart
    BY <2>1 DEF DivStart
  <2>3. Div
    BY DEF CoreNext, Clock
  <2> QED
    BY <2>2, <2>3, DivGoesOn DEF OInv
<1> QED
  BY <1>1, OrderIsInvariant, PTL DEF CoreSpec, DivNotAborted

-----------------------------------------------------------------------------
(* clint masks an interrupt with the mstatus of the clock in which it is   *)
(* accepted, when EX may be clearing MIE: a program that never does so is  *)
(* interrupted only where it has interrupts enabled.                       *)
Enabled == /\ ClearFree(rom)
           /\ InTrap /\ arch.taken = "ASYNC" => arch.mie

LEMMA InitEnabled == CoreInit /\ ClearFree(rom) => Enabled
<1> SUFFICES ASSUME CoreInit, ClearFree(rom) PROVE Enabled
  OBVIOUS
<1>1. ~InTrap
  BY DEF CoreInit, Init, InTrap
<1> QED
  BY <1>1 DEF Enabled

LEMMA EnabledStep == OInv /\ Enabled /\ [CoreNext]_vars => Enabled'
<1> SUFFICES ASSUME OInv, Enabled, [CoreNext]_vars PROVE Enabled'
  OBVIOUS
<1>1. CASE CoreNext
  <2>1. PICK int_i \in IntInputs :
          /\ int_i => DivFree(rom) /\ ~dm.reset
          /\ Clock(int_i)
          /\ dm'.reset => AtRest /\ IntState = "IDLE" /\ ~int_i
    BY <1>1 DEF CoreNext
  <2>2. rom' = rom /\ Clint /\ Arch
    BY <2>1 DEF Clock
  <2>3. ClearFree(rom)'
    BY <2>2 DEF Enabled, ClearFree
  <2>4. ASSUME InTrap', arch'.taken = "ASYNC" PROVE arch'.mie
    <3>1. CASE InTrap
      <4>1. ~clint.int_assert
        <5>1. clint.int_assert => clint.csr_state = "IDLE"
          BY <3>1 DEF OInv, Order, Trapping, AtMepc, AtMstatus, AtMcause, AtTrap,
                      AtMret, AtReturn
        <5>2. IntState = "IDLE"
          BY <2>1, <3>1, TrapIsAlone
        <5> QED
          BY <2>2, <2>4, <5>1, <5>2 DEF Clint, ClintState, InTrap
      <4> QED
        BY <2>1, <2>4, <3>1, <4>1, TrapIsAlone DEF Enabled
    <3>2. CASE ~InTrap
      <4>1. ~dm.reset /\ IntState # "IDLE"
        BY <2>1, <2>4, <3>2, ResetStep, RunningStep
      <4>2. IntState = "ASYNC"
        BY <2>2, <2>4, <3>2, <4>1 DEF Arch, InTrap
      <4>3. arch.mie
        BY <3>2, <4>2 DEF IntState, OInv, Order, Running, CsrsAgree
      <4>4. rom[arch.next].op # "csrc"
        BY DEF OInv, IInv, TypeOK, Enabled, ClearFree
      <4> QED
        BY <2>2, <3>2, <4>3, <4>4 DEF Arch, InTrap
    <3> QED
      BY <3>1, <3>2
  <2> QED
    BY <2>3, <2>4 DEF Enabled
<1>2. CASE UNCHANGED vars
  BY <1>2 DEF vars, Enabled, ClearFree, InTrap
<1> QED
  BY <1>1, <1>2

(* An interrupt is taken only if the program has interrupts enabled at     *)
(* that point (clint.v:99-101).                                            *)
THEOREM InterruptsAreEnabled ==
  CoreSpec /\ ClearFree(rom) => []InterruptsOnlyIfEnabled
<1>1. Enabled => InterruptsOnlyIfEnabled
  BY DEF Enabled, InterruptsOnlyIfEnabled, InTrap
<1> QED
  BY <1>1, InitEnabled, EnabledStep, OrderIsInvariant, PTL DEF CoreSpec

-----------------------------------------------------------------------------
(* The refinement: each clock of the core is one step of the machine that  *)
(* software sees, or none.                                                 *)

LEMMA InstInIsa ==
  ASSUME OInv
  PROVE  rom[arch.next] \in Insts /\ arch.next \in Addrs /\ Machine!Inst = rom[arch.next]
         /\ Machine!Behind = Succ(arch.next)
  BY DEF OInv, IInv, TypeOK, Machine!Inst, Machine!Behind, Succ

(* The instruction that EX executes, or the division that ends.            *)
LEMMA ExecuteRefines ==
  ASSUME OInv, ~InTrap, ~dm.reset, Executes, CsrReg, Arch, rom' = rom
  PROVE  Machine!Next
<1> DEFINE inst == rom[arch.next]
<1>1. csr' = IF CsrWe THEN CsrWritten ELSE csr
  BY ExHolds DEF CsrReg
<1>2. csr'.mpie = csr.mpie /\ csr'.mcause = csr.mcause
  BY <1>1 DEF OInv, IInv, Typed, CsrFresh, CsrWritten, CsrRegs
<1>3. inst.op \in JumpOps \cup CsrOps \cup PlainOps \cup {"div"}
  <2>1. CASE DivWrites
    BY <2>1 DEF DivWrites, OInv, Order, Running, ExAtNext
  <2>2. CASE InEx(JumpOps \cup CsrOps \cup PlainOps)
    BY <2>2, ExHolds, NopIsNoInst DEF InEx, JumpOps, CsrOps, PlainOps
  <2> QED
    BY <2>1, <2>2 DEF Executes
<1>4. /\ arch'.next = ArchNext(inst)
      /\ arch'.mie = IF inst.op \in {"csrs", "csrc"} THEN inst.op = "csrs" ELSE arch.mie
      /\ arch'.mepc = IF inst.op = "epc" THEN Succ(arch.mepc) ELSE arch.mepc
  BY ExHolds DEF Arch
<1>5. UNCHANGED <<rom, csr.mpie, csr.mcause>>
  BY <1>2
<1>6. CASE inst.op \in {"alu", "mem", "div"}
  <2>1. Machine!Plain
    BY <1>2, <1>4, <1>6, InstInIsa DEF Machine!Plain, ArchNext
  <2> QED
    BY <1>5, <2>1 DEF Machine!Next
<1>7. CASE inst.op = "jmp"
  <2>1. Machine!Jump
    BY <1>2, <1>4, <1>7, InstInIsa DEF Machine!Jump, ArchNext
  <2> QED
    BY <1>5, <2>1 DEF Machine!Next
<1>8. CASE inst.op = "br"
  <2>1. Machine!Branch
    BY <1>2, <1>4, <1>8, InstInIsa DEF Machine!Branch, ArchNext
  <2> QED
    BY <1>5, <2>1 DEF Machine!Next
<1>9. CASE inst.op \in {"csrs", "csrc"}
  <2>1. Machine!WriteMie
    BY <1>2, <1>4, <1>9, InstInIsa DEF Machine!WriteMie, ArchNext
  <2> QED
    BY <1>5, <2>1 DEF Machine!Next
<1>10. CASE inst.op = "epc"
  <2>1. Machine!StepMepc
    BY <1>2, <1>4, <1>10, InstInIsa DEF Machine!StepMepc, ArchNext, Succ
  <2> QED
    BY <1>5, <2>1 DEF Machine!Next
<1> QED
  BY <1>3, <1>6, <1>7, <1>8, <1>9, <1>10 DEF JumpOps, CsrOps, PlainOps

(* The other clocks of the running pipeline.                               *)
LEMMA IdleRefines ==
  ASSUME OInv, ~InTrap, ~Executes, ~dm.reset, CsrReg, Arch, rom' = rom
  PROVE  UNCHANGED Machine!vars
<1>1. ~CsrWe
  BY ExHolds DEF Executes, CsrWe, InEx
<1>2. csr' = csr
  BY <1>1, ExHolds DEF CsrReg
<1>3. arch'.next = arch.next /\ arch'.mie = arch.mie /\ arch'.mepc = arch.mepc
  BY ExHolds DEF Arch
<1> QED
  BY <1>2, <1>3 DEF Machine!vars

(* The clock in which the debugger moves pc.                               *)
LEMMA ResetRefines ==
  ASSUME OInv, dm.reset, CsrReg, Arch, rom' = rom
  PROVE  Machine!Next
<1>1. Drained /\ ~InTrap
  BY DEF OInv, Order, Held
<1>2. ~Executes /\ ~CsrWe
  BY <1>1, NopIsNoInst
     DEF Drained, Executes, CsrWe, InEx, DivWrites, JumpOps, CsrOps, PlainOps
<1>3. csr' = csr
  BY <1>1, <1>2, ExHolds DEF CsrReg
<1>4. arch'.next = 0 /\ arch'.mie = arch.mie /\ arch'.mepc = arch.mepc
  BY <1>1, <1>2, ExHolds DEF Arch
<1>5. Machine!DebugStart
  BY <1>3, <1>4 DEF Machine!DebugStart
<1> QED
  BY <1>3, <1>5 DEF Machine!Next

(* The clocks in which clint works: only the last one is seen.             *)
LEMMA TrapRefines ==
  ASSUME OInv, Enabled, InTrap, NEW int_i \in IntInputs, Clock(int_i)
  PROVE  Machine!Next \/ UNCHANGED Machine!vars
<1>1. rom' = rom /\ CsrReg /\ Arch
  BY DEF Clock
<1>2. /\ ~CsrWe /\ ~dm.reset
      /\ ~clint.int_assert => arch' = [next |-> arch.next, mie |-> arch.mie,
                                      mepc |-> arch.mepc, taken |-> arch.taken]
  BY TrapIsAlone
<1>3. csr \in CsrRegs
  BY DEF OInv, IInv, Typed
<1>4. csr' = IF ~clint.we THEN csr
             ELSE CASE clint.waddr = "MEPC"   -> [csr EXCEPT !.mepc = clint.inst_addr]
                    [] clint.waddr = "MCAUSE" -> [csr EXCEPT !.mcause = clint.cause]
                    [] OTHER                  -> [csr EXCEPT !.mie = clint.mie]
  BY <1>1, <1>2 DEF CsrReg
<1>5. csr'.mpie = csr.mpie
  BY <1>3, <1>4 DEF CsrRegs
<1>6. CASE ~clint.int_assert
  <2>1. csr'.mcause = csr.mcause
    BY <1>3, <1>4, <1>6
       DEF CsrRegs, OInv, Order, Trapping, AtMepc, AtMstatus, AtMcause, AtTrap,
           AtMret, AtReturn
  <2> QED
    BY <1>1, <1>2, <1>5, <1>6, <2>1 DEF Machine!vars
<1>7. CASE clint.int_assert
  <2>1. AtTrap \/ AtReturn
    BY <1>7 DEF OInv, Order, Trapping, AtMepc, AtMstatus, AtMcause, AtMret
  <2>2. CASE AtTrap
    <3>1. arch.taken # "MRET"
      BY <2>2 DEF AtTrap, Cause
    <3>2. arch'.next = Mtvec /\ arch'.mie = FALSE /\ arch'.mepc = arch.next
      BY <1>1, <1>2, <1>7, <3>1 DEF Arch
    <3>3. csr'.mcause = clint.cause
      BY <1>3, <1>4, <2>2 DEF AtTrap, CsrRegs
    <3>4. Machine!Trap(clint.cause)
      BY <3>2, <3>3 DEF Machine!Trap
    <3>5. CASE arch.taken = "ASYNC"
      <4>1. Machine!Interrupt
        BY <2>2, <3>4, <3>5 DEF Machine!Interrupt, Enabled, AtTrap, Cause
      <4> QED
        BY <1>1, <1>5, <4>1 DEF Machine!Next
    <3>6. CASE arch.taken = "SYNC"
      <4>1. Machine!Call
        BY <2>2, <3>4, <3>6, InstInIsa DEF Machine!Call, AtTrap, Cause, SyncOps
      <4> QED
        BY <1>1, <1>5, <4>1 DEF Machine!Next
    <3> QED
      BY <2>2, <3>5, <3>6 DEF AtTrap, Cause
  <2>3. CASE AtReturn
    <3>1. arch.taken = "MRET" /\ rom[arch.next].op = "mret"
      BY <2>3 DEF AtReturn, Returning
    <3>2. csr.mpie \in BOOLEAN /\ csr'.mcause = csr.mcause
      BY <1>3, <1>4, <2>3 DEF AtReturn, CsrRegs
    <3>3. ~Executes
      BY <1>7 DEF Executes
    <3>4. arch'.next = arch.mepc /\ arch'.mie = csr.mpie /\ arch'.mepc = arch.mepc
      BY <1>1, <1>2, <1>7, <3>1, <3>2, <3>3 DEF Arch
    <3>5. Machine!Return
      BY <3>1, <3>2, <3>4, InstInIsa DEF Machine!Return
    <3> QED
      BY <1>1, <1>5, <3>5 DEF Machine!Next
  <2> QED
    BY <2>1, <2>2, <2>3
<1> QED
  BY <1>6, <1>7

(* The core implements TinyIsa: what pipeline, divider, bus, clint and     *)
(* debugger do together is one instruction, trap, interrupt or return      *)
(* after another (tinyriscv.v:142-369).                                    *)
THEOREM CoreImplementsIsa == CoreSpec /\ ClearFree(rom) => ImplementsIsa
<1>1. CoreInit => Machine!Init
  <2> SUFFICES ASSUME CoreInit PROVE Machine!Init
    OBVIOUS
  <2>1. PICK e \in BOOLEAN : csr = [ResetCsr EXCEPT !.mie = e, !.mpie = TRUE]
    BY DEF CoreInit, Init
  <2>2. csr.mie = e /\ csr.mpie = TRUE /\ csr.mepc = 0 /\ csr.mcause = "none"
    BY <2>1 DEF ResetCsr
  <2>3. arch = [next |-> 0, mie |-> csr.mie, mepc |-> csr.mepc, taken |-> "IDLE"]
    BY DEF CoreInit, Init
  <2> QED
    BY <2>2, <2>3 DEF Machine!Init
<1>2. OInv /\ Enabled /\ [CoreNext]_vars => [Machine!Next]_(Machine!vars)
  <2> SUFFICES ASSUME OInv, Enabled, [CoreNext]_vars
               PROVE  Machine!Next \/ UNCHANGED Machine!vars
    OBVIOUS
  <2>1. CASE UNCHANGED vars
    BY <2>1 DEF vars, Machine!vars
  <2>2. CASE CoreNext
    <3>1. PICK int_i \in IntInputs : Clock(int_i)
      BY <2>2 DEF CoreNext
    <3>2. rom' = rom /\ CsrReg /\ Arch
      BY <3>1 DEF Clock
    <3> QED
      BY <3>1, <3>2, TrapRefines, ResetRefines, ExecuteRefines, IdleRefines
  <2> QED
    BY <2>1, <2>2
<1> QED
  BY <1>1, <1>2, InitEnabled, EnabledStep, OrderIsInvariant, PTL
     DEF CoreSpec, ImplementsIsa, Machine!Spec
=============================================================================
