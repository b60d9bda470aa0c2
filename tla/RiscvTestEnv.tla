---------------------------- MODULE RiscvTestEnv ----------------------------
(***************************************************************************)
(* The environment of the RISC-V tests of the N101 (riscv_test.h_simple.h, *)
(* and riscv_test.h_wait_pll.h, which also sets up the PLL): reset, the    *)
(* trap vector and its handlers, and the report to the host, under the     *)
(* interrupts that the test bench raises at random moments.                *)
(*                                                                         *)
(* A step is an instruction, or the instructions up to the next that can   *)
(* be told apart; where interrupts are off a handler is a few steps.  Of   *)
(* the registers there are those that a handler touches; "env" is any      *)
(* value of the environment's own.                                         *)
(***************************************************************************)
EXTENDS Integers, Sequences

CONSTANTS
  LastCase,     \* the test cases are numbered 2 .. LastCase
  TestRegs,     \* what a test may have in the registers
  MaxTraps      \* bound: the test bench stops raising interrupts

(* The registers, and what can be told apart in them.                      *)
Regs == [{"a0", "a1", "t5", "t6"} -> {"env", "tohost", "x", "y"}]

RiscvTestEnvAssumption ==
  /\ LastCase \in Nat /\ LastCase >= 2 /\ MaxTraps \in Nat
  /\ TestRegs # {} /\ TestRegs \subseteq Regs

VARIABLES
  env,      \* the variant: with the PLL, the test's own mtvec_handler, its stvec_handler
  pc, csr, regs,
  saved,    \* test_trap_data
  gp,       \* TESTNUM
  tohost,
  pll,      \* the next step of the set-up, the bypass bit, and whether it has just waited
  snap,     \* history: pc and registers at the last trap
  verdict,  \* history: what the test has come to, 0 before
  traps

vars == <<env, pc, csr, regs, saved, gp, tohost, pll, snap, verdict, traps>>

Irqs == {"sft_irq", "tmr_irq", "ext_irq"}
BusErrors == {"ifetch_error", "load_error", "store_error"}

(* TESTNUM with 1337 or-ed in: above the number of every case.             *)
Crashed == 1337 + gp

Jump(from, to) == pc = from /\ pc' = to
Env(rs) == [r \in DOMAIN regs |-> IF r \in rs THEN "env" ELSE regs[r]]

-----------------------------------------------------------------------------
(* What the processor does at a trap and at mret.                          *)
Trap(cause, at) ==
  /\ csr' = [csr EXCEPT !.mepc = at, !.mcause = cause, !.mpie = csr.mie, !.mie = FALSE]
  /\ pc' = csr.mtvec
  /\ snap' = [pc |-> at, regs |-> regs]
  /\ UNCHANGED <<env, regs, saved, gp, tohost, pll>>

Mret ==
  /\ pc \in {"mret_reset", "mret", "mret_own"} /\ pc' = csr.mepc
  /\ csr' = [csr EXCEPT !.mie = csr.mpie, !.mpie = TRUE]
  /\ UNCHANGED <<env, regs, saved, gp, tohost, pll, snap, verdict, traps>>

(* The test bench raises its lines once mtvec has been written.            *)
Interrupt ==
  /\ csr.mie /\ csr.ie /\ csr.mtvec = "trap_vector" /\ traps < MaxTraps
  /\ \E irq \in Irqs : Trap(irq, pc)
  /\ traps' = traps + 1 /\ UNCHANGED verdict

-----------------------------------------------------------------------------
(* Reset.                                                                  *)
EnableMie ==
  /\ Jump("reset_vector", "mie") /\ gp' = 0
  /\ csr' = [csr EXCEPT !.mie = TRUE] /\ regs' = Env({"a0"})
  /\ UNCHANGED <<env, saved, tohost, pll, snap, verdict, traps>>

EnableAll ==
  /\ Jump("mie", "mtvec") /\ csr' = [csr EXCEPT !.ie = TRUE]
  /\ UNCHANGED <<env, regs, saved, gp, tohost, pll, snap, verdict, traps>>

SetMtvec ==
  /\ Jump("mtvec", "post_mtvec") /\ csr' = [csr EXCEPT !.mtvec = "trap_vector"]
  /\ UNCHANGED <<env, regs, saved, gp, tohost, pll, snap, verdict, traps>>

(* Exceptions are delegated if the test has a handler for them; a          *)
(* processor that does not keep medeleg ends the test.                     *)
Delegate ==
  /\ \/ env.stvec # "refused" /\ Jump("post_mtvec", "mstatus") /\ UNCHANGED <<gp, verdict>>
     \/ env.stvec = "refused" /\ Jump("post_mtvec", "write_tohost")
        /\ gp' = Crashed /\ verdict' = Crashed
  /\ UNCHANGED <<env, csr, regs, saved, tohost, pll, snap, traps>>

(* csrwi mstatus, 0: from here to mret no interrupt can take mepc.         *)
Masked == FALSE

ClearMstatus ==
  /\ Jump("mstatus", "mpie")
  /\ csr' = [csr EXCEPT !.mie = Masked, !.mpie = FALSE]
  /\ UNCHANGED <<env, regs, saved, gp, tohost, pll, snap, verdict, traps>>

SetMpie ==
  /\ Jump("mpie", IF env.pll THEN "pll" ELSE "mepc")
  /\ csr' = [csr EXCEPT !.mpie = TRUE] /\ regs' = Env({"a0"})
  /\ UNCHANGED <<env, saved, gp, tohost, pll, snap, verdict, traps>>

PllSteps == <<"wait", "use", "wait", "bypass", "N", "M", "wait", "use", "wait", "div">>

SetUpPll ==
  /\ pc = "pll"
  /\ LET step == PllSteps[pll.next]
     IN pll' = [next |-> pll.next + 1,
                bypass |-> IF step \in {"use", "bypass"} THEN step = "bypass" ELSE pll.bypass,
                waited |-> step = "wait"]
  /\ pc' = IF pll.next = Len(PllSteps) THEN "mepc" ELSE "pll"
  /\ UNCHANGED <<env, csr, regs, saved, gp, tohost, snap, verdict, traps>>

EnterTest ==
  /\ Jump("mepc", "mret_reset") /\ csr' = [csr EXCEPT !.mepc = "test"] /\ regs' = Env({"a0"})
  /\ UNCHANGED <<env, saved, gp, tohost, pll, snap, verdict, traps>>

-----------------------------------------------------------------------------
(* The test: its cases, the exceptions it causes, and its end.             *)
Case ==
  /\ pc = "test" /\ gp < LastCase /\ regs' \in TestRegs
  /\ gp' = IF gp = 0 THEN 2 ELSE gp + 1
  /\ UNCHANGED <<env, pc, csr, saved, tohost, pll, snap, verdict, traps>>

Continue ==
  /\ Jump("more", "test")
  /\ UNCHANGED <<env, csr, regs, saved, gp, tohost, pll, snap, verdict, traps>>

Except ==
  /\ pc = "test" /\ gp # 0 /\ traps < MaxTraps /\ traps' = traps + 1
  /\ \E cause \in {"breakpoint", "illegal"} \cup BusErrors :
       /\ Trap(cause, "test")
       /\ verdict' = IF cause = "illegal" /\ ~env.own THEN Crashed ELSE verdict

(* RVTEST_PASS and RVTEST_FAIL.                                            *)
Pass ==
  /\ gp = LastCase /\ Jump("test", "ecall") /\ gp' = 1 /\ verdict' = 1
  /\ UNCHANGED <<env, csr, regs, saved, tohost, pll, snap, traps>>

Fail ==
  /\ pc \in {"test", "own"} /\ gp # 0 /\ pc' = "sll" /\ verdict' = 2 * gp + 1
  /\ UNCHANGED <<env, csr, regs, saved, gp, tohost, pll, snap, traps>>

FailNumber ==
  /\ \/ Jump("sll", "or") /\ gp' = 2 * gp
     \/ Jump("or", "ecall") /\ gp' = gp + 1
  /\ UNCHANGED <<env, csr, regs, saved, tohost, pll, snap, verdict, traps>>

Ecall == pc = "ecall" /\ Trap("ecall", "ecall") /\ UNCHANGED <<verdict, traps>>

(* mtvec_handler of the test returns behind the instruction, or ends it.   *)
OwnHandler ==
  /\ Jump("own", "mret_own") /\ regs' \in TestRegs /\ csr' = [csr EXCEPT !.mepc = "more"]
  /\ UNCHANGED <<env, saved, gp, tohost, pll, snap, verdict, traps>>

-----------------------------------------------------------------------------
(* The trap vector: save, and branch by the cause.                         *)
Save ==
  /\ Jump("trap_vector", "mcause")
  /\ csr' = [csr EXCEPT !.mscratch = regs.a0]
  /\ saved' = [t5 |-> regs.t5, t6 |-> regs.t6] /\ regs' = Env({"a0"})
  /\ UNCHANGED <<env, gp, tohost, pll, snap, verdict, traps>>

HandlerOf(cause) ==
  CASE cause = "ecall" -> "write_tohost"
    [] cause \in Irqs \cup BusErrors -> "restore"
    [] cause = "breakpoint" -> "ebreak"
    [] OTHER -> IF env.own THEN "own" ELSE "write_tohost"

Branch ==
  /\ Jump("mcause", HandlerOf(csr.mcause)) /\ regs' = Env({"a0", "t5", "t6"})
  /\ gp' = IF csr.mcause = "illegal" /\ ~env.own THEN Crashed ELSE gp
  /\ UNCHANGED <<env, csr, saved, tohost, pll, snap, verdict, traps>>

Restored == [regs EXCEPT !.a0 = csr.mscratch, !.t5 = saved.t5, !.t6 = saved.t6]

Restore ==
  /\ Jump("restore", "mret") /\ regs' = Restored
  /\ UNCHANGED <<env, csr, saved, gp, tohost, pll, snap, verdict, traps>>

(* The handler of ebreak returns behind it, and has a1 for that.           *)
StepOver ==
  /\ Jump("ebreak", "mret")
  /\ regs' = [Restored EXCEPT !.a1 = "env"] /\ csr' = [csr EXCEPT !.mepc = "more"]
  /\ UNCHANGED <<env, saved, gp, tohost, pll, snap, verdict, traps>>

-----------------------------------------------------------------------------
(* write_tohost: a loop with interrupts on.  The store takes its address   *)
(* from t5, which an instruction before has made.                          *)
WriteTohost ==
  /\ Jump("write_tohost", "la") /\ csr' = [csr EXCEPT !.mie = TRUE] /\ regs' = Env({"a0"})
  /\ UNCHANGED <<env, saved, gp, tohost, pll, snap, verdict, traps>>

Address ==
  /\ Jump("la", "sw") /\ regs' = [regs EXCEPT !.t5 = "tohost"]
  /\ UNCHANGED <<env, csr, saved, gp, tohost, pll, snap, verdict, traps>>

Store ==
  /\ Jump("sw", "write_tohost")
  /\ tohost' = IF regs.t5 = "tohost" THEN gp ELSE tohost
  /\ UNCHANGED <<env, csr, regs, saved, gp, pll, snap, verdict, traps>>

-----------------------------------------------------------------------------
Init ==
  /\ env \in [pll : BOOLEAN, own : BOOLEAN, stvec : {"none", "refused"}]
  /\ pc = "reset_vector"
  /\ csr = [mie |-> FALSE, mpie |-> FALSE, ie |-> FALSE, mtvec |-> "none",
            mepc |-> "none", mcause |-> "none", mscratch |-> "env"]
  /\ regs = [r \in {"a0", "a1", "t5", "t6"} |-> "env"]
  /\ saved = [t5 |-> "env", t6 |-> "env"]
  /\ gp = 0 /\ tohost = 0 /\ verdict = 0 /\ traps = 0
  /\ pll = [next |-> 1, bypass |-> TRUE, waited |-> FALSE]
  /\ snap = [pc |-> "none", regs |-> regs]

Reset == \/ EnableMie \/ EnableAll \/ SetMtvec \/ Delegate \/ ClearMstatus \/ SetMpie
         \/ SetUpPll \/ EnterTest
Test == Case \/ Continue \/ Except \/ Pass \/ Fail \/ FailNumber \/ Ecall \/ OwnHandler
Handle == Save \/ Branch \/ Restore \/ StepOver \/ Mret
Report == WriteTohost \/ Address \/ Store

Next == Interrupt \/ Reset \/ Test \/ Handle \/ Report

Spec == Init /\ [][Next]_vars /\ WF_vars(Next)

-----------------------------------------------------------------------------
TypeOK ==
  /\ csr.mie \in BOOLEAN /\ csr.mpie \in BOOLEAN /\ csr.ie \in BOOLEAN
  /\ regs \in Regs
  /\ gp \in Nat /\ tohost \in Nat /\ traps \in 0 .. MaxTraps

(* What was interrupted goes on where it was, with the registers it had;   *)
(* only an ebreak goes on behind, and costs a1                             *)
(* (riscv_test.h_simple.h:118-133, 185-252).                               *)
TrapsAreTransparent ==
  pc = "mret" =>
    /\ csr.mpie
    /\ IF csr.mcause = "breakpoint"
       THEN csr.mepc = "more" /\ \A r \in {"a0", "t5", "t6"} : regs[r] = snap.regs[r]
       ELSE csr.mepc = snap.pc /\ regs = snap.regs

(* Reset comes to the test, whatever interrupts come on its way; the store *)
(* of the report never goes elsewhere (253-300, 177-183).                  *)
NothingIsLost ==
  /\ pc = "mret_reset" => csr.mepc = "test"
  /\ pc = "sw" => regs.t5 = "tohost"

(* The host is told what the test has come to, and never that it passed    *)
(* when it did not (134-183, 314-326).                                     *)
ReportIsRight == tohost # 0 => tohost = verdict

(* The parameters of the PLL change only while it is bypassed, and it is   *)
(* used only after a wait (riscv_test.h_wait_pll.h:293-337).               *)
PllIsSafe ==
  pc = "pll" => /\ PllSteps[pll.next] \in {"N", "M"} => pll.bypass
                /\ PllSteps[pll.next] = "use" => pll.waited

(* The host is told.                                                       *)
Reported == tohost # 0

-----------------------------------------------------------------------------
(* Why it is so.  The instruction the environment is at, or the one it     *)
(* will go on with after the interrupt it is in.                           *)
Resumes == {"trap_vector", "mcause", "restore", "mret"}
Here == IF pc \in Resumes /\ csr.mcause \in Irqs \cup BusErrors THEN snap.pc ELSE pc

Early == {"reset_vector", "mie", "mtvec"}
Interruptible == {"post_mtvec", "mstatus", "test", "more", "ecall", "sll", "or",
                  "write_tohost", "la", "sw"}

EnvTypes ==
  /\ regs \in Regs /\ snap.regs \in Regs
  /\ csr = [mie |-> csr.mie, mpie |-> csr.mpie, ie |-> csr.ie, mtvec |-> csr.mtvec,
            mepc |-> csr.mepc, mcause |-> csr.mcause, mscratch |-> csr.mscratch]
  /\ csr.mie \in BOOLEAN /\ csr.mpie \in BOOLEAN /\ gp \in Nat
  /\ pc \in Early \cup Interruptible \cup Resumes
          \cup {"mpie", "pll", "mepc", "mret_reset", "ebreak", "own", "mret_own"}

(* Interrupts are off where mepc is needed, and on again behind mret.      *)
Enables ==
  /\ csr.mtvec = IF pc \in Early THEN "none" ELSE "trap_vector"
  /\ pc \in Resumes \cup {"mpie", "pll", "mepc", "mret_reset", "ebreak", "own", "mret_own"}
       => ~csr.mie
  /\ pc \in {"test", "more"} => csr.mie
  /\ pc \in {"mepc", "pll", "mret_reset", "restore", "ebreak", "mret", "own", "mret_own"}
       => csr.mpie
  /\ pc \in {"trap_vector", "mcause"} /\ csr.mcause # "ecall" => csr.mpie
  /\ pc = "mret_reset" => csr.mepc = "test"
  /\ pc = "mret_own" => csr.mepc = "more"

(* What a trap is of, where it came from and where the registers are.      *)
Trapped ==
  /\ pc \in Resumes \cup {"ebreak"} =>
       /\ csr.mcause \in Irqs \cup BusErrors \cup {"breakpoint", "illegal", "ecall"}
       /\ csr.mcause \in Irqs \cup BusErrors =>
            snap.pc \in Interruptible /\ (snap.pc = "sw" => snap.regs.t5 = "tohost")
       /\ csr.mcause \in {"breakpoint", "illegal"} => snap.pc = "test"
  /\ pc = "restore" => csr.mcause \in Irqs \cup BusErrors
  /\ pc = "ebreak" => csr.mcause = "breakpoint"
  /\ pc = "mret" => csr.mcause \in Irqs \cup BusErrors \cup {"breakpoint"}
  /\ pc \in {"trap_vector", "mcause", "restore"} => csr.mepc = snap.pc
  /\ pc = "trap_vector" => regs = snap.regs
  /\ pc \in {"mcause", "restore", "ebreak"} =>
       /\ regs.a1 = snap.regs.a1 /\ csr.mscratch = snap.regs.a0
       /\ saved.t5 = snap.regs.t5 /\ saved.t6 = snap.regs.t6

(* What the test has come to, at every place between its end and the host. *)
Verdicts ==
  /\ Here \in Early \cup {"post_mtvec", "mstatus", "mpie", "pll", "mepc", "mret_reset", "test",
                       "more", "ebreak", "own", "mret_own"} => verdict = 0
  /\ pc \in {"trap_vector", "mcause"} /\ csr.mcause = "breakpoint" => verdict = 0
  /\ pc \in {"trap_vector", "mcause"} /\ csr.mcause = "illegal" =>
       verdict = IF env.own THEN 0 ELSE Crashed
  /\ Here = "mret" => verdict = 0
  /\ Here = "sll" => verdict = 2 * gp + 1
  /\ Here = "or" => verdict = gp + 1
  /\ Here \in {"ecall", "write_tohost", "la", "sw"} => verdict = gp
  /\ pc \in {"trap_vector", "mcause"} /\ csr.mcause = "ecall" => verdict = gp

(* The PLL is set up once, in its order.                                   *)
PllInOrder ==
  /\ Here \in Early \cup {"post_mtvec", "mstatus", "mpie"} => pll.next = 1
  /\ pc = "pll" => /\ pll.next \in 1 .. 10
                   /\ pll.next \in {5, 6} => pll.bypass
                   /\ pll.next \in {2, 8} => pll.waited

EnvInv ==
  /\ EnvTypes /\ Enables /\ Trapped /\ Verdicts /\ PllInOrder
  /\ TrapsAreTransparent /\ NothingIsLost /\ ReportIsRight
=============================================================================
