------------------------------ MODULE TinyIsa ------------------------------
(***************************************************************************)
(* What tiny-risc-v promises to software: one instruction after another,   *)
(* traps and interrupts between two of them.  Nothing of the pipeline is   *)
(* seen, an interrupt comes when it is enabled, and the debugger may set   *)
(* the next instruction to the first one.                                  *)
(***************************************************************************)
EXTENDS Integers

CONSTANTS NWords,  \* size of the address space in words
          Mtvec    \* the trap vector

VARIABLES rom,     \* the program
          next,    \* address of the next instruction
          mie,     \* mstatus.MIE
          mpie,    \* mstatus.MPIE
          mepc,
          mcause

vars == <<rom, next, mie, mpie, mepc, mcause>>

Inst == rom[next]
Behind == (next + 1) % NWords

Init == /\ next = 0 /\ mepc = 0 /\ mcause = "none"
        /\ mie \in BOOLEAN /\ mpie = TRUE

Plain == /\ Inst.op \in {"alu", "mem", "div"}
         /\ next' = Behind /\ UNCHANGED <<mie, mepc, mcause>>

Jump == /\ Inst.op = "jmp"
        /\ next' = Inst.to /\ UNCHANGED <<mie, mepc, mcause>>

Branch == /\ Inst.op = "br"
          /\ next' \in {Inst.to, Behind} /\ UNCHANGED <<mie, mepc, mcause>>

(* csrsi and csrci on mstatus.MIE, and a handler that steps over an ecall. *)
WriteMie == /\ Inst.op \in {"csrs", "csrc"}
            /\ mie' = (Inst.op = "csrs")
            /\ next' = Behind /\ UNCHANGED <<mepc, mcause>>

StepMepc == /\ Inst.op = "epc"
            /\ mepc' = (mepc + 1) % NWords
            /\ next' = Behind /\ UNCHANGED <<mie, mcause>>

Trap(cause) == /\ mepc' = next /\ mcause' = cause /\ mie' = FALSE
               /\ next' = Mtvec

Call == Inst.op \in {"ecall", "ebreak"} /\ Trap(Inst.op)

Interrupt == mie /\ Trap("timer")

Return == /\ Inst.op = "mret"
          /\ next' = mepc /\ mie' = mpie /\ UNCHANGED <<mepc, mcause>>

DebugStart == next' = 0 /\ UNCHANGED <<mie, mepc, mcause>>

Next == /\ UNCHANGED <<rom, mpie>>
        /\ \/ Plain \/ Jump \/ Branch \/ WriteMie \/ StepMepc
           \/ Call \/ Interrupt \/ Return \/ DebugStart

Spec == Init /\ [][Next]_vars
=============================================================================
