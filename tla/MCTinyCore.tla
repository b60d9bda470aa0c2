---------------------------- MODULE MCTinyCore ----------------------------
(***************************************************************************)
(* TinyCore on all programs of a shape: three free words, a jump back, and *)
(* a trap handler of two words, the first of them free and the second an   *)
(* mret.  One family of programs takes interrupts, the other divides.      *)
(***************************************************************************)
EXTENDS TinyCore

CONSTANTS Body, DivBody,        \* operations of the free words
          Handler, DivHandler,  \* operations of the first word of the handler
          Targets               \* targets of jumps

I(op) == [op |-> op, to |-> 0]
Words(body) == {I(op) : op \in body \ JumpOps}
               \cup {[op |-> op, to |-> t] : op \in body \cap JumpOps, t \in Targets}

ProgramsOf(body, handler) ==
  { [a \in 0 .. 5 |-> CASE a < 3 -> b[a]
                        [] a = 3 -> I("jmp")
                        [] a = 4 -> I(h)
                        [] a = 5 -> I("mret")] :
    b \in [0 .. 2 -> Words(body)], h \in handler }

AllPrograms        == ProgramsOf(Body, Handler)
ShadowFreePrograms == {p \in AllPrograms : ShadowFree(p)}
DivPrograms        == {p \in ProgramsOf(DivBody, DivHandler) : ShadowFree(p)}
CorePrograms       == ShadowFreePrograms \cup DivPrograms
=============================================================================
