------------------------------ MODULE TinyTimer ------------------------------
(***************************************************************************)
(* The timer of tiny-risc-v (rtl/perips/timer.v) under the program of      *)
(* tests/example/timer_int/main.c, whose handler restarts it.  One step is *)
(* one clock; the program takes its steps at any pace up to MaxGap clocks  *)
(* between two of them.                                                    *)
(***************************************************************************)
EXTENDS Naturals

CONSTANTS
  Period,    \* what the program writes to timer_value
  Ticks,     \* interrupts until the program acts: 2 simulated, 50 on the board
  MaxGap,    \* clocks that may pass between two steps of the program
  Branches   \* of #ifdef SIMULATION: "simulation", "board"

TinyTimerAssumption ==
  /\ {Period, Ticks} \subseteq Nat \ {0} /\ MaxGap \in Nat
  /\ Branches \subseteq {"simulation", "board"}

VARIABLES
  branch,  \* which program was compiled
  timer,   \* timer_ctrl (enable, interrupt enable, pending), timer_count, timer_value
  prog,    \* where the program is, where it returns to, what it has read, its count
  owed     \* history: expiries that the handler has not counted yet

vars == <<branch, timer, prog, owed>>

Handler == {"read", "write", "count", "mret"}
Main == {"value", "ctrl", "poll", "stop", "zero", "toggle", "done"}

int_sig == timer.pending /\ timer.int_en
Expires == timer.en /\ timer.count >= timer.value

-----------------------------------------------------------------------------
(* timer.v:57-94 - a write of the bus is served first, and an expiry in    *)
(* its clock leaves nothing but the count that starts again.               *)
Count == IF timer.en /\ ~Expires THEN timer.count + 1 ELSE 0

NoAccess == timer' = [timer EXCEPT !.count = Count, !.en = @ /\ ~Expires,
                                   !.pending = @ \/ Expires]

WriteCtrl(en, int_en, clear) ==
  timer' = [timer EXCEPT !.count = Count, !.en = en, !.int_en = int_en,
                         !.pending = @ /\ ~clear]

WriteValue == timer' = [timer EXCEPT !.count = Count, !.value = Period]

-----------------------------------------------------------------------------
(* main.c: the instructions that matter, in their order.  Stopped writes 0 *)
(* to the control register, which leaves a pending bit set.                *)
Goto(pc) == [prog EXCEPT !.pc = pc, !.gap = 0]

Start ==
  \/ prog.pc = "value" /\ WriteValue /\ prog' = Goto("ctrl")
  \/ prog.pc = "ctrl" /\ WriteCtrl(TRUE, TRUE, TRUE) /\ prog' = Goto("poll")

Poll ==
  /\ prog.pc = "poll" /\ NoAccess
  /\ prog' = Goto(IF prog.n # Ticks THEN "poll"
                  ELSE IF branch = "board" THEN "zero" ELSE "stop")

Act ==
  \/ prog.pc = "stop" /\ WriteCtrl(FALSE, FALSE, FALSE) /\ prog' = Goto("zero")
  \/ prog.pc = "zero" /\ NoAccess
     /\ prog' = [Goto(IF branch = "board" THEN "toggle" ELSE "done") EXCEPT !.n = 0]
  \/ prog.pc = "toggle" /\ NoAccess /\ prog' = Goto("poll")

(* timer0_irq_handler, and the return of trap_entry.S.                     *)
Irq ==
  \/ prog.pc = "read" /\ NoAccess
     /\ prog' = [Goto("write") EXCEPT !.old = timer.int_en]
  \/ prog.pc = "write" /\ WriteCtrl(TRUE, prog.old, TRUE) /\ prog' = Goto("count")
  \/ prog.pc = "count" /\ NoAccess /\ prog' = [Goto("mret") EXCEPT !.n = @ + 1]
  \/ prog.pc = "mret" /\ NoAccess /\ prog' = Goto(prog.back)

Wait == /\ prog.pc = "done" \/ prog.gap < MaxGap
        /\ NoAccess
        /\ prog' = IF prog.pc = "done" THEN prog ELSE [prog EXCEPT !.gap = @ + 1]

(* The core accepts an interrupt between two instructions.                 *)
TakeInterrupt ==
  /\ int_sig /\ prog.pc \in Main /\ NoAccess
  /\ prog' = [Goto("read") EXCEPT !.back = prog.pc]

Clock ==
  /\ Start \/ Poll \/ Act \/ Irq \/ Wait \/ TakeInterrupt
  /\ owed' = owed + (IF Expires THEN 1 ELSE 0) - (IF prog.pc = "count" /\ prog'.pc # prog.pc
                                                  THEN 1 ELSE 0)
  /\ UNCHANGED branch

Init ==
  /\ branch \in Branches
  /\ timer = [en |-> FALSE, int_en |-> FALSE, pending |-> FALSE, count |-> 0, value |-> 0]
  /\ prog = [pc |-> "value", back |-> "value", old |-> FALSE, n |-> 0, gap |-> 0]
  /\ owed = 0

Next == Clock
Spec == Init /\ [][Next]_vars /\ WF_vars(Clock) /\ WF_vars(Clock /\ TakeInterrupt)

-----------------------------------------------------------------------------
TypeOK ==
  /\ timer \in [en : BOOLEAN, int_en : BOOLEAN, pending : BOOLEAN,
                count : 0 .. Period, value : {0, Period}]
  /\ prog.pc \in Main \cup Handler /\ prog.back \in Main
  /\ prog.n \in 0 .. Ticks + 2 /\ prog.gap \in 0 .. MaxGap

Here == IF prog.pc \in Handler THEN prog.back ELSE prog.pc
Stopped == branch = "simulation" /\ Here \in {"zero", "done"}

(* Every period is counted, and once: no register write of the program     *)
(* hides an expiry, and no interrupt is taken twice for one (timer.v:78,   *)
(* main.c:46-51).                                                          *)
EveryPeriodCounts ==
  ~Stopped => owed = (IF timer.pending THEN 1 ELSE 0) + (IF prog.pc = "count" THEN 1 ELSE 0)

(* The program compares its count for equality (main.c:20, 36): the count  *)
(* never passes the number while the program is not looking, or it would   *)
(* not stop there before the count wraps.                                  *)
NeverPasses == prog.pc = "poll" => prog.n <= Ticks

(* The simulated program ends, and the other one toggles the LED for ever. *)
Toggles == \/ <>[](branch = "simulation" /\ Here = "done")
           \/ []<>(branch = "board" /\ Here = "toggle")
=============================================================================
