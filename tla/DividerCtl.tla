----------------------------- MODULE DividerCtl -----------------------------
(***************************************************************************)
(* The control of the divider of tiny-risc-v (rtl/core/div.v): when it is  *)
(* busy, when a result is ready, how long it counts and how a lost start   *)
(* signal aborts it.  What it computes is the subject of Divider.          *)
(***************************************************************************)
EXTENDS Integers

DivStates == {"IDLE", "START", "CALC", "END"}

(* Back in STATE_IDLE, with or without a result.                           *)
DivStops(ready) == [state |-> "IDLE", zero |-> FALSE, count |-> 0,
                    busy |-> FALSE, ready |-> ready]
DivIdle == DivStops(FALSE)
DivDone == DivStops(TRUE)

(* A bug: the divider stays in END while it is started.                    *)
DivCtlStep_EndSticks(d, start, zero, cycles) ==
  CASE d.state = "IDLE" /\ start ->
         [d EXCEPT !.state = "START", !.busy = TRUE, !.zero = zero]
    [] d.state = "START" /\ start /\ d.zero -> DivDone
    [] d.state = "START" /\ start /\ ~d.zero ->
         [d EXCEPT !.state = "CALC", !.count = cycles]
    [] d.state = "CALC" /\ start /\ d.count > 1 -> [d EXCEPT !.count = @ - 1]
    [] d.state \in {"CALC", "END"} /\ start ->
         [d EXCEPT !.state = "END", !.count = 0]
    [] OTHER -> DivIdle

(* One clock (div.v:71-210).  zero says whether the divisor that is        *)
(* latched by STATE_IDLE is zero, cycles is the number of clocks spent in  *)
(* STATE_CALC.  A result that is still ready stays so when the next        *)
(* division is accepted at once.                                           *)
DivCtlStep(d, start, zero, cycles) ==
  CASE d.state = "IDLE" /\ start ->
         [d EXCEPT !.state = "START", !.busy = TRUE, !.zero = zero]
    [] d.state = "START" /\ start /\ d.zero -> DivDone
    [] d.state = "START" /\ start /\ ~d.zero ->
         [d EXCEPT !.state = "CALC", !.count = cycles]
    [] d.state = "CALC" /\ start /\ d.count > 1 -> [d EXCEPT !.count = @ - 1]
    [] d.state = "CALC" /\ start /\ d.count = 1 ->
         [d EXCEPT !.state = "END", !.count = 0]
    [] d.state = "END" /\ start -> DivDone
    [] OTHER -> DivIdle
=============================================================================
