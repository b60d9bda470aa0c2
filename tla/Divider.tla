------------------------------ MODULE Divider ------------------------------
(***************************************************************************)
(* The divider of tiny-risc-v (rtl/core/div.v): restoring division by      *)
(* shift and subtract on words of W bits (32 in the source), one bit per   *)
(* clock, started and aborted by one level-sensitive signal.               *)
(***************************************************************************)
EXTENDS DividerCtl

CONSTANTS W,     \* width of a word
          Regs   \* numbers of destination registers, 0 among them

ASSUME WAssumption    == W \in Nat \ {0, 1}
ASSUME RegsAssumption == 0 \in Regs

(* Each bit weighs twice as much as the one below it.                      *)
ASSUME PowersOfTwo == \A i \in 0 .. W - 1 : /\ 2^i \in Nat \ {0}
                                            /\ 2^(i + 1) = 2 * 2^i

Words == 0 .. 2^W - 1
Top == 2^(W - 1)                            \* weight of the sign bit
MinusOne == 2^W - 1
DivOps == {"DIV", "DIVU", "REM", "REMU"}

Negative(x) == x >= Top
Neg(x) == (2^W - x) % 2^W
Bit(x, i) == (x \div 2^i) % 2
ShiftIn(x, b) == (2 * x + b) % 2^W          \* {x[W-2:0], b}

VARIABLES
  state, busy_o, ready_o, result_o, reg_waddr_o,
  op_r, dividend_r, divisor_r, count, div_result, div_remain, minuend,
  invert_result,
  asked    \* history: the division that was accepted last

control == <<state, busy_o, ready_o>>
NoDivision == [op |-> "none", a |-> 0, b |-> 0, rd |-> 0]

vars == <<control, result_o, reg_waddr_o, op_r, dividend_r, divisor_r, count,
          div_result, div_remain, minuend, invert_result, asked>>

Init ==
  /\ state = "IDLE" /\ busy_o = FALSE /\ ready_o = FALSE
  /\ result_o = 0 /\ reg_waddr_o = 0
  /\ op_r = "DIV"                           \* 3'h0 is none of the four
  /\ dividend_r = 0 /\ divisor_r = 0 /\ count = 0
  /\ div_result = 0 /\ div_remain = 0 /\ minuend = 0
  /\ invert_result = FALSE
  /\ asked = NoDivision

(* STATE_IDLE with start_i (div.v:88-95): the operands are latched.        *)
Accept(op, a, b, rd) ==
  /\ state = "IDLE"
  /\ state' = "START" /\ busy_o' = TRUE
  /\ op_r' = op /\ dividend_r' = a /\ divisor_r' = b /\ reg_waddr_o' = rd
  /\ asked' = [op |-> op, a |-> a, b |-> b, rd |-> rd]
  /\ UNCHANGED <<ready_o, result_o, count, div_result, div_remain, minuend,
                 invert_result>>

(* STATE_IDLE without start_i (div.v:96-104).                              *)
Rest ==
  /\ state = "IDLE"
  /\ state' = "IDLE" /\ busy_o' = FALSE /\ ready_o' = FALSE /\ result_o' = 0
  /\ op_r' = "DIV" /\ dividend_r' = 0 /\ divisor_r' = 0 /\ reg_waddr_o' = 0
  /\ UNCHANGED <<count, div_result, div_remain, minuend, invert_result, asked>>

(* STATE_START with a zero divisor (div.v:110-118).                        *)
ByZero ==
  /\ state = "START" /\ divisor_r = 0
  /\ state' = "IDLE" /\ busy_o' = FALSE /\ ready_o' = TRUE
  /\ result_o' = IF op_r \in {"DIV", "DIVU"} THEN MinusOne ELSE dividend_r
  /\ UNCHANGED <<reg_waddr_o, op_r, dividend_r, divisor_r, count, div_result,
                 div_remain, minuend, invert_result, asked>>

(* A bug: the sign of the divisor is not looked at.                        *)
SignOf_DividendOnly(op, a, b) == op \in {"DIV", "REM"} /\ Negative(a)

(* STATE_START otherwise (div.v:120-151): signed operands are replaced by  *)
(* their absolute values and the sign of the result is remembered.         *)
SignOf(op, a, b) ==
  \/ op = "DIV" /\ Negative(a) # Negative(b)
  \/ op = "REM" /\ Negative(a)

FirstCount == 2^(W - 2)                     \* 32'h40000000

Prepare ==
  LET signed == op_r \in {"DIV", "REM"}
      Abs(x) == IF signed /\ Negative(x) THEN Neg(x) ELSE x
  IN
  /\ state = "START" /\ divisor_r # 0
  /\ state' = "CALC" /\ busy_o' = TRUE
  /\ count' = FirstCount
  /\ div_result' = 0 /\ div_remain' = 0
  /\ dividend_r' = Abs(dividend_r) /\ divisor_r' = Abs(divisor_r)
  /\ minuend' = Bit(Abs(dividend_r), W - 1)
  /\ invert_result' = SignOf(op_r, dividend_r, divisor_r)
  /\ UNCHANGED <<ready_o, result_o, reg_waddr_o, op_r, asked>>

(* STATE_CALC (div.v:65-68, 160-174): one bit of the quotient; the last    *)
(* one, with count at zero, leaves the remainder.                          *)
Subtract == minuend >= divisor_r

(* A bug: the count is not shifted.                                        *)
CountStep_Kept == count

CountStep == count \div 2                   \* {1'b0, count[31:1]}

Calc ==
  LET diff == IF Subtract THEN minuend - divisor_r ELSE minuend IN
  /\ state = "CALC"
  /\ dividend_r' = ShiftIn(dividend_r, 0)
  /\ div_result' = ShiftIn(div_result, IF Subtract THEN 1 ELSE 0)
  /\ count' = CountStep
  /\ IF count # 0
     THEN /\ minuend' = ShiftIn(diff % Top, Bit(dividend_r, W - 2))
          /\ UNCHANGED <<state, div_remain>>
     ELSE /\ state' = "END"
          /\ div_remain' = diff
          /\ UNCHANGED minuend
  /\ UNCHANGED <<busy_o, ready_o, result_o, reg_waddr_o, op_r, divisor_r,
                 invert_result, asked>>

(* STATE_END (div.v:184-200).                                              *)
Finish ==
  LET r == IF op_r \in {"DIV", "DIVU"} THEN div_result ELSE div_remain IN
  /\ state = "END"
  /\ state' = "IDLE" /\ busy_o' = FALSE /\ ready_o' = TRUE
  /\ result_o' = IF invert_result THEN Neg(r) ELSE r
  /\ UNCHANGED <<reg_waddr_o, op_r, dividend_r, divisor_r, count, div_result,
                 div_remain, minuend, invert_result, asked>>

(* Any state but STATE_IDLE without start_i (div.v:152-157, 175-180,       *)
(* 201-206).                                                               *)
Abort ==
  /\ state # "IDLE"
  /\ state' = "IDLE" /\ busy_o' = FALSE /\ ready_o' = FALSE /\ result_o' = 0
  /\ UNCHANGED <<reg_waddr_o, op_r, dividend_r, divisor_r, count, div_result,
                 div_remain, minuend, invert_result, asked>>

Run == ByZero \/ Prepare \/ Calc \/ Finish

AcceptSome ==
  \E op \in DivOps, a \in Words, b \in Words, rd \in Regs : Accept(op, a, b, rd)

Next ==
  \/ AcceptSome
  \/ Rest
  \/ Run
  \/ Abort

Spec == Init /\ [][Next]_vars

(* The clock runs: the divider is in one of the states of Run, or aborted. *)
FairSpec == Spec /\ WF_vars(Run)
-----------------------------------------------------------------------------
(* What the four instructions of RV32M return.                             *)
Signed(x) == IF Negative(x) THEN x - 2^W ELSE x
Unsigned(x) == x % 2^W
AbsInt(x) == IF x < 0 THEN -x ELSE x
Quotient(x, y) == LET q == AbsInt(x) \div AbsInt(y)
                  IN  IF (x < 0) # (y < 0) THEN -q ELSE q
Remainder(x, y) == x - y * Quotient(x, y)

Expected(d) ==
  CASE d.b = 0 /\ d.op \in {"DIV", "DIVU"} -> MinusOne
    [] d.b = 0 /\ d.op \in {"REM", "REMU"} -> d.a
    [] d.b # 0 /\ d.op = "DIV"  -> Unsigned(Quotient(Signed(d.a), Signed(d.b)))
    [] d.b # 0 /\ d.op = "DIVU" -> d.a \div d.b
    [] d.b # 0 /\ d.op = "REM"  -> Unsigned(Remainder(Signed(d.a), Signed(d.b)))
    [] d.b # 0 /\ d.op = "REMU" -> d.a % d.b

(* Widths and control.                                                     *)
TypeOK ==
  /\ state \in DivStates
  /\ busy_o <=> state # "IDLE"
  /\ {result_o, dividend_r, divisor_r, count, div_result, div_remain, minuend}
       \subseteq Words
  /\ reg_waddr_o \in Regs

(* A result that EX may write (not busy, ready) is that of the division    *)
(* accepted last, for its own register, whatever was aborted before it     *)
(* (div.v:107-209).                                                        *)
ResultCorrect ==
  ready_o /\ ~busy_o => result_o = Expected(asked) /\ reg_waddr_o = asked.rd

(* In STATE_CALC the partial remainder fits: the 31-bit truncation of      *)
(* minuend_tmp (div.v:68) never drops a bit that is set.                   *)
NothingTruncated ==
  state = "CALC" /\ count # 0
    => (IF Subtract THEN minuend - divisor_r ELSE minuend) < Top

(* The registers have their widths, the truncation costs nothing, and the  *)
(* result that is written is the right one.                                *)
ResultsRight == TypeOK /\ NothingTruncated /\ ResultCorrect

(* The clocks that the algorithm takes are those that the pipeline model   *)
(* counts (DividerCtl): W in STATE_CALC, the one-hot count 32'h40000000    *)
(* being shifted out.                                                      *)
Left == IF state # "CALC" THEN 0
        ELSE IF count = 0 THEN 1
        ELSE 2 + (CHOOSE k \in 0 .. W : 2^k = count)

ctl == [state |-> state, zero |-> state # "IDLE" /\ divisor_r = 0,
        count |-> Left, busy |-> busy_o, ready |-> ready_o]

DividerCtlSpec ==
  /\ ctl = DivIdle
  /\ [][\E start, zero \in BOOLEAN : ctl' = DivCtlStep(ctl, start, zero, W)]_ctl

(* A division comes to an end: EX, which holds the pipeline as long as the *)
(* divider is busy (ex.v:225-230), is let go.                              *)
Finishes == busy_o ~> ~busy_o

(* The divider, its data left out, is the one of the pipeline model, and   *)
(* it never keeps the pipeline for good.                                   *)
ControlRight == DividerCtlSpec /\ Finishes
=============================================================================
