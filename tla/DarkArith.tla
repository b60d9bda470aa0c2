----------------------------- MODULE DarkArith -----------------------------
(***************************************************************************)
(* Multiplication and division in the DarkRISCV firmware (stdio.c), whose  *)
(* core has no instructions for them: the shift loops behind *, / and %,   *)
(* a pass of a loop to a step, on integers of W bits.                      *)
(***************************************************************************)
EXTENDS Integers

CONSTANT W      \* 32

(* Each bit weighs twice as much as the one below it.                      *)
DarkArithAssumption ==
  /\ W \in Nat \ {0}
  /\ \A i \in 0 .. W - 1 : 2 ^ i \in Nat \ {0} /\ 2 ^ (i + 1) = 2 * 2 ^ i

VARIABLES
  call,       \* the operation, its operands, and the signs the wrapper took off
  pc,         \* "call", "mul", "up", "down", "done"
  x, y, acc, aux,
  result

vars == <<call, pc, x, y, acc, aux, result>>

M == 2 ^ W
Msb == 2 ^ (W - 1)
Words == 0 .. M - 1
Negative(v) == v >= Msb
Neg(v) == (M - v) % M
Abs(v) == IF Negative(v) THEN Neg(v) ELSE v      \* INT_MIN stays what it is
Shl(v) == (2 * v) % M
Shr(v) == v \div 2

Operations == {"umul", "mul", "udiv", "umod", "div", "mod"}
Signed(op) == op \in {"mul", "div", "mod"}
IsMul(op) == op \in {"umul", "mul"}
IsDiv(op) == op \in {"udiv", "div"}

-----------------------------------------------------------------------------
(* The operands without their signs; the larger one becomes x in a         *)
(* multiplication; a division by zero returns 0.                           *)
Call(op, a, b) ==
  LET u == IF Signed(op) THEN Abs(a) ELSE a
      v == IF Signed(op) THEN Abs(b) ELSE b
  IN /\ pc = "call"
     /\ call' = [op |-> op, a |-> a, b |-> b,
                 xs |-> Signed(op) /\ Negative(a), ys |-> Signed(op) /\ Negative(b)]
     /\ IF IsMul(op) /\ u < v THEN x' = v /\ y' = u ELSE x' = u /\ y' = v
     /\ acc' = 0 /\ aux' = 1 /\ result' = 0
     /\ pc' = CASE IsMul(op) -> "mul" [] ~IsMul(op) /\ b = 0 -> "done" [] OTHER -> "up"

MulStep ==
  /\ pc = "mul" /\ y # 0
  /\ acc' = IF y % 2 = 1 THEN (acc + x) % M ELSE acc
  /\ x' = Shl(x) /\ y' = Shr(y)
  /\ UNCHANGED <<call, pc, aux, result>>

(* The divisor moves up, while it is smaller and its top bit is free.      *)
MovesUp == y < x /\ ~Negative(y)

UpStep ==
  /\ pc = "up"
  /\ IF MovesUp THEN aux' = Shl(aux) /\ y' = Shl(y) /\ UNCHANGED pc
     ELSE pc' = "down" /\ UNCHANGED <<aux, y>>
  /\ UNCHANGED <<call, x, acc, result>>

(* The divisor moves down, and is subtracted where it fits.                *)
Fits == y <= x

DownStep ==
  /\ pc = "down" /\ x # 0 /\ aux # 0
  /\ IF Fits THEN x' = x - y /\ acc' = acc + aux ELSE UNCHANGED <<x, acc>>
  /\ aux' = Shr(aux) /\ y' = Shr(y)
  /\ UNCHANGED <<call, pc, result>>

(* The sign of a remainder is that of the dividend.                        *)
NegativeResult == IF call.op = "mod" THEN call.xs ELSE call.xs # call.ys

Finish ==
  /\ \/ pc = "mul" /\ y = 0
     \/ pc = "down" /\ (x = 0 \/ aux = 0)
  /\ LET value == IF pc = "mul" \/ IsDiv(call.op) THEN acc ELSE x
     IN result' = IF NegativeResult THEN Neg(value) ELSE value
  /\ pc' = "done"
  /\ UNCHANGED <<call, x, y, acc, aux>>

(* Nothing of a call stays behind.                                         *)
NoCall == [op |-> "umul", a |-> 0, b |-> 0, xs |-> FALSE, ys |-> FALSE]

Return ==
  /\ pc = "done" /\ pc' = "call" /\ call' = NoCall
  /\ x' = 0 /\ y' = 0 /\ acc' = 0 /\ aux' = 0 /\ result' = 0

-----------------------------------------------------------------------------
Init ==
  /\ call = NoCall
  /\ pc = "call" /\ x = 0 /\ y = 0 /\ acc = 0 /\ aux = 0 /\ result = 0

Loop == MulStep \/ UpStep \/ DownStep \/ Finish
Next == \/ \E op \in Operations, a, b \in Words : Call(op, a, b)
        \/ Loop \/ Return

Spec == Init /\ [][Next]_vars
FairSpec == Spec /\ WF_vars(Loop)

-----------------------------------------------------------------------------
TypeOK ==
  /\ pc \in {"call", "mul", "up", "down", "done"}
  /\ {x, y, acc, aux, result} \subseteq Words

(* What C says of the operation, on W-bit two's complement.                *)
Value(v) == IF Negative(v) THEN v - M ELSE v
AbsInt(v) == IF v < 0 THEN -v ELSE v
Quotient(a, b) == IF (a < 0) # (b < 0) THEN -(AbsInt(a) \div AbsInt(b)) ELSE AbsInt(a) \div AbsInt(b)
Expected ==
  LET a == IF Signed(call.op) THEN Value(call.a) ELSE call.a
      b == IF Signed(call.op) THEN Value(call.b) ELSE call.b
  IN IF IsMul(call.op) THEN (a * b) % M
     ELSE IF b = 0 THEN 0
     ELSE IF IsDiv(call.op) THEN Quotient(a, b) % M
     ELSE (a - b * Quotient(a, b)) % M

(* Every operation returns what C says of it, for the extreme operands     *)
(* too, and division by zero returns 0.                                    *)
ResultIsExpected == pc = "done" => result = Expected

(* Nothing is lost between the steps of a division: what has been          *)
(* subtracted and what is left are the dividend, and what is left is less  *)
(* than the next divisor twice.                                            *)
DivisionKeepsDividend ==
  pc = "down" =>
    LET d == IF Signed(call.op) THEN Abs(call.b) ELSE call.b
        n == IF Signed(call.op) THEN Abs(call.a) ELSE call.a
    IN /\ acc * d + x = n
       /\ aux # 0 => y = aux * d /\ x < 2 * y

(* Every loop ends.                                                        *)
LoopsEnd == pc \in {"mul", "up", "down"} ~> pc = "done"

-----------------------------------------------------------------------------
(* Why it is so: what each loop keeps of the operands without their signs. *)
Magnitude(v) == IF Signed(call.op) THEN Abs(v) ELSE v
Powers == {2 ^ i : i \in 0 .. W - 1}

Called ==
  /\ call \in [op : Operations, a : Words, b : Words, xs : BOOLEAN, ys : BOOLEAN]
  /\ call.xs = (Signed(call.op) /\ Negative(call.a))
  /\ call.ys = (Signed(call.op) /\ Negative(call.b))
  /\ pc = "mul" => IsMul(call.op)
  /\ pc \in {"up", "down"} => ~IsMul(call.op) /\ call.b # 0

Multiplies ==
  pc = "mul" => (acc + x * y) % M = (Magnitude(call.a) * Magnitude(call.b)) % M

MovedUp ==
  pc = "up" => /\ x = Magnitude(call.a) /\ acc = 0
               /\ aux \in Powers /\ y = aux * Magnitude(call.b)

MovedDown ==
  pc = "down" =>
    /\ acc * Magnitude(call.b) + x = Magnitude(call.a)
    /\ IF aux = 0 THEN x < Magnitude(call.b)
       ELSE aux \in Powers /\ y = aux * Magnitude(call.b) /\ x < 2 * y

ArithInv == TypeOK /\ Called /\ Multiplies /\ MovedUp /\ MovedDown /\ ResultIsExpected
=============================================================================
