---------------------------- MODULE DarkNumbers ----------------------------
(***************************************************************************)
(* Numbers in the DarkRISCV firmware (stdio.c): putnum, behind the %d and  *)
(* %x of its printf, and atoi and xtoi, with which the shell reads its     *)
(* arguments.  A number is shown, and what is shown is typed in again; a   *)
(* pass of a loop is a step.  Integers have W bits.                        *)
(***************************************************************************)
EXTENDS Integers, Sequences

CONSTANTS
  W,         \* 32
  Dec, Hex,  \* the bases, 10 and 16
  Stack      \* the characters putnum has room for (32)

(* A digit weighs as much as base of the one below it, and there is room   *)
(* for those of every word.                                                *)
DarkNumbersAssumption ==
  /\ W \in Nat \ {0} /\ Stack \in Nat /\ Stack >= 2
  /\ Dec \in Nat /\ Hex \in Nat /\ 1 < Dec /\ Dec < Hex /\ Dec < 2 ^ W
  /\ 2 ^ (W - 1) \in Nat \ {0} /\ 2 ^ W = 2 * 2 ^ (W - 1)
  /\ \A b \in {Dec, Hex}, k \in 0 .. Stack :
       b ^ 0 = 1 /\ b ^ k \in Nat \ {0} /\ b ^ (k + 1) = b * b ^ k
  /\ 2 ^ W <= Dec ^ Stack /\ 2 ^ W <= Hex ^ (Stack - 1)

VARIABLES
  number, base,
  pc,           \* "digits", "putchar", "read", "done"
  i,            \* what is left of the number
  stack, shown, \* digits; characters
  ret, sig      \* what has been read, and whether a minus was among it

vars == <<number, base, pc, i, stack, shown, ret, sig>>

M == 2 ^ W
Words == 0 .. M - 1
Minus == -1
Neg(v) == (M - v) % M
Negative(v) == v >= 2 ^ (W - 1)

-----------------------------------------------------------------------------
(* -j of the most negative number is that number, which unsigned is right. *)
Sign == IF base = Dec /\ Negative(number) THEN <<Minus>> ELSE <<>>

Init ==
  /\ number \in Words /\ base \in {Dec, Hex}
  /\ pc = "digits" /\ stack = <<>> /\ shown = Sign
  /\ i = IF Sign = <<>> THEN number ELSE Neg(number)
  /\ ret = 0 /\ sig = FALSE

(* Digits other than decimal ones go in pairs.                             *)
PerPass == IF base = Dec THEN 1 ELSE 2

Digits ==
  /\ pc = "digits"
  /\ stack' = stack \o [k \in 1 .. PerPass |-> (i \div base ^ (k - 1)) % base]
  /\ i' = i \div base ^ PerPass
  /\ pc' = IF i' = 0 THEN "putchar" ELSE "digits"
  /\ UNCHANGED <<number, base, shown, ret, sig>>

Putchar ==
  /\ pc = "putchar"
  /\ IF stack = <<>> THEN pc' = "read" /\ UNCHANGED <<stack, shown>>
     ELSE /\ shown' = Append(shown, stack[Len(stack)])
          /\ stack' = SubSeq(stack, 1, Len(stack) - 1) /\ UNCHANGED pc
  /\ UNCHANGED <<number, base, i, ret, sig>>

(* i counts the characters that atoi or xtoi has read.                     *)
Read ==
  /\ pc = "read" /\ i < Len(shown) /\ i' = i + 1
  /\ IF shown[i'] = Minus /\ base = Dec THEN sig' = TRUE /\ UNCHANGED ret
     ELSE ret' = (shown[i'] + ret * base) % M /\ UNCHANGED sig
  /\ UNCHANGED <<number, base, pc, stack, shown>>

Return ==
  /\ pc = "read" /\ i = Len(shown) /\ pc' = "done"
  /\ ret' = IF sig THEN Neg(ret) ELSE ret
  /\ UNCHANGED <<number, base, i, stack, shown, sig>>

Next == Digits \/ Putchar \/ Read \/ Return

Spec == Init /\ [][Next]_vars

-----------------------------------------------------------------------------
TypeOK ==
  /\ pc \in {"digits", "putchar", "read", "done"} /\ i \in Words /\ ret \in Words
  /\ stack \in Seq(0 .. Hex - 1) /\ shown \in Seq({Minus} \cup 0 .. Hex - 1)

(* What is shown reads back as the number, for the extreme ones too        *)
(* (stdio.c:105-138, 232-262).                                             *)
ShownReadsBack == pc = "done" => ret = number

(* putnum has room for its digits, and shows no more than it must: no      *)
(* leading zero, or pair of zeros (stdio.c:105-138).                       *)
ShownIsShort ==
  /\ Len(stack) <= Stack
  /\ pc = "read" =>
       LET digits == SubSeq(shown, Len(Sign) + 1, Len(shown))
       IN /\ Len(digits) % PerPass = 0
          /\ Len(digits) > PerPass => \E k \in 1 .. PerPass : digits[k] # 0

-----------------------------------------------------------------------------
(* Why it is so: what the digits are, those on the stack and those shown,  *)
(* and how much of the number i and ret hold.                              *)
Magnitude == IF Sign = <<>> THEN number ELSE Neg(number)
Above(k) == Magnitude \div base ^ k
Length == Len(shown) - Len(Sign) + Len(stack)

NumbersTypes ==
  /\ number \in Words /\ base \in {Dec, Hex} /\ pc \in {"digits", "putchar", "read", "done"}
  /\ i \in Nat /\ stack \in Seq(Int) /\ shown \in Seq(Int) /\ sig \in BOOLEAN

InPlace ==
  /\ Len(Sign) <= Len(shown) /\ Length <= Stack /\ Length % PerPass = 0
  /\ \A k \in 1 .. Len(stack) : stack[k] = Above(k - 1) % base
  /\ \A k \in 1 .. Len(shown) :
       shown[k] = IF k <= Len(Sign) THEN Minus
                  ELSE Above(Length - (k - Len(Sign))) % base

Divided ==
  pc = "digits" => /\ shown = Sign /\ Length <= Stack - PerPass
                   /\ i = Above(Length) /\ (Length = 0 \/ i # 0)

AllDigits ==
  pc # "digits" => /\ Above(Length) = 0 /\ Length >= PerPass
                   /\ Length = PerPass \/ Above(Length - PerPass) # 0

HasRead ==
  /\ pc \in {"digits", "putchar"} => ret = 0 /\ ~sig
  /\ pc = "putchar" => i = 0
  /\ pc = "read" =>
       /\ stack = <<>> /\ i <= Len(shown) /\ (sig <=> Sign # <<>> /\ i > 0)
       /\ ret = IF i = 0 THEN 0 ELSE Above(Len(shown) - i)

NumbersInv ==
  NumbersTypes /\ InPlace /\ Divided /\ AllDigits /\ HasRead /\ ShownReadsBack /\ ShownIsShort
=============================================================================
