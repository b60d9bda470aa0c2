----------------------------- MODULE AmberPrint -----------------------------
(***************************************************************************)
(* print, prints and printi of the Amber boot loaders (print.c) and of     *)
(* mini-libc (printf.c): the format is read a character at a time, the     *)
(* digits of a number are made by a loop, and a field is padded.           *)
(*                                                                         *)
(* A character of the output is a number: a digit is its value ('0' is 0), *)
(* and the others are far from the digits on either side, as in ASCII.     *)
(* A format ends outside a field, or right after a '%'.                    *)
(***************************************************************************)
EXTENDS Integers, Sequences, SequencesExt

CONSTANTS
  W,          \* the bits of an int (32)
  Dec,        \* the base of %d and %u (10)
  HexBits,    \* the bits of a digit of %x (4)
  BufLen,     \* PRINT_BUF_LEN (16)
  MaxWidth,   \* bound: the largest width that is asked for
  MaxOut,     \* bound: no new item of the format is read once this much is out
  Strings     \* the arguments of %s and %c

AmberPrintAssumption ==
  W \in Nat \ {0} /\ Dec \in Nat \ {0, 1} /\ HexBits \in Nat \ {0}

VARIABLES
  lib,        \* whose print it is: "ethmac" or "mini"
  mode,       \* "text", "flag", "zeros", "width", "digits", "pad", "shown", "end"
  width, pad, \* pad is a subset of {"right", "zero"}
  u, neg, s,  \* printi: what is left of the number, its sign, its text so far
  out, pc,    \* what has been written, and the count that is returned
  field       \* history: the conversion, its argument, width and flags, and where it begins

vars == <<lib, mode, width, pad, u, neg, s, out, pc, field>>

M == 2 ^ W
Words == 0 .. M - 1
Negative(v) == v >= M \div 2
Signed(v) == IF Negative(v) THEN v - M ELSE v
Minus == -50
Blank == -60
CR == -70
NL == -71
Letters == 100
Ordinary == 200
MaxN(a, b) == IF a > b THEN a ELSE b

(* _div divides signed integers, also when print means them as unsigned.   *)
Div(v, b) == IF Negative(v) THEN (M - ((M - v) \div b)) % M ELSE v \div b

NoField == [spec |-> "", value |-> 0, width |-> 0, pad |-> {}, start |-> 0]

-----------------------------------------------------------------------------
Init ==
  /\ lib \in {"ethmac", "mini"}
  /\ mode = "text" /\ width = 0 /\ pad = {} /\ u = 0 /\ neg = FALSE
  /\ s = <<>> /\ out = <<>> /\ pc = 0 /\ field = NoField

(* A character outside a field, which counts as one although mini-libc     *)
(* sends a carriage return before a new line.                              *)
Literal(c) ==
  /\ \/ mode = "text" /\ Len(out) < MaxOut
     \/ mode = "flag" /\ c = Ordinary                  \* %%
  /\ out' = out \o (IF lib = "mini" /\ c = NL THEN <<CR, NL>> ELSE <<c>>)
  /\ pc' = pc + 1 /\ mode' = "text"
  /\ UNCHANGED <<lib, width, pad, u, neg, s, field>>

Percent ==
  /\ mode = "text" /\ Len(out) < MaxOut
  /\ mode' = "flag" /\ width' = 0 /\ pad' = {}
  /\ UNCHANGED <<lib, u, neg, s, out, pc, field>>

RightFlag ==
  /\ mode = "flag" /\ mode' = "zeros" /\ pad' = {"right"}
  /\ UNCHANGED <<lib, width, u, neg, s, out, pc, field>>

ZeroFlag ==
  /\ mode \in {"flag", "zeros"} /\ mode' = "zeros" /\ pad' = pad \cup {"zero"}
  /\ UNCHANGED <<lib, width, u, neg, s, out, pc, field>>

WidthDigit(d) ==
  /\ mode \in {"flag", "zeros", "width"} /\ (d = 0 => mode = "width")
  /\ Dec * width + d <= MaxWidth
  /\ mode' = "width" /\ width' = Dec * width + d
  /\ UNCHANGED <<lib, pad, u, neg, s, out, pc, field>>

(* Any other character ends the field, and nothing is printed for it.      *)
Unknown ==
  /\ mode \in {"flag", "zeros", "width"}
  /\ mode' = "text"
  /\ UNCHANGED <<lib, width, pad, u, neg, s, out, pc, field>>

Finish ==
  /\ mode \in {"text", "flag"}
  /\ mode' = "end"
  /\ UNCHANGED <<lib, width, pad, u, neg, s, out, pc, field>>

-----------------------------------------------------------------------------
NegatedFor(spec, v) == spec = "d" /\ Negative(v)

(* printi with an argument.  A zero is printed at once.                    *)
Number(spec, v) ==
  /\ mode \in {"flag", "zeros", "width"}
  /\ field' = [spec |-> spec, value |-> v, width |-> width, pad |-> pad, start |-> Len(out)]
  /\ neg' = NegatedFor(spec, v)
  /\ u' = IF NegatedFor(spec, v) THEN M - v ELSE v
  /\ s' = IF v = 0 THEN <<0>> ELSE <<>>
  /\ mode' = IF v = 0 THEN "pad" ELSE "digits"
  /\ UNCHANGED <<lib, width, pad, out, pc>>

DigitOf(spec, v) ==
  LET t == IF spec = "x" THEN v % 2 ^ HexBits ELSE Signed((v - Div(v, Dec) * Dec) % M)
  IN IF t >= Dec THEN Letters + t ELSE t

RestOf(spec, v) == IF spec = "x" THEN v \div 2 ^ HexBits ELSE Div(v, Dec)

Digit ==
  /\ mode = "digits" /\ u # 0
  /\ s' = <<DigitOf(field.spec, u)>> \o s
  /\ u' = RestOf(field.spec, u)
  /\ UNCHANGED <<lib, mode, width, pad, neg, out, pc, field>>

(* The sign: before the zeros of a padded field, or with the digits.       *)
WidthAfterSign(w) == w - 1

SignFirst == neg /\ width > 0 /\ "zero" \in pad

Sign ==
  /\ mode = "digits" /\ u = 0 /\ mode' = "pad"
  /\ IF SignFirst
     THEN /\ out' = Append(out, Minus) /\ pc' = pc + 1 /\ width' = WidthAfterSign(width)
          /\ UNCHANGED s
     ELSE /\ s' = IF neg THEN <<Minus>> \o s ELSE s
          /\ UNCHANGED <<out, pc, width>>
  /\ UNCHANGED <<lib, pad, u, neg, field>>

(* %s and %c go to prints as they are.                                     *)
String(str) ==
  /\ mode \in {"flag", "zeros", "width"}
  /\ field' = [spec |-> "s", value |-> Len(str), width |-> width, pad |-> pad, start |-> Len(out)]
  /\ s' = str /\ mode' = "pad"
  /\ UNCHANGED <<lib, width, pad, u, neg, out, pc>>

-----------------------------------------------------------------------------
Filler == IF "zero" \in pad THEN 0 ELSE Blank

FillOf(n) == [i \in 1 .. n |-> Filler]

(* prints.                                                                 *)
Prints ==
  LET fill == FillOf(MaxN(width - Len(s), 0)) IN
  /\ mode = "pad" /\ mode' = "shown"
  /\ out' = out \o (IF "right" \in pad THEN s \o fill ELSE fill \o s)
  /\ pc' = pc + Len(fill) + Len(s)
  /\ UNCHANGED <<lib, width, pad, u, neg, s, field>>

Continue ==
  /\ mode = "shown" /\ mode' = "text"
  /\ width' = 0 /\ pad' = {} /\ u' = 0 /\ neg' = FALSE /\ s' = <<>> /\ field' = NoField
  /\ UNCHANGED <<lib, out, pc>>

Next ==
  \/ \E c \in {Ordinary, NL} : Literal(c)
  \/ Percent \/ RightFlag \/ ZeroFlag \/ Unknown \/ Finish
  \/ \E d \in 0 .. Dec - 1 : WidthDigit(d)
  \/ \E spec \in {"d", "u", "x"}, v \in Words : Number(spec, v)
  \/ \E str \in Strings : String(str)
  \/ Digit \/ Sign \/ Prints \/ Continue

Spec == Init /\ [][Next]_vars

-----------------------------------------------------------------------------
(* Every variable keeps its type; the count never exceeds what is written. *)
TypeOK ==
  /\ lib \in {"ethmac", "mini"}
  /\ mode \in {"text", "flag", "zeros", "width", "digits", "pad", "shown", "end"}
  /\ width \in 0 .. MaxWidth /\ pad \in SUBSET {"right", "zero"}
  /\ u \in Words /\ neg \in BOOLEAN
  /\ pc \in 0 .. Len(out)

(* What print returns is the number of characters it has written (a new    *)
(* line of mini-libc is one): put_line keeps that many bytes of a line and *)
(* no more (line-buffer.c:99).                                             *)
CountIsOutput == pc = Len(out) - Len(SelectSeq(out, LAMBDA c : c = CR))

Text == SubSeq(out, field.start + 1, Len(out))
Bare(str) == SelectSeq(str, LAMBDA c : c # Blank)
Base == IF field.spec = "x" THEN 2 ^ HexBits ELSE Dec
ValueOf(str) == FoldLeft(LAMBDA acc, c : acc * Base + (IF c >= Letters THEN c - Letters ELSE c), 0, str)
ReadBack(str) ==
  IF Bare(str) # <<>> /\ Head(Bare(str)) = Minus THEN -ValueOf(Tail(Bare(str))) ELSE ValueOf(Bare(str))

(* What the signed _div can take apart.                                    *)
Printable ==
  field.spec = "x" \/ ~Negative(field.value) \/ (field.spec = "d" /\ field.value # M \div 2)

(* A number in a field reads back as the argument, and there is no sign    *)
(* between its zeros: %d as a signed number, %u and %x as an unsigned one, *)
(* except where the flags ask for zeros behind the number.                 *)
ReadsBack ==
  mode = "shown" /\ field.spec # "s" /\ Printable /\ field.pad # {"right", "zero"} =>
    /\ ReadBack(Text) = IF field.spec = "d" THEN Signed(field.value) ELSE field.value
    /\ \A i \in 2 .. Len(Text) : Text[i] = Minus => Text[i - 1] = Blank

(* A field is as wide as the format says, and wider only when its text is. *)
FieldIsAsWideAsAsked ==
  mode = "shown" =>
    \/ Len(Text) = field.width
    \/ /\ Len(Text) > field.width
       /\ \A i \in 1 .. Len(Text) : Text[i] # Blank
       /\ field.spec # "s" /\ field.value # 0 => SelectSeq(Text, LAMBDA c : c # Minus)[1] # 0

(* The digits and the sign of every int fit in print_buf, which has no     *)
(* check ("should be enough for 32 bit int", printf.c:47): the loop over   *)
(* the digits ends in time.                                                *)
FitsPrintBuf == field.spec # "s" => Len(s) < BufLen
=============================================================================
