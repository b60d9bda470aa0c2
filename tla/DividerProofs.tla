--------------------------- MODULE DividerProofs ---------------------------
(***************************************************************************)
(* The divider returns what RV32M asks for, for every width of a word,     *)
(* every pair of operands and every pattern of aborted starts.             *)
(*                                                                         *)
(* The invariant of the algorithm: when R is the weight of the bits of the *)
(* dividend A that have come into minuend,                                 *)
(*                                                                         *)
(*    A * R  =  (2 * div_result * divisor + minuend) * Top + low bits      *)
(*                                                                         *)
(* where the low bits are those of dividend_r below its top one.           *)
(***************************************************************************)
EXTENDS Divider, TLAPS, WellFoundedInduction

Accepted == [op : DivOps, a : Words, b : Words, rd : Regs]

(* What Prepare makes of an operand.                                       *)
AbsOf(d, x) == IF d.op \in {"DIV", "REM"} /\ Negative(x) THEN Neg(x) ELSE x

Typed == /\ TypeOK
         /\ busy_o \in BOOLEAN /\ ready_o \in BOOLEAN /\ invert_result \in BOOLEAN
         /\ op_r \in DivOps

InStart == state = "START" =>
  /\ asked \in Accepted
  /\ op_r = asked.op /\ reg_waddr_o = asked.rd
  /\ dividend_r = asked.a /\ divisor_r = asked.b

Prepared == state \in {"CALC", "END"} =>
  /\ asked \in Accepted /\ asked.b # 0
  /\ op_r = asked.op /\ reg_waddr_o = asked.rd
  /\ divisor_r = AbsOf(asked, asked.b)
  /\ invert_result = SignOf(asked.op, asked.a, asked.b)

(* R is 1 when the first bit is in, and doubles while the count halves.    *)
Weighed(n, R) == /\ n * R = (2 * (div_result * divisor_r) + minuend) * Top
                            + (dividend_r % Top)
                 /\ IF count = 0 THEN R = Top ELSE R * count = FirstCount

InCalc == state = "CALC" =>
  /\ minuend < 2 * divisor_r
  /\ \E R \in 1 .. Top : Weighed(AbsOf(asked, asked.a), R)
  /\ count \in {0} \cup {2^i : i \in 0 .. W - 2}

InEnd == state = "END" =>
  /\ div_result = AbsOf(asked, asked.a) \div divisor_r
  /\ div_remain = AbsOf(asked, asked.a) % divisor_r

DInv == Typed /\ InStart /\ Prepared /\ InCalc /\ InEnd /\ ResultCorrect

-----------------------------------------------------------------------------
(* Arithmetic.                                                             *)
LEMMA DivMod ==
  ASSUME NEW x \in Int, NEW m \in Nat \ {0}
  PROVE  /\ x \div m \in Int /\ x % m \in 0 .. m - 1
         /\ x = m * (x \div m) + (x % m)
<1>1. x \div m \in Int /\ x % m \in 0 .. m - 1
  OBVIOUS
<1>2. x = m * (x \div m) + (x % m)
  BY Z3
<1> QED
  BY <1>1, <1>2

LEMMA DivModIs ==
  ASSUME NEW x \in Int, NEW m \in Nat \ {0}, NEW q \in Int, NEW r \in 0 .. m - 1,
         x = q * m + r
  PROVE  x \div m = q /\ x % m = r
  OBVIOUS

(* A product is monotonic.                                                 *)
LEMMA TimesMonotonic ==
  ASSUME NEW a \in Nat, NEW b \in Nat, NEW c \in Nat, a <= b
  PROVE  a * c <= b * c /\ c * a <= c * b
  OBVIOUS

(* The weights of the upper bits, and what is built from them.             *)
LEMMA Weights ==
  /\ FirstCount \in Nat \ {0} /\ Top = 2 * FirstCount
  /\ Top \in Nat \ {0} /\ 2^W = 2 * Top /\ 2^(W - 1) = Top /\ 2^(W - 2) = FirstCount
  /\ Words = 0 .. 2 * Top - 1 /\ MinusOne = 2 * Top - 1
<1>1. W - 2 \in 0 .. W - 1 /\ W - 1 \in 0 .. W - 1 /\ W - 2 + 1 = W - 1 /\ W - 1 + 1 = W
  BY WAssumption
<1>2. 2^(W - 2) \in Nat \ {0} /\ 2^(W - 2 + 1) = 2 * 2^(W - 2)
  BY <1>1, PowersOfTwo
<1>3. 2^(W - 1 + 1) = 2 * 2^(W - 1)
  BY <1>1, PowersOfTwo
<1>4. 2^(W - 1) = 2 * 2^(W - 2) /\ 2^W = 2 * 2^(W - 1)
  BY <1>1, <1>2, <1>3
<1> QED
  BY <1>2, <1>4 DEF FirstCount, Top, Words, MinusOne

LEMMA NegIs ==
  ASSUME NEW x \in Words
  PROVE  /\ Neg(x) \in Words
         /\ Neg(x) = IF x = 0 THEN 0 ELSE 2 * Top - x
<1>1. Top \in Nat \ {0} /\ Words = 0 .. 2 * Top - 1 /\ Neg(x) = (2 * Top - x) % (2 * Top)
  BY Weights DEF Neg
<1>2. CASE x = 0
  <2>1. (2 * Top) % (2 * Top) = 0
    BY <1>1, DivModIs
  <2> QED
    BY <1>1, <1>2, <2>1
<1>3. CASE x # 0
  <2>1. 2 * Top - x \in 0 .. 2 * Top - 1
    BY <1>1, <1>3
  <2>2. (2 * Top - x) % (2 * Top) = 2 * Top - x
    BY <1>1, <2>1
  <2> QED
    BY <1>1, <1>3, <2>1, <2>2
<1> QED
  BY <1>2, <1>3

LEMMA AbsIs ==
  ASSUME NEW d, NEW x \in Words
  PROVE  /\ AbsOf(d, x) \in Words
         /\ x # 0 => AbsOf(d, x) # 0
<1>1. AbsOf(d, x) \in {x, Neg(x)}
  BY DEF AbsOf
<1>2. Neg(x) \in Words /\ (x # 0 => Neg(x) = 2 * Top - x)
  BY NegIs
<1>3. x # 0 => 2 * Top - x # 0
  BY Weights
<1> QED
  BY <1>1, <1>2, <1>3

LEMMA TopBit ==
  ASSUME NEW x \in Words
  PROVE  /\ Bit(x, W - 1) \in {0, 1}
         /\ x = Bit(x, W - 1) * Top + (x % Top)
         /\ x % Top \in 0 .. Top - 1
<1>1. Top \in Nat \ {0} /\ x \in 0 .. 2 * Top - 1 /\ x \in Int
  BY Weights
<1>2. /\ x \div Top \in Int /\ x % Top \in 0 .. Top - 1
      /\ x = Top * (x \div Top) + (x % Top)
  BY <1>1, DivMod
<1>3. x \div Top \in {0, 1}
  BY <1>1, <1>2
<1>4. Bit(x, W - 1) = x \div Top
  BY <1>3, Weights DEF Bit
<1> QED
  BY <1>1, <1>2, <1>3, <1>4

(* The next bit of the dividend, and the shift.                            *)
LEMMA NextBit ==
  ASSUME NEW x \in Words
  PROVE  /\ Bit(x, W - 2) \in {0, 1}
         /\ ShiftIn(x, 0) \in Words
         /\ 2 * (x % Top) = Bit(x, W - 2) * Top + (ShiftIn(x, 0) % Top)
<1> DEFINE F == FirstCount
<1>1. F \in Nat \ {0} /\ Top = 2 * F /\ x \in 0 .. 4 * F - 1 /\ Top \in Nat \ {0}
  BY Weights
<1> HIDE DEF F
<1>2. PICK h \in {0, 1}, e \in 0 .. Top - 1 : x = h * Top + e
  BY TopBit
<1>3. x % Top = e
  BY <1>1, <1>2, DivModIs
<1>4. PICK b \in {0, 1}, l \in 0 .. F - 1 : e = b * F + l
  <2>1. e \div F \in Int /\ e % F \in 0 .. F - 1 /\ e = F * (e \div F) + (e % F)
    BY <1>1, DivMod
  <2>2. e \div F \in {0, 1}
    BY <1>1, <2>1
  <2> QED
    BY <1>1, <2>1, <2>2
<1>5. Bit(x, W - 2) = b
  <2>1. x = (2 * h + b) * F + l
    BY <1>1, <1>2, <1>4
  <2>2. x \div F = 2 * h + b
    BY <1>1, <2>1, DivModIs
  <2>3. (2 * h + b) % 2 = b
    OBVIOUS
  <2> QED
    BY <2>2, <2>3, Weights DEF Bit, F
<1>6. ShiftIn(x, 0) = b * Top + 2 * l
  <2> DEFINE m == 4 * F
             r == b * Top + 2 * l
  <2>1. m \in Nat \ {0} /\ r \in 0 .. m - 1 /\ 2 * x + 0 = h * m + r
    BY <1>1, <1>2, <1>4
  <2>2. ShiftIn(x, 0) = (2 * x + 0) % m
    BY <1>1, Weights DEF ShiftIn, F
  <2> HIDE DEF m, r
  <2>3. (2 * x + 0) % m = r
    BY <1>1, <2>1, DivModIs
  <2> QED
    BY <2>2, <2>3 DEF r
<1>7. ShiftIn(x, 0) \in Words
  BY <1>1, <1>4, <1>6, Weights
<1>8. ShiftIn(x, 0) % Top = 2 * l
  <2> DEFINE y == ShiftIn(x, 0)
             r == 2 * l
  <2>1. r \in 0 .. Top - 1 /\ y \in Int /\ y = b * Top + r
    BY <1>1, <1>4, <1>6
  <2> HIDE DEF y, r
  <2>2. y % Top = r
    BY <1>1, <2>1, DivModIs
  <2> QED
    BY <2>2 DEF y, r
<1>9. 2 * e = b * Top + 2 * l
  BY <1>1, <1>4
<1> QED
  BY <1>3, <1>5, <1>7, <1>8, <1>9

-----------------------------------------------------------------------------
(* One digit of the quotient q by the divisor d, seen from the prefix      *)
(* 2 * q * d + m of the dividend n, of which e are the bits below it: the  *)
(* new quotient and the difference make up the same prefix, which is no    *)
(* longer than the dividend; while bits are left it is shorter than the    *)
(* truncation.                                                             *)
DigitAt(n, d, q, m, e, R) ==
  /\ n \in Words /\ d \in Nat \ {0} /\ q \in Nat /\ m \in 0 .. 2 * d - 1
  /\ e \in 0 .. Top - 1 /\ R \in 1 .. Top
  /\ n * R = (2 * (q * d) + m) * Top + e

LEMMA Digit ==
  ASSUME NEW n, NEW d, NEW q, NEW m, NEW e, NEW R, DigitAt(n, d, q, m, e, R),
         NEW b, b = IF m >= d THEN 1 ELSE 0,
         NEW r, r = IF m >= d THEN m - d ELSE m
  PROVE  /\ r \in 0 .. d - 1 /\ 2 * q + b \in 0 .. n
         /\ 2 * (q * d) + m = (2 * q + b) * d + r
         /\ R <= FirstCount => r < Top
<1> USE DEF DigitAt
<1> DEFINE p == q * d
           N == 2 * p + m
<1>1. Top \in Nat \ {0} /\ n \in Nat
  BY Weights
<1>2. p \in Nat /\ N \in Nat /\ r \in 0 .. d - 1
  OBVIOUS
<1>3. N = (2 * q + b) * d + r
  <2>1. CASE m >= d
    BY <2>1
  <2>2. CASE ~(m >= d)
    BY <2>2
  <2> QED
    BY <2>1, <2>2
<1>4. N * Top + e = n * R
  OBVIOUS
<1> HIDE DEF p, N
<1>5. n * R <= n * Top
  BY <1>1, TimesMonotonic
<1>6. N <= n
  <2>1. SUFFICES ASSUME N >= n + 1 PROVE FALSE
    BY <1>1, <1>2
  <2>2. (n + 1) * Top <= N * Top
    BY <1>1, <1>2, <2>1, TimesMonotonic
  <2>3. (n + 1) * Top = n * Top + Top
    BY <1>1
  <2>4. N * Top \in Nat /\ n * R \in Nat /\ n * Top \in Nat
    BY <1>1, <1>2
  <2> QED
    BY <1>1, <1>4, <1>5, <2>2, <2>3, <2>4
<1>7. 2 * q + b \in 0 .. n
  <2> DEFINE k == 2 * q + b
  <2>1. k \in Nat
    OBVIOUS
  <2> HIDE DEF k
  <2>2. k <= k * d /\ k * d \in Nat
    BY <2>1
  <2>3. k * d <= N
    BY <1>2, <1>3, <2>2 DEF k
  <2> QED
    BY <1>1, <1>2, <1>6, <2>1, <2>2, <2>3 DEF k
<1>8. ASSUME R <= FirstCount PROVE r < Top
  <2>1. n + 1 <= 2 * Top /\ FirstCount \in Nat /\ 2 * FirstCount = Top
    BY Weights
  <2>2. n * R <= n * FirstCount
    BY <1>1, <1>8, <2>1, TimesMonotonic
  <2>3. (n + 1) * FirstCount <= (2 * Top) * FirstCount
    BY <1>1, <2>1, TimesMonotonic
  <2>4. (n + 1) * FirstCount = n * FirstCount + FirstCount
    BY <1>1, <2>1
  <2>5. (2 * Top) * FirstCount = Top * Top
    BY <1>1, <2>1
  <2>6. FirstCount > 0
    BY Weights
  <2>7. N * Top < Top * Top
    <3>1. N * Top \in Nat /\ n * R \in Nat /\ n * FirstCount \in Nat /\ Top * Top \in Nat
      BY <1>1, <1>2, <2>1
    <3> QED
      BY <1>4, <2>1, <2>2, <2>3, <2>4, <2>5, <2>6, <3>1
  <2>8. N < Top
    <3>1. SUFFICES ASSUME Top <= N PROVE FALSE
      BY <1>1, <1>2
    <3>2. Top * Top <= N * Top
      BY <1>1, <1>2, <3>1, TimesMonotonic
    <3> QED
      BY <1>1, <1>2, <2>7, <3>2
  <2>9. r <= N
    BY <1>2, <1>3
  <2> QED
    BY <1>1, <1>2, <2>8, <2>9
<1> QED
  BY <1>2, <1>3, <1>7, <1>8 DEF N, p

-----------------------------------------------------------------------------
(* Two's complement.                                                       *)
LEMMA SignedIs ==
  ASSUME NEW d, d.op \in {"DIV", "REM"}, NEW x \in Words
  PROVE  /\ Signed(x) = IF Negative(x) THEN -AbsOf(d, x) ELSE AbsOf(d, x)
         /\ AbsInt(Signed(x)) = AbsOf(d, x)
         /\ Signed(x) < 0 <=> Negative(x)
<1>1. Top \in Nat \ {0} /\ x \in 0 .. 2 * Top - 1 /\ 2^W = 2 * Top
  BY Weights
<1>2. Negative(x) <=> x >= Top
  BY DEF Negative
<1>3. Signed(x) = IF Negative(x) THEN x - 2 * Top ELSE x
  BY <1>1 DEF Signed
<1>4. AbsOf(d, x) = IF Negative(x) THEN 2 * Top - x ELSE x
  BY <1>1, <1>2, NegIs DEF AbsOf
<1> QED
  BY <1>1, <1>2, <1>3, <1>4 DEF AbsInt

LEMMA UnsignedIs ==
  ASSUME NEW q \in Words
  PROVE  Unsigned(q) = q /\ Unsigned(-q) = Neg(q)
<1>1. Top \in Nat \ {0} /\ q \in 0 .. 2 * Top - 1 /\ 2^W = 2 * Top
  BY Weights
<1>2. q % (2 * Top) = q
  BY <1>1
<1>3. (-q) % (2 * Top) = IF q = 0 THEN 0 ELSE 2 * Top - q
  <2>1. CASE q = 0
    BY <1>1, <1>2, <2>1
  <2>2. CASE q # 0
    <3> DEFINE m == 2 * Top
               r == m - q
    <3>1. m \in Nat \ {0} /\ r \in 0 .. m - 1 /\ -q = (-1) * m + r
      BY <1>1, <2>2
    <3> HIDE DEF m, r
    <3>2. (-q) % m = r
      BY <1>1, <3>1, DivModIs
    <3> QED
      BY <2>2, <3>2 DEF m, r
  <2> QED
    BY <2>1, <2>2
<1> QED
  BY <1>1, <1>2, <1>3, NegIs DEF Unsigned

(* The quotient and the remainder of a division of words are words.        *)
LEMMA DivWords ==
  ASSUME NEW n \in Words, NEW d \in Words, d # 0
  PROVE  /\ n \div d \in Words /\ n % d \in Words
         /\ n - d * (n \div d) = n % d
<1> DEFINE q == n \div d
           m == n % d
<1>1. n \in Nat /\ d \in Nat \ {0} /\ n \in 0 .. 2 * Top - 1 /\ d \in 0 .. 2 * Top - 1
      /\ Top \in Nat \ {0}
  BY Weights
<1>2. q \in Int /\ m \in 0 .. d - 1 /\ n = d * q + m
  <2>1. n \in Int /\ d \in Nat \ {0}
    BY <1>1
  <2> QED
    BY <2>1, DivMod
<1> HIDE DEF q, m
<1>3. q >= 0
  <2>1. SUFFICES ASSUME q <= -1 PROVE FALSE
    BY <1>2
  <2>2. d * q <= -d
    BY <1>1, <1>2, <2>1
  <2> QED
    BY <1>1, <1>2, <2>2
<1>4. q <= n
  <2>1. q <= d * q
    BY <1>1, <1>2, <1>3
  <2> QED
    BY <1>1, <1>2, <1>3, <2>1
<1>5. q \in Words /\ m \in Words /\ n - d * q = m
  BY <1>1, <1>2, <1>3, <1>4, Weights
<1> QED
  BY <1>5 DEF q, m

(* Quotient and Remainder by the signs of their operands.                  *)
LEMMA BySigns ==
  ASSUME NEW n \in Nat, NEW d \in Nat, NEW x \in Int, NEW y \in Int,
         AbsInt(x) = n, AbsInt(y) = d, n \div d \in Int
  PROVE  /\ Quotient(x, y) = IF (x < 0) # (y < 0) THEN -(n \div d) ELSE n \div d
         /\ Remainder(x, y) = IF x < 0 THEN -(n - d * (n \div d)) ELSE n - d * (n \div d)
<1> DEFINE q == n \div d
<1>1. Quotient(x, y) = IF (x < 0) # (y < 0) THEN -q ELSE q
  BY DEF Quotient
<1>2. Remainder(x, y) = x - y * Quotient(x, y)
  BY DEF Remainder
<1>3. q \in Int /\ x = (IF x < 0 THEN -n ELSE n) /\ y = (IF y < 0 THEN -d ELSE d)
  BY DEF AbsInt
<1> HIDE DEF q
<1>4. (-d) * q = -(d * q) /\ d * (-q) = -(d * q) /\ (-d) * (-q) = d * q /\ d * q \in Int
  BY <1>3
<1>5. CASE x < 0 /\ y < 0
  BY <1>1, <1>2, <1>3, <1>4, <1>5 DEF q
<1>6. CASE x < 0 /\ ~(y < 0)
  BY <1>1, <1>2, <1>3, <1>4, <1>6 DEF q
<1>7. CASE ~(x < 0) /\ y < 0
  BY <1>1, <1>2, <1>3, <1>4, <1>7 DEF q
<1>8. CASE ~(x < 0) /\ ~(y < 0)
  BY <1>1, <1>2, <1>3, <1>4, <1>8 DEF q
<1> QED
  BY <1>5, <1>6, <1>7, <1>8

(* What the divider computes from absolute values is what RV32M asks for.  *)
LEMMA ExpectedIs ==
  ASSUME NEW c \in Accepted, c.b # 0,
         NEW r, r = IF c.op \in {"DIV", "DIVU"} THEN AbsOf(c, c.a) \div AbsOf(c, c.b)
                    ELSE AbsOf(c, c.a) % AbsOf(c, c.b)
  PROVE  Expected(c) = IF SignOf(c.op, c.a, c.b) THEN Neg(r) ELSE r
<1> DEFINE n == AbsOf(c, c.a)
           d == AbsOf(c, c.b)
<1>1. c.op \in DivOps /\ c.a \in Words /\ c.b \in Words
  BY DEF Accepted
<1>2. n \in Words /\ d \in Words /\ d # 0
  BY <1>1, AbsIs
<1>3. /\ n \div d \in Words /\ n % d \in Words
      /\ n - d * (n \div d) = n % d
  BY <1>2, DivWords
<1>4. n \in Nat /\ d \in Nat /\ n \div d \in Int
  BY <1>2, <1>3, Weights
<1>5. CASE c.op \in {"DIVU", "REMU"}
  BY <1>1, <1>5 DEF Expected, SignOf, AbsOf
<1>6. CASE c.op \in {"DIV", "REM"}
  <2> DEFINE x == Signed(c.a)
             y == Signed(c.b)
  <2>1. /\ x \in Int /\ AbsInt(x) = n /\ (x < 0 <=> Negative(c.a))
        /\ y \in Int /\ AbsInt(y) = d /\ (y < 0 <=> Negative(c.b))
    BY <1>1, <1>4, <1>6, SignedIs
  <2> HIDE DEF n, d, x, y
  <2>2. /\ Quotient(x, y) = IF (x < 0) # (y < 0) THEN -(n \div d) ELSE n \div d
        /\ Remainder(x, y) = IF x < 0 THEN -(n % d) ELSE n % d
    BY <1>3, <1>4, <2>1, BySigns
  <2>3. /\ Unsigned(n \div d) = n \div d /\ Unsigned(-(n \div d)) = Neg(n \div d)
        /\ Unsigned(n % d) = n % d /\ Unsigned(-(n % d)) = Neg(n % d)
    BY <1>3, UnsignedIs
  <2>4. CASE c.op = "DIV"
    <3>1. Expected(c) = Unsigned(Quotient(x, y)) /\ r = n \div d
      BY <2>4 DEF Expected, x, y, n, d
    <3>2. SignOf(c.op, c.a, c.b) <=> (x < 0) # (y < 0)
      BY <2>1, <2>4 DEF SignOf, Negative
    <3> QED
      BY <2>2, <2>3, <3>1, <3>2
  <2>5. CASE c.op = "REM"
    <3>1. Expected(c) = Unsigned(Remainder(x, y)) /\ r = n % d
      BY <2>5 DEF Expected, x, y, n, d
    <3>2. SignOf(c.op, c.a, c.b) <=> x < 0
      BY <2>1, <2>5 DEF SignOf
    <3> QED
      BY <2>2, <2>3, <3>1, <3>2
  <2> QED
    BY <1>6, <2>4, <2>5
<1> QED
  BY <1>1, <1>5, <1>6 DEF DivOps

-----------------------------------------------------------------------------
(* The invariant, one lemma for each action.                               *)

LEMMA ZeroWord == 0 \in Words /\ MinusOne \in Words /\ Words \subseteq Nat
  BY Weights

(* The operands of a division that has been prepared.                      *)
LEMMA Operands ==
  ASSUME DInv, state \in {"CALC", "END"}
  PROVE  /\ asked \in Accepted /\ asked.b # 0
         /\ AbsOf(asked, asked.a) \in Words
         /\ divisor_r \in Words /\ divisor_r # 0 /\ divisor_r \in Nat \ {0}
<1>1. asked \in Accepted /\ asked.b # 0 /\ divisor_r = AbsOf(asked, asked.b)
  BY DEF DInv, Prepared
<1>2. asked.a \in Words /\ asked.b \in Words
  BY <1>1 DEF Accepted
<1> QED
  BY <1>1, <1>2, AbsIs, Weights

LEMMA InitDInv == Init => DInv
<1> SUFFICES ASSUME Init PROVE DInv
  OBVIOUS
<1>1. Typed
  BY ZeroWord, RegsAssumption DEF Init, Typed, TypeOK, DivStates, DivOps
<1> QED
  BY <1>1 DEF Init, DInv, InStart, Prepared, InCalc, InEnd, ResultCorrect

LEMMA AcceptStep ==
  ASSUME DInv, NEW op \in DivOps, NEW a \in Words, NEW b \in Words, NEW rd \in Regs,
         Accept(op, a, b, rd)
  PROVE  DInv'
<1>1. Typed'
  BY DEF DInv, Accept, Typed, TypeOK, DivStates
<1>2. asked' \in Accepted
  BY DEF Accept, Accepted
<1>3. InStart'
  BY <1>2 DEF Accept, InStart
<1>4. state' = "START" /\ busy_o'
  BY DEF Accept
<1> QED
  BY <1>1, <1>3, <1>4 DEF DInv, Prepared, InCalc, InEnd, ResultCorrect

LEMMA RestStep ==
  ASSUME DInv, Rest
  PROVE  DInv'
<1>1. Typed'
  BY ZeroWord, RegsAssumption DEF DInv, Rest, Typed, TypeOK, DivStates, DivOps
<1> QED
  BY <1>1 DEF Rest, DInv, InStart, Prepared, InCalc, InEnd, ResultCorrect

LEMMA AbortStep ==
  ASSUME DInv, Abort
  PROVE  DInv'
<1>1. Typed'
  BY ZeroWord DEF DInv, Abort, Typed, TypeOK, DivStates
<1> QED
  BY <1>1 DEF Abort, DInv, InStart, Prepared, InCalc, InEnd, ResultCorrect

LEMMA ByZeroStep ==
  ASSUME DInv, ByZero
  PROVE  DInv'
<1>1. /\ asked \in Accepted /\ op_r = asked.op /\ reg_waddr_o = asked.rd
      /\ dividend_r = asked.a /\ asked.b = 0
  BY DEF DInv, InStart, ByZero
<1>2. op_r \in DivOps
  BY <1>1 DEF Accepted
<1>3. Expected(asked) = IF op_r \in {"DIV", "DIVU"} THEN MinusOne ELSE dividend_r
  BY <1>1, <1>2 DEF Expected, DivOps
<1>4. ResultCorrect'
  BY <1>1, <1>3 DEF ByZero, ResultCorrect, Expected
<1>5. Typed'
  BY ZeroWord DEF DInv, ByZero, Typed, TypeOK, DivStates
<1>6. state' = "IDLE"
  BY DEF ByZero
<1> QED
  BY <1>4, <1>5, <1>6 DEF DInv, InStart, Prepared, InCalc, InEnd

LEMMA PrepareStep ==
  ASSUME DInv, Prepare
  PROVE  DInv'
<1> DEFINE n == AbsOf(asked, asked.a)
           d == AbsOf(asked, asked.b)
<1>1. /\ asked \in Accepted /\ op_r = asked.op /\ reg_waddr_o = asked.rd
      /\ dividend_r = asked.a /\ divisor_r = asked.b /\ asked.b # 0
  BY DEF DInv, InStart, Prepare
<1>2. /\ state' = "CALC" /\ busy_o' = TRUE /\ count' = FirstCount
      /\ div_result' = 0 /\ div_remain' = 0
      /\ dividend_r' = n /\ divisor_r' = d /\ minuend' = Bit(n, W - 1)
      /\ invert_result' = SignOf(asked.op, asked.a, asked.b)
      /\ UNCHANGED <<ready_o, result_o, reg_waddr_o, op_r, asked>>
  BY <1>1 DEF Prepare, AbsOf
<1>3. n \in Words /\ d \in Words /\ d # 0
  BY <1>1, AbsIs DEF Accepted
<1>4. /\ Bit(n, W - 1) \in {0, 1} /\ n = Bit(n, W - 1) * Top + (n % Top)
      /\ n % Top \in 0 .. Top - 1
  BY <1>3, TopBit
<1> HIDE DEF n, d
<1>5. FirstCount \in Words /\ Bit(n, W - 1) \in Words
  <2>1. {0, 1} \subseteq Words /\ FirstCount \in Words
    BY Weights
  <2> QED
    BY <1>4, <2>1
<1>6. invert_result' \in BOOLEAN
  BY <1>2 DEF SignOf
<1>7. Typed'
  BY <1>2, <1>3, <1>5, <1>6, ZeroWord DEF DInv, Typed, TypeOK, DivStates
<1>8. Prepared'
  BY <1>1, <1>2 DEF Prepared, AbsOf, d, Negative, Neg, Top
<1>9. InCalc'
  <2>1. AbsOf(asked, asked.a)' = n
    BY <1>2 DEF n, AbsOf, Negative, Neg, Top
  <2>2. minuend' < 2 * divisor_r'
    BY <1>2, <1>3, <1>4, ZeroWord
  <2>3. Weighed(AbsOf(asked, asked.a), 1)'
    <3>1. n * 1 = (2 * (0 * d) + Bit(n, W - 1)) * Top + (n % Top)
      BY <1>3, <1>4, Weights
    <3>2. FirstCount # 0 /\ 1 * FirstCount = FirstCount
      BY Weights
    <3> QED
      BY <1>2, <2>1, <3>1, <3>2 DEF Weighed, Top, FirstCount
  <2>4. 1 \in 1 .. Top
    BY Weights
  <2>5. count' \in {2^i : i \in 0 .. W - 2}
    BY <1>2, Weights, WAssumption
  <2> QED
    BY <2>1, <2>2, <2>3, <2>4, <2>5 DEF InCalc, Top
<1> QED
  BY <1>2, <1>7, <1>8, <1>9 DEF DInv, InStart, InEnd, ResultCorrect

(* A clock of STATE_CALC decides one digit (Digit) and, unless it was the  *)
(* last, brings the next bit in (NextBit).                                 *)
LEMMA CalcDigit ==
  ASSUME DInv, state = "CALC", NEW R \in 1 .. Top,
         Weighed(AbsOf(asked, asked.a), R)
  PROVE  LET n == AbsOf(asked, asked.a)
             b == IF Subtract THEN 1 ELSE 0
             r == IF Subtract THEN minuend - divisor_r ELSE minuend
         IN  /\ r \in 0 .. divisor_r - 1
             /\ ShiftIn(div_result, b) \in Words
             /\ n * R = (ShiftIn(div_result, b) * divisor_r + r) * Top + (dividend_r % Top)
             /\ R <= FirstCount => r < Top
<1> DEFINE n == AbsOf(asked, asked.a)
           b == IF Subtract THEN 1 ELSE 0
           r == IF Subtract THEN minuend - divisor_r ELSE minuend
           e == dividend_r % Top
           q == div_result
           d == divisor_r
           m == minuend
<1>1. n \in Words /\ d \in Nat \ {0}
  BY Operands
<1>2. m < 2 * d /\ m \in Words /\ q \in Words /\ dividend_r \in Words
  BY DEF DInv, Typed, TypeOK, InCalc
<1>3. m \in 0 .. 2 * d - 1 /\ q \in Nat
  BY <1>1, <1>2, ZeroWord, Weights
<1>4. e \in 0 .. Top - 1
  BY <1>2, TopBit
<1>5. n * R = (2 * (q * d) + m) * Top + e
  BY DEF Weighed
<1>6. b \in {0, 1} /\ b = (IF m >= d THEN 1 ELSE 0) /\ r = (IF m >= d THEN m - d ELSE m)
  BY DEF Subtract
<1> HIDE DEF n, b, r, e, q, d, m
<1>7. /\ r \in 0 .. d - 1 /\ 2 * q + b \in 0 .. n
      /\ 2 * (q * d) + m = (2 * q + b) * d + r
      /\ R <= FirstCount => r < Top
  <2>1. DigitAt(n, d, q, m, e, R)
    BY <1>1, <1>3, <1>4, <1>5 DEF DigitAt
  <2> QED
    BY <1>6, <2>1, Digit
<1>8. ShiftIn(q, b) = 2 * q + b /\ ShiftIn(q, b) \in Words
  <2>1. n \in 0 .. 2 * Top - 1 /\ Top \in Nat \ {0} /\ 2^W = 2 * Top /\ Words = 0 .. 2 * Top - 1
    BY <1>1, Weights
  <2>2. 2 * q + b \in 0 .. 2 * Top - 1
    BY <1>7, <2>1
  <2>3. (2 * q + b) % (2 * Top) = 2 * q + b
    BY <2>1, <2>2
  <2> QED
    BY <2>1, <2>2, <2>3 DEF ShiftIn
<1>9. n * R = (ShiftIn(q, b) * d + r) * Top + e
  BY <1>5, <1>7, <1>8
<1> QED
  BY <1>7, <1>8, <1>9 DEF n, b, r, e, q, d, m

(* The one-hot count halves while the weight doubles.                      *)
LEMMA CountHalves ==
  ASSUME count \in {2^i : i \in 0 .. W - 2}, NEW R \in 1 .. Top, R * count = FirstCount
  PROVE  /\ R <= FirstCount /\ 2 * R \in 1 .. Top
         /\ CountStep \in {0} \cup {2^i : i \in 0 .. W - 2}
         /\ IF CountStep = 0 THEN 2 * R = Top ELSE (2 * R) * CountStep = FirstCount
<1>1. PICK i \in 0 .. W - 2 : count = 2^i
  OBVIOUS
<1>2. FirstCount \in Nat \ {0} /\ Top = 2 * FirstCount
  BY Weights
<1>3. i \in 0 .. W - 1
  BY <1>1, WAssumption
<1>4. count \in Nat \ {0}
  BY <1>1, <1>3, PowersOfTwo
<1>5. R <= R * count
  BY <1>4
<1>6. R <= FirstCount /\ 2 * R \in 1 .. Top
  BY <1>2, <1>5
<1>7. CASE i = 0
  <2>1. count = 1
    BY <1>1, <1>7
  <2>2. CountStep = 0 /\ R = FirstCount
    BY <2>1, <1>2 DEF CountStep
  <2> QED
    BY <1>2, <1>6, <2>2
<1>8. CASE i # 0
  <2> DEFINE c == 2^(i - 1)
  <2>1. i - 1 \in 0 .. W - 1 /\ i - 1 \in 0 .. W - 2 /\ i - 1 + 1 = i
    BY <1>1, <1>8, WAssumption
  <2>2. c \in Nat \ {0} /\ 2^(i - 1 + 1) = 2 * c
    BY <2>1, PowersOfTwo
  <2>3. c \in {2^j : j \in 0 .. W - 2} /\ count = 2 * c
    BY <1>1, <2>1, <2>2
  <2> HIDE DEF c
  <2>4. CountStep = c
    BY <2>2, <2>3 DEF CountStep
  <2>5. (2 * R) * c = R * (2 * c)
    BY <2>2
  <2> QED
    BY <1>6, <2>2, <2>3, <2>4, <2>5
<1> QED
  BY <1>7, <1>8

LEMMA CalcStep ==
  ASSUME DInv, Calc
  PROVE  DInv'
<1> DEFINE n == AbsOf(asked, asked.a)
           b == IF Subtract THEN 1 ELSE 0
           r == IF Subtract THEN minuend - divisor_r ELSE minuend
           q == ShiftIn(div_result, b)
           d == divisor_r
           x == ShiftIn(dividend_r, 0)
           t == Bit(dividend_r, W - 2)
<1>1. /\ state = "CALC" /\ dividend_r' = x /\ div_result' = q /\ count' = CountStep
      /\ IF count # 0
         THEN /\ minuend' = ShiftIn(r % Top, t)
              /\ UNCHANGED <<state, div_remain>>
         ELSE state' = "END" /\ div_remain' = r /\ UNCHANGED minuend
      /\ UNCHANGED <<busy_o, ready_o, result_o, reg_waddr_o, op_r, divisor_r,
                     invert_result, asked>>
  BY DEF Calc
<1>2. PICK R \in 1 .. Top : Weighed(n, R)
  BY <1>1 DEF DInv, InCalc
<1>3. /\ r \in 0 .. d - 1 /\ q \in Words
      /\ n * R = (q * d + r) * Top + (dividend_r % Top)
      /\ R <= FirstCount => r < Top
  BY <1>1, <1>2, CalcDigit
<1>4. n \in Words /\ d \in Words /\ d \in Nat \ {0}
  BY <1>1, Operands
<1>5. dividend_r \in Words /\ count \in Words
  BY DEF DInv, Typed, TypeOK
<1>6. /\ t \in {0, 1} /\ x \in Words
      /\ 2 * (dividend_r % Top) = t * Top + (x % Top)
  BY <1>5, NextBit
<1>7. dividend_r % Top \in 0 .. Top - 1 /\ x % Top \in 0 .. Top - 1
  BY <1>5, <1>6, TopBit
<1>8. n' = n /\ d' = d
  BY <1>1 DEF AbsOf, Negative, Neg, Top
<1>9. Prepared'
  BY <1>1, <1>8 DEF DInv, Prepared, AbsOf, Negative, Neg, Top, SignOf
<1>10. busy_o /\ InStart' /\ ResultCorrect'
  <2>1. busy_o
    BY <1>1 DEF DInv, Typed, TypeOK
  <2> QED
    BY <1>1, <2>1 DEF InStart, ResultCorrect
<1>11. /\ {result_o, div_remain, minuend} \subseteq Words /\ reg_waddr_o \in Regs
       /\ op_r \in DivOps /\ ready_o \in BOOLEAN /\ invert_result \in BOOLEAN
       /\ count \in {0} \cup {2^i : i \in 0 .. W - 2}
  BY <1>1 DEF DInv, Typed, TypeOK, InCalc
<1> HIDE DEF n, b, r, q, d, x, t
<1>12. r \in Words
  BY <1>3, <1>4, Weights
<1>13. CASE count # 0
  <2>1. R * count = FirstCount
    BY <1>2, <1>13 DEF Weighed
  <2>2. /\ R <= FirstCount /\ 2 * R \in 1 .. Top
        /\ CountStep \in {0} \cup {2^i : i \in 0 .. W - 2}
        /\ IF CountStep = 0 THEN 2 * R = Top ELSE (2 * R) * CountStep = FirstCount
    BY <1>11, <1>13, <2>1, CountHalves
  <2>3. minuend' = 2 * r + t /\ 2 * r + t \in Words /\ 2 * r + t < 2 * d
    <3>1. Top \in Nat \ {0} /\ r \in 0 .. Top - 1
      BY <1>3, <1>4, <2>2, Weights
    <3>2. r % Top = r
      BY <3>1
    <3>3. 2 * r + t \in 0 .. 2 * Top - 1
      BY <1>6, <3>1
    <3>4. (2 * r + t) % (2 * Top) = 2 * r + t
      BY <3>1, <3>3
    <3>5. minuend' = 2 * r + t
      BY <1>1, <1>13, <3>2, <3>4, Weights DEF ShiftIn
    <3>6. 2 * r + t < 2 * d
      BY <1>3, <1>4, <1>6
    <3> QED
      BY <3>3, <3>5, <3>6, Weights
  <2>4. n * (2 * R) = (2 * (q * d) + (2 * r + t)) * Top + (x % Top)
    <3> DEFINE p == q * d
               e == dividend_r % Top
               y == x % Top
    <3>1. p \in Nat /\ r \in Nat /\ e \in Nat /\ y \in Nat /\ t \in Nat /\ n \in Nat /\ Top \in Nat
      BY <1>3, <1>4, <1>6, <1>7, Weights, ZeroWord
    <3>2. n * R = (p + r) * Top + e /\ 2 * e = t * Top + y
      BY <1>3, <1>6
    <3> HIDE DEF p, e, y
    <3>3. n * (2 * R) = 2 * (n * R)
      BY <3>1
    <3>4. (2 * p + (2 * r + t)) * Top = 2 * ((p + r) * Top) + t * Top
      BY <3>1
    <3>5. n * (2 * R) = (2 * p + (2 * r + t)) * Top + y
      <4>1. (p + r) * Top \in Nat /\ t * Top \in Nat
        BY <3>1
      <4> QED
        BY <3>1, <3>2, <3>3, <3>4, <4>1
    <3> QED
      BY <3>5 DEF p, e, y
  <2>5. CountStep \in Words
    <3>1. CountStep \in 0 .. count
      BY <1>5, Weights DEF CountStep
    <3> QED
      BY <1>5, <3>1, Weights
  <2>6. Typed'
    BY <1>1, <1>3, <1>4, <1>6, <1>11, <1>13, <2>3, <2>5
       DEF DInv, Typed, TypeOK, DivStates, d
  <2>7. InCalc'
    <3>1. Weighed(n, 2 * R)'
      BY <1>1, <1>8, <2>2, <2>3, <2>4 DEF Weighed, Top, FirstCount, d
    <3> QED
      BY <1>1, <1>8, <2>2, <2>3, <3>1 DEF InCalc, n, Top, d
  <2> QED
    BY <1>1, <1>9, <1>10, <1>13, <2>6, <2>7 DEF DInv, InEnd
<1>14. CASE count = 0
  <2>1. R = Top
    BY <1>2, <1>14 DEF Weighed
  <2>2. n = q * d + r
    <3> DEFINE N == q * d + r
               e == dividend_r % Top
    <3>1. N \in Nat /\ n \in Nat /\ e \in 0 .. Top - 1 /\ Top \in Nat \ {0}
      BY <1>3, <1>4, <1>7, Weights, ZeroWord
    <3>2. n * Top = N * Top + e
      BY <1>3, <2>1
    <3> HIDE DEF N, e
    <3>3. (n * Top) \div Top = n
      BY <3>1, DivModIs
    <3>4. (n * Top) \div Top = N
      BY <3>1, <3>2, DivModIs
    <3> QED
      BY <3>3, <3>4 DEF N
  <2>3. n \div d = q /\ n % d = r
    <3>1. n \in Int /\ q \in Int
      BY <1>3, <1>4, ZeroWord
    <3> QED
      BY <1>3, <1>4, <2>2, <3>1, DivModIs
  <2>4. CountStep = 0
    BY <1>14 DEF CountStep
  <2>5. Typed'
    BY <1>1, <1>3, <1>4, <1>6, <1>10, <1>11, <1>12, <1>14, <2>4, ZeroWord
       DEF Typed, TypeOK, DivStates, d
  <2>6. InEnd'
    BY <1>1, <1>8, <1>14, <2>3 DEF InEnd, n, d
  <2> QED
    BY <1>1, <1>9, <1>10, <1>14, <2>5, <2>6 DEF DInv, InCalc
<1> QED
  BY <1>13, <1>14

LEMMA FinishStep ==
  ASSUME DInv, Finish
  PROVE  DInv'
<1> DEFINE r == IF op_r \in {"DIV", "DIVU"} THEN div_result ELSE div_remain
<1>1. /\ state = "END" /\ state' = "IDLE" /\ busy_o' = FALSE /\ ready_o' = TRUE
      /\ result_o' = IF invert_result THEN Neg(r) ELSE r
      /\ UNCHANGED <<reg_waddr_o, op_r, dividend_r, divisor_r, count, div_result,
                     div_remain, minuend, invert_result, asked>>
  BY DEF Finish
<1>2. r \in Words
  BY DEF DInv, Typed, TypeOK
<1>3. result_o' = Expected(asked) /\ reg_waddr_o = asked.rd
  <2>1. /\ asked \in Accepted /\ asked.b # 0 /\ op_r = asked.op /\ reg_waddr_o = asked.rd
        /\ divisor_r = AbsOf(asked, asked.b)
        /\ invert_result = SignOf(asked.op, asked.a, asked.b)
    BY <1>1 DEF DInv, Prepared
  <2>2. r = IF asked.op \in {"DIV", "DIVU"}
            THEN AbsOf(asked, asked.a) \div AbsOf(asked, asked.b)
            ELSE AbsOf(asked, asked.a) % AbsOf(asked, asked.b)
    BY <1>1, <2>1 DEF DInv, InEnd
  <2> HIDE DEF r
  <2>3. Expected(asked) = IF SignOf(asked.op, asked.a, asked.b) THEN Neg(r) ELSE r
    BY <2>1, <2>2, ExpectedIs
  <2> QED
    BY <1>1, <2>1, <2>3
<1>4. ResultCorrect'
  BY <1>1, <1>3 DEF ResultCorrect, Expected
<1>5. result_o' \in Words
  BY <1>1, <1>2, NegIs
<1>6. Typed'
  BY <1>1, <1>5 DEF DInv, Typed, TypeOK, DivStates
<1> QED
  BY <1>1, <1>4, <1>6 DEF DInv, InStart, Prepared, InCalc, InEnd

LEMMA StepDInv == DInv /\ [Next]_vars => DInv'
<1> SUFFICES ASSUME DInv, [Next]_vars PROVE DInv'
  OBVIOUS
<1>1. CASE AcceptSome
  BY <1>1, AcceptStep DEF AcceptSome
<1>2. CASE Rest
  BY <1>2, RestStep
<1>3. CASE Run
  BY <1>3, ByZeroStep, PrepareStep, CalcStep, FinishStep DEF Run
<1>4. CASE Abort
  BY <1>4, AbortStep
<1>5. CASE UNCHANGED vars
  BY <1>5 DEF vars, control, DInv, Typed, TypeOK, InStart, Prepared, InCalc, InEnd,
              ResultCorrect, Weighed, AbsOf, Negative, Neg, SignOf, Top, FirstCount, Expected
<1> QED
  BY <1>1, <1>2, <1>3, <1>4, <1>5 DEF Next

(* The partial remainder fits the truncated register (div.v:68).           *)
LEMMA TruncationIsFree == DInv => NothingTruncated
<1> SUFFICES ASSUME DInv, state = "CALC", count # 0
             PROVE  (IF Subtract THEN minuend - divisor_r ELSE minuend) < Top
  BY DEF NothingTruncated
<1>1. PICK R \in 1 .. Top : Weighed(AbsOf(asked, asked.a), R)
  BY DEF DInv, InCalc
<1>2. R * count = FirstCount /\ count \in {2^i : i \in 0 .. W - 2}
  BY <1>1 DEF Weighed, DInv, InCalc
<1>3. R <= FirstCount
  BY <1>2, CountHalves
<1> QED
  BY <1>1, <1>3, CalcDigit

THEOREM DividerInvariant == Spec => []DInv
  BY InitDInv, StepDInv, PTL DEF Spec

(* Whenever EX may write a result it is the one RV32M asks for, in the     *)
(* register that asked, whatever was aborted before (div.v:71-210).        *)
THEOREM ResultsAreRight == Spec => []ResultsRight
<1>1. DInv => ResultsRight
  BY TruncationIsFree DEF DInv, Typed, ResultsRight
<1> QED
  BY <1>1, DividerInvariant, PTL

-----------------------------------------------------------------------------
(* The clocks that the pipeline model counts.                              *)
LEMMA LeastNumber ==
  ASSUME NEW S \in SUBSET Nat, S # {}
  PROVE  \E m \in S : \A n \in S : m <= n
<1> DEFINE R == {ss \in Nat \X Nat : ss[1] < ss[2]}
<1>1. OpToRel(<, Nat) = R
  BY Zenon DEF OpToRel
<1>2. PICK m \in S : \A n \in S : ~(<<n, m>> \in R)
  BY <1>1, NatLessThanWellFounded, WFMin, Zenon
<1>3. ASSUME NEW n \in Nat, NEW k \in Nat, <<n, k>> \notin R PROVE k <= n
  <2>1. ~(n < k)
    BY <1>3
  <2> QED
    BY <2>1
<1> QED
  BY <1>2, <1>3

(* A higher bit weighs more: the lowest one that did not would weigh twice *)
(* as much as the one below it, which does.                                *)
LEMMA WeightsRise ==
  ASSUME NEW i \in 0 .. W, NEW j \in 0 .. W, i < j
  PROVE  2^i < 2^j
<1>1. W \in Nat /\ W >= 2 /\ i \in Nat /\ j \in Nat /\ i \in 0 .. W - 1
  BY WAssumption
<1>2. 2^i \in Nat \ {0}
  BY <1>1, PowersOfTwo
<1> DEFINE S == {k \in i + 1 .. W : ~(2^i < 2^k)}
<1>3. SUFFICES ASSUME ~(2^i < 2^j) PROVE FALSE
  OBVIOUS
<1>4. S \in SUBSET Nat
  BY <1>1
<1>5. PICK k \in S : \A n \in S : k <= n
  <2>1. j \in i + 1 .. W
    BY <1>1
  <2>2. S # {}
    BY <1>3, <2>1
  <2> QED
    BY <1>4, <2>2, LeastNumber
<1>6. k \in i + 1 .. W /\ k \in Nat /\ ~(2^i < 2^k)
  BY <1>1, <1>5
<1>7. /\ k - 1 \in 0 .. W - 1 /\ k - 1 + 1 = k
      /\ 2^(k - 1) \in Nat \ {0} /\ 2^(k - 1 + 1) = 2 * 2^(k - 1)
  <2>1. k - 1 \in 0 .. W - 1 /\ k - 1 + 1 = k
    BY <1>1, <1>6
  <2> QED
    BY <2>1, PowersOfTwo
<1>8. 2^k = 2 * 2^(k - 1)
  BY <1>7
<1>9. 2^i <= 2^(k - 1)
  <2>1. CASE k - 1 = i
    BY <1>2, <2>1
  <2>2. CASE k - 1 # i
    <3>1. k - 1 \in i + 1 .. W /\ ~(k <= k - 1)
      BY <1>1, <1>6, <2>2
    <3>2. k - 1 \notin S
      BY <1>5, <3>1
    <3> DEFINE u == 2^i
               v == 2^(k - 1)
    <3>3. u < v
      BY <3>1, <3>2
    <3>4. u \in Nat /\ v \in Nat
      BY <1>2, <1>7
    <3> HIDE DEF u, v
    <3>5. u <= v
      BY <3>3, <3>4
    <3> QED
      BY <3>5 DEF u, v
  <2> QED
    BY <2>1, <2>2
<1> DEFINE u == 2^i
           v == 2^(k - 1)
           w == 2^k
<1>10. u \in Nat \ {0} /\ v \in Nat \ {0} /\ w = 2 * v /\ u <= v /\ ~(u < w)
  BY <1>2, <1>6, <1>7, <1>8, <1>9
<1> HIDE DEF u, v, w
<1> QED
  BY <1>10

(* A one-hot count is read as the number of the clocks that are left.      *)
ClocksFor(c) == 2 + (CHOOSE k \in 0 .. W : 2^k = c)

LEMMA LeftIs ==
  /\ Left = IF state # "CALC" THEN 0 ELSE IF count = 0 THEN 1 ELSE ClocksFor(count)
  /\ Left' = IF state' # "CALC" THEN 0 ELSE IF count' = 0 THEN 1 ELSE ClocksFor(count')
  BY DEF Left, ClocksFor

LEMMA OneHot ==
  ASSUME NEW i \in 0 .. W - 2
  PROVE  2^i # 0 /\ ClocksFor(2^i) = 2 + i
<1>1. i \in 0 .. W /\ i \in 0 .. W - 1 /\ i \in Int
  BY WAssumption
<1>2. 2^i \in Nat \ {0}
  BY <1>1, PowersOfTwo
<1>3. ASSUME NEW k \in 0 .. W, 2^k = 2^i PROVE k = i
  <2> DEFINE u == 2^i
             v == 2^k
  <2>1. u \in Nat /\ v = u
    BY <1>2, <1>3
  <2>2. (i < k => u < v) /\ (k < i => v < u)
    BY <1>1, WeightsRise
  <2> HIDE DEF u, v
  <2> QED
    BY <1>1, <2>1, <2>2
<1>4. (CHOOSE k \in 0 .. W : 2^k = 2^i) = i
  BY <1>1, <1>3
<1> QED
  BY <1>2, <1>4 DEF ClocksFor

(* Each clock with start_i is one of the control, each without is DivIdle. *)
CtlStep == \E start, zero \in BOOLEAN : ctl' = DivCtlStep(ctl, start, zero, W)

LEMMA CtlIs ==
  /\ ctl.state = state /\ ctl.busy = busy_o /\ ctl.ready = ready_o /\ ctl.count = Left
  /\ ctl.zero <=> state # "IDLE" /\ divisor_r = 0
  BY DEF ctl

LEMMA AcceptCtl ==
  ASSUME DInv, AcceptSome
  PROVE  CtlStep
<1>1. PICK op \in DivOps, a \in Words, b \in Words, rd \in Regs : Accept(op, a, b, rd)
  BY DEF AcceptSome
<1>2. /\ state = "IDLE" /\ state' = "START" /\ busy_o' = TRUE /\ ready_o' = ready_o
      /\ divisor_r' = b
  BY <1>1 DEF Accept
<1>3. ctl' = [state |-> "START", zero |-> b = 0, count |-> 0, busy |-> TRUE, ready |-> ready_o]
  BY <1>2 DEF ctl, Left
<1>4. ctl = [state |-> "IDLE", zero |-> FALSE, count |-> 0, busy |-> busy_o, ready |-> ready_o]
  BY <1>2 DEF ctl, Left
<1>5. ctl' = DivCtlStep(ctl, TRUE, b = 0, W)
  BY <1>3, <1>4 DEF DivCtlStep
<1>6. (b = 0) \in BOOLEAN
  OBVIOUS
<1> QED
  BY <1>5, <1>6 DEF CtlStep

(* Without start_i the control is at rest, whatever it was doing.          *)
LEMMA StopCtl ==
  ASSUME DInv, Rest \/ Abort
  PROVE  CtlStep
<1>1. state' = "IDLE" /\ busy_o' = FALSE /\ ready_o' = FALSE
  BY DEF Rest, Abort
<1>2. ctl' = DivIdle
  BY <1>1 DEF ctl, Left, DivIdle, DivStops
<1>3. DivCtlStep(ctl, FALSE, FALSE, W) = DivIdle
  BY DEF DivCtlStep
<1> QED
  BY <1>2, <1>3 DEF CtlStep

LEMMA DoneCtl ==
  ASSUME DInv, ByZero \/ Finish
  PROVE  CtlStep
<1>1. state' = "IDLE" /\ busy_o' = FALSE /\ ready_o' = TRUE
  BY DEF ByZero, Finish
<1>2. ctl' = DivDone
  BY <1>1 DEF ctl, Left, DivDone, DivStops
<1>3. \/ ctl.state = "START" /\ ctl.zero
      \/ ctl.state = "END"
  BY DEF ByZero, Finish, ctl
<1>4. DivCtlStep(ctl, TRUE, FALSE, W) = DivDone
  BY <1>3 DEF DivCtlStep
<1> QED
  BY <1>2, <1>4 DEF CtlStep

LEMMA PrepareCtl ==
  ASSUME DInv, Prepare
  PROVE  CtlStep
<1>1. /\ state = "START" /\ divisor_r # 0 /\ state' = "CALC" /\ busy_o' = TRUE
      /\ ready_o' = ready_o /\ count' = FirstCount
  BY DEF Prepare
<1>2. divisor_r' # 0
  <2>1. DInv'
    BY PrepareStep
  <2>2. state' \in {"CALC", "END"} => divisor_r' = AbsOf(asked, asked.b)' /\ (asked \in Accepted)' /\ asked'.b # 0
    BY <2>1 DEF DInv, Prepared
  <2>3. asked' = asked /\ AbsOf(asked, asked.b)' = AbsOf(asked', asked'.b)
    BY DEF Prepare, AbsOf, Negative, Neg, Top
  <2>4. asked.b \in Words
    BY <1>1, <2>2, <2>3 DEF Accepted, Words
  <2> QED
    BY <1>1, <2>2, <2>3, <2>4, AbsIs
<1>3. Left' = W
  <2>1. W - 2 \in 0 .. W - 2 /\ 2 + (W - 2) = W
    BY WAssumption
  <2>2. count' = 2^(W - 2)
    BY <1>1 DEF FirstCount
  <2> QED
    BY <1>1, <2>1, <2>2, OneHot, LeftIs
<1>4. ctl' = [state |-> "CALC", zero |-> FALSE, count |-> W, busy |-> TRUE, ready |-> ready_o]
  BY <1>1, <1>2, <1>3 DEF ctl
<1>5. busy_o = TRUE
  BY <1>1 DEF DInv, Typed, TypeOK
<1>6. ctl = [state |-> "START", zero |-> FALSE, count |-> 0, busy |-> TRUE, ready |-> ready_o]
  BY <1>1, <1>5 DEF ctl, Left
<1>7. ctl' = DivCtlStep(ctl, TRUE, FALSE, W)
  BY <1>4, <1>6 DEF DivCtlStep
<1> QED
  BY <1>7 DEF CtlStep

LEMMA CalcCtl ==
  ASSUME DInv, Calc
  PROVE  CtlStep
<1>1. /\ state = "CALC" /\ count' = CountStep /\ busy_o' = busy_o /\ ready_o' = ready_o
      /\ divisor_r' = divisor_r /\ (count # 0 => state' = state) /\ (count = 0 => state' = "END")
  BY DEF Calc
<1>2. divisor_r # 0 /\ busy_o = TRUE
  BY <1>1, Operands DEF DInv, Typed, TypeOK
<1>3. ctl = [state |-> "CALC", zero |-> FALSE, count |-> Left, busy |-> TRUE, ready |-> ready_o]
  BY <1>1, <1>2 DEF ctl
<1>4. CASE count = 0
  <2>1. Left = 1 /\ Left' = 0
    BY <1>1, <1>4 DEF Left
  <2>2. ctl' = [state |-> "END", zero |-> FALSE, count |-> 0, busy |-> TRUE, ready |-> ready_o]
    BY <1>1, <1>2, <1>4, <2>1 DEF ctl
  <2>3. ctl.state = "CALC" /\ ctl.count = 1
    BY <1>3, <2>1
  <2>4. DivCtlStep(ctl, TRUE, FALSE, W) = [ctl EXCEPT !.state = "END", !.count = 0]
    BY <2>3 DEF DivCtlStep
  <2>5. ctl' = DivCtlStep(ctl, TRUE, FALSE, W)
    BY <1>3, <2>1, <2>2, <2>4
  <2> QED
    BY <2>5 DEF CtlStep
<1>5. CASE count # 0
  <2>1. PICK i \in 0 .. W - 2 : count = 2^i
    BY <1>1, <1>5 DEF DInv, InCalc
  <2>2. Left = 2 + i /\ i \in Nat
    BY <1>1, <1>5, <2>1, OneHot, LeftIs
  <2>3. Left' = 1 + i
    <3>1. CASE i = 0
      <4>1. count = 1
        BY <2>1, <3>1
      <4>2. count' = 0
        BY <1>1, <4>1 DEF CountStep
      <4> QED
        BY <1>1, <1>5, <3>1, <4>2 DEF Left
    <3>2. CASE i # 0
      <4> DEFINE c == 2^(i - 1)
      <4>1. i - 1 \in 0 .. W - 1 /\ i - 1 \in 0 .. W - 2 /\ i - 1 + 1 = i /\ 2 + (i - 1) = 1 + i
        BY <2>1, <3>2, WAssumption
      <4>2. c \in Nat \ {0} /\ 2^(i - 1 + 1) = 2 * c
        BY <4>1, PowersOfTwo
      <4>3. count = 2 * c
        BY <2>1, <4>1, <4>2
      <4> HIDE DEF c
      <4>4. count' = c
        BY <1>1, <4>2, <4>3 DEF CountStep
      <4>5. count' = 2^(i - 1)
        BY <4>4 DEF c
      <4> QED
        BY <1>1, <1>5, <4>1, <4>5, OneHot, LeftIs
    <3> QED
      BY <3>1, <3>2
  <2>4. Left > 1 /\ Left' = Left - 1
    BY <2>2, <2>3
  <2>5. ctl' = [state |-> "CALC", zero |-> FALSE, count |-> Left - 1, busy |-> TRUE, ready |-> ready_o]
    BY <1>1, <1>2, <1>5, <2>4 DEF ctl
  <2>6. ctl.state = "CALC" /\ ctl.count > 1 /\ ctl.count - 1 = Left - 1
    BY <1>3, <2>4
  <2>7. DivCtlStep(ctl, TRUE, FALSE, W) = [ctl EXCEPT !.count = @ - 1]
    BY <2>2, <2>6 DEF DivCtlStep
  <2>8. ctl' = DivCtlStep(ctl, TRUE, FALSE, W)
    BY <1>3, <2>5, <2>6, <2>7
  <2> QED
    BY <2>8 DEF CtlStep
<1> QED
  BY <1>4, <1>5

LEMMA CtlSame ==
  ASSUME UNCHANGED vars
  PROVE  ctl' = ctl
<1>1. /\ state' = state /\ busy_o' = busy_o /\ ready_o' = ready_o /\ divisor_r' = divisor_r
      /\ count' = count
  BY DEF vars, control
<1>2. Left' = Left
  BY <1>1 DEF Left
<1> QED
  BY <1>1, <1>2 DEF ctl

(* The divider, its data left out, is the one that holds the pipeline: it  *)
(* is busy for as many clocks, ready in the same one, and aborted alike    *)
(* (div.v:71-210).                                                         *)
THEOREM ControlIsThePipelines == Spec => DividerCtlSpec
<1>1. Init => ctl = DivIdle
  BY DEF Init, ctl, Left, DivIdle, DivStops
<1>2. DInv /\ [Next]_vars => [CtlStep]_ctl
  <2> SUFFICES ASSUME DInv, [Next]_vars PROVE [CtlStep]_ctl
    OBVIOUS
  <2>1. CASE AcceptSome
    BY <2>1, AcceptCtl
  <2>2. CASE Rest \/ Abort
    BY <2>2, StopCtl
  <2>3. CASE Run
    BY <2>3, DoneCtl, PrepareCtl, CalcCtl DEF Run
  <2>4. CASE UNCHANGED vars
    BY <2>4, CtlSame
  <2> QED
    BY <2>1, <2>2, <2>3, <2>4 DEF Next
<1>3. Spec => []DInv
  BY DividerInvariant
<1> QED
  BY <1>1, <1>2, <1>3, PTL DEF Spec, DividerCtlSpec, CtlStep
=============================================================================
