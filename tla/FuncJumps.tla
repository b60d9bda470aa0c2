------------------------------ MODULE FuncJumps -----------------------------
(***************************************************************************)
(* amber-func-jumps, which turns the jumps of a trace into calls and       *)
(* returns: it looks the two addresses of a jump up in the table of the    *)
(* functions by bisection, and remembers the function it has seen called   *)
(* last.                                                                   *)
(***************************************************************************)
EXTENDS Integers, Sequences, FiniteSets

CONSTANTS
  Tables,     \* the tables: sequences of addresses in ascending order, not empty
  Jumped,     \* the addresses of the jumps
  MaxJumps    \* bound: lines of the trace

FuncJumpsAssumption ==
  /\ MaxJumps \in Nat /\ Jumped \subseteq Nat
  /\ \A t \in Tables : Len(t) > 0 /\ \A n \in 1 .. Len(t) - 1 : t[n] <= t[n + 1]

VARIABLES
  func_names,       \* the addresses of the functions
  jump,             \* [to, from] of the line at hand
  start, end,       \* the range of the search
  at,               \* "line", or which address is searched for
  to_func_num,      \* 0: none
  current,          \* current_func_name; 0: "none"
  printed,          \* what the line at hand has printed
  lines             \* lines that were read

vars == <<func_names, jump, start, end, at, to_func_num, current, printed, lines>>

mid == (start + end) \div 2
Address == IF at = "to" THEN jump.to ELSE jump.from

-----------------------------------------------------------------------------
ReadJump(to, from) ==
  /\ at = "line" /\ lines < MaxJumps
  /\ jump' = [to |-> to, from |-> from] /\ lines' = lines + 1
  /\ at' = "to" /\ start' = 1 /\ end' = Len(func_names)
  /\ to_func_num' = 0 /\ printed' = "nothing"
  /\ UNCHANGED <<func_names, current>>

(* The last function has no next one to be compared with.                  *)
Found == Address >= func_names[mid] /\ (mid # end => Address < func_names[mid + 1])

Narrow ==
  /\ at \in {"to", "from"} /\ ~Found /\ start # end
  /\ \/ start + 1 = end /\ start' = start + 1 /\ UNCHANGED end
     \/ start + 1 # end /\ Address > func_names[mid] /\ start' = mid /\ UNCHANGED end
     \/ start + 1 # end /\ Address <= func_names[mid] /\ end' = mid /\ UNCHANGED start
  /\ UNCHANGED <<func_names, jump, at, to_func_num, current, printed, lines>>

Exhausted ==
  /\ at \in {"to", "from"} /\ ~Found /\ start = end
  /\ at' = "line"
  /\ UNCHANGED <<func_names, jump, start, end, to_func_num, current, printed, lines>>

FoundTo ==
  /\ at = "to" /\ Found
  /\ to_func_num' = mid
  /\ at' = "from" /\ start' = 1 /\ end' = Len(func_names)
  /\ UNCHANGED <<func_names, jump, current, printed, lines>>

(* A jump to the first instruction of another function is a call, one into *)
(* the middle a return, unless it leads to the function called last.       *)
Prints(from) ==
  CASE from = to_func_num -> "nothing"
    [] jump.to = func_names[to_func_num] -> "call"
    [] to_func_num # current -> "return"
    [] OTHER -> "nothing"

FoundFrom ==
  /\ at = "from" /\ Found
  /\ printed' = Prints(mid)
  /\ current' = IF Prints(mid) = "call" THEN to_func_num ELSE current
  /\ at' = "line"
  /\ UNCHANGED <<func_names, jump, start, end, to_func_num, lines>>

-----------------------------------------------------------------------------
Init ==
  /\ func_names \in Tables
  /\ jump = [to |-> 0, from |-> 0] /\ start = 1 /\ end = Len(func_names)
  /\ at = "line" /\ to_func_num = 0 /\ current = 0 /\ printed = "nothing" /\ lines = 0

Search == Narrow \/ Exhausted \/ FoundTo \/ FoundFrom
Next == Search \/ \E to, from \in Jumped : ReadJump(to, from)

Spec == Init /\ [][Next]_vars

-----------------------------------------------------------------------------
TypeOK ==
  /\ start \in 1 .. Len(func_names) /\ end \in start .. Len(func_names)
  /\ at \in {"line", "to", "from"}
  /\ to_func_num \in 0 .. Len(func_names) /\ current \in 0 .. Len(func_names)
  /\ printed \in {"nothing", "call", "return"} /\ lines \in 0 .. MaxJumps

(* The functions that begin last at or before an address.                  *)
Below(a) == {n \in 1 .. Len(func_names) : func_names[n] <= a}
Contains(a) == {n \in Below(a) : \A m \in Below(a) : func_names[m] <= func_names[n]}

(* Bisection finds the function that contains the address, whenever there  *)
(* is one, although its comparison with the next entry is cut off at the   *)
(* end of a range that shrinks (amber-func-jumps.c:185-206).               *)
SearchIsRight ==
  /\ to_func_num # 0 => to_func_num \in Contains(jump.to)
  /\ at = "line" /\ lines > 0 => (to_func_num = 0 <=> Below(jump.to) = {})

(* What is printed is a call or a return between two functions of the      *)
(* table, and never a jump within one (amber-func-jumps.c:216-279).        *)
PrintedIsRight ==
  at = "line" /\ lines > 0 =>
    /\ printed # "nothing" => Below(jump.from) # {} /\ Contains(jump.from) # {to_func_num}
    /\ printed = "call" => jump.to = func_names[to_func_num] /\ current = to_func_num
    /\ jump.to \in {func_names[n] : n \in 1 .. Len(func_names)} /\ Below(jump.from) # {}
         /\ func_names[to_func_num] \notin {func_names[n] : n \in Contains(jump.from)}
       => printed = "call"

(* What every search comes to.                                             *)
SearchOver == at = "line"
=============================================================================
