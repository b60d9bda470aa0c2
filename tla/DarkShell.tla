----------------------------- MODULE DarkShell -----------------------------
(***************************************************************************)
(* The command loop of the DarkRISCV firmware (main.c) with the functions  *)
(* of stdio.c it reads and splits a line with: gets, strtok, memset.       *)
(*                                                                         *)
(* A character in the buffer carries the line it was typed on ("now" or    *)
(* "old").  argv is a local array without initialiser: an entry the loop   *)
(* does not assign keeps the pointer an earlier line left there, and       *)
(* before that it holds anything (Unset).                                  *)
(***************************************************************************)
EXTENDS Integers, FiniteSets, Sequences

CONSTANTS
  BufSize,    \* sizeof(buffer) (64)
  Slots,      \* the entries of argv (8)
  Keys,       \* the characters that are typed: letters, digits, "SP" and "BS"
  Arity       \* the arguments a command reads, by its name (mac 3, mul and div 2, srai 1)

DarkShellAssumption ==
  /\ BufSize \in Nat /\ BufSize > 1 /\ Slots \in Nat /\ Slots > 1 /\ "NUL" \notin Keys
  /\ \A c \in DOMAIN Arity : Arity[c] \in 0 .. Slots - 1

VARIABLES
  pc,      \* "gets", "strtok", "run"
  buffer,  \* buffer[i], what is typed and when
  p, s,    \* gets: where the next character goes, and the count that ends the line
  argv, argc, nxt,
  typed    \* history: the line as the user has edited it

vars == <<pc, buffer, p, s, argv, argc, nxt, typed>>

Nul == [c |-> "NUL", line |-> "now"]
Null == -1
Unset == -2

Places == 0 .. BufSize - 1

(* The string that begins at offset a.                                     *)
EndOf(a) == CHOOSE i \in a .. BufSize - 1 :
              buffer[i].c = "NUL" /\ \A j \in a .. i - 1 : buffer[j].c # "NUL"
StringAt(a) == IF a = Null THEN <<>> ELSE [i \in 1 .. EndOf(a) - a |-> buffer[a + i - 1]]

-----------------------------------------------------------------------------
(* memset(buffer, 0, sizeof(buffer)) before every line.                    *)
Memset == [i \in Places |-> Nul]

NextLine ==
  /\ pc = "run"
  /\ pc' = "gets" /\ buffer' = Memset /\ p' = 0 /\ s' = BufSize /\ typed' = <<>>
  /\ UNCHANGED <<argv, argc, nxt>>

More == s > 1           \* while(--s)

(* A bug: a deletion does not move the place back.                         *)
Delete_KeepPlace == p

(* A backspace gives back the place of the character it deletes, but not   *)
(* its own: s counts it.                                                   *)
Delete == p - 1

GetKey(c) ==
  /\ pc = "gets" /\ More
  /\ IF c = "BS"
     THEN IF p # 0
          THEN /\ p' = Delete /\ buffer' = [buffer EXCEPT ![Delete] = Nul] /\ s' = s
               /\ typed' = SubSeq(typed, 1, Len(typed) - 1)
          ELSE s' = s - 1 /\ UNCHANGED <<p, buffer, typed>>
     ELSE /\ buffer' = [buffer EXCEPT ![p] = [c |-> c, line |-> "now"]] /\ p' = p + 1
          /\ s' = s - 1 /\ typed' = Append(typed, c)
  /\ UNCHANGED <<pc, argv, argc, nxt>>

(* The line ends with a newline, or when s has counted down.               *)
EndLine ==
  /\ pc = "gets"
  /\ buffer' = [buffer EXCEPT ![p] = Nul]
  /\ pc' = "strtok" /\ argc' = 0
  /\ UNCHANGED <<p, s, argv, nxt, typed>>

-----------------------------------------------------------------------------
(* strtok, with its static nxt.                                            *)
After(i) == i + 1

Exhausted == Null

Start == IF argc = 0 THEN 0 ELSE nxt
Blanks == {i \in Start .. EndOf(Start) - 1 : buffer[i].c = "SP"}

Strtok ==
  /\ pc = "strtok" /\ argc < Slots /\ Start # Null
  /\ argv' = [argv EXCEPT ![argc] = Start]
  /\ argc' = argc + 1
  /\ IF Blanks = {} THEN nxt' = Exhausted /\ UNCHANGED buffer
     ELSE \E b \in Blanks : /\ \A i \in Blanks : b <= i
                            /\ buffer' = [buffer EXCEPT ![b] = Nul]
                            /\ nxt' = After(b)
  /\ UNCHANGED <<pc, p, s, typed>>

StrtokEnds ==
  /\ pc = "strtok" /\ pc' = "run"
  /\ \/ argc = Slots /\ UNCHANGED argv
     \/ argc < Slots /\ Start = Null /\ argv' = [argv EXCEPT ![argc] = Null]
  /\ UNCHANGED <<buffer, p, s, argc, nxt, typed>>

-----------------------------------------------------------------------------
Init ==
  /\ pc = "gets" /\ buffer = [i \in Places |-> Nul] /\ p = 0 /\ s = BufSize
  /\ argv = [k \in 0 .. Slots - 1 |-> Unset] /\ argc = 0 /\ nxt = Null
  /\ typed = <<>>

Next == NextLine \/ (\E c \in Keys : GetKey(c)) \/ EndLine \/ Strtok \/ StrtokEnds

Spec == Init /\ [][Next]_vars

-----------------------------------------------------------------------------
(* The arguments that the command of the line reads, whether or not the    *)
(* line has that many.                                                     *)
Command == [i \in 1 .. Len(StringAt(argv[0])) |-> StringAt(argv[0])[i].c]
Arguments ==
  IF Len(Command) = 1 /\ Command[1] \in DOMAIN Arity
  THEN {k \in 1 .. Arity[Command[1]] : argv[k] # Unset}
  ELSE {}

TypeOK ==
  /\ pc \in {"gets", "strtok", "run"}
  /\ buffer \in [Places -> [c : Keys \cup {"NUL"}, line : {"now", "old"}]]
  /\ p \in Places /\ s \in 1 .. BufSize
  /\ argv \in [0 .. Slots - 1 -> Places \cup {Null, Unset}]
  /\ argc \in 0 .. Slots /\ nxt \in Places \cup {Null}

(* What is split is the line as the user sees it after every backspace,    *)
(* and it is shorter than the buffer.                                      *)
LineIsWhatWasTyped ==
  pc = "strtok" /\ argc = 0 =>
    /\ Len(typed) = p
    /\ StringAt(0) = [i \in 1 .. Len(typed) |-> [c |-> typed[i], line |-> "now"]]

(* argv[k] is the k-th field of the line, fields being separated by single *)
(* blanks; the last entry is no exception, and there is one entry for each *)
(* field or none is free.                                                  *)
FieldStarts == {0} \cup {i \in 1 .. Len(typed) : typed[i] = "SP"}
ArgvIsTheFields ==
  pc = "run" =>
    /\ \A k \in 0 .. argc - 1 :
         /\ argv[k] \in FieldStarts
         /\ k > 0 => argv[k - 1] < argv[k]
         /\ StringAt(argv[k]) = [i \in 1 .. EndOf(argv[k]) - argv[k] |->
                                   [c |-> typed[argv[k] + i], line |-> "now"]]
         /\ "SP" \notin {typed[argv[k] + i] : i \in 1 .. EndOf(argv[k]) - argv[k]}
         /\ EndOf(argv[k]) = Len(typed) \/ EndOf(argv[k]) + 1 \in FieldStarts
    /\ argc = IF Cardinality(FieldStarts) < Slots THEN Cardinality(FieldStarts) ELSE Slots

(* An entry of argv that points into an earlier line still does not show a *)
(* command anything that was typed on it.                                  *)
NothingOfEarlierLines ==
  pc = "run" => \A k \in Arguments : \A i \in DOMAIN StringAt(argv[k]) :
                  StringAt(argv[k])[i].line = "now"
-----------------------------------------------------------------------------
(* Why it is so.  A character has its place as long as s counts; behind    *)
(* the line the buffer is empty; and strtok has cut the line before Cut.   *)
Cut == IF argc = 0 THEN 0 ELSE IF nxt = Null THEN p + 1 ELSE nxt
IsCut(j) == pc # "gets" /\ typed[j + 1] = "SP" /\ j < Cut

ShellTypes ==
  /\ pc \in {"gets", "strtok", "run"}
  /\ buffer \in [Places -> [c : Keys \cup {"NUL"}, line : {"now"}]]
  /\ p \in Nat /\ s \in 1 .. BufSize /\ p + s <= BufSize
  /\ argv \in [0 .. Slots - 1 -> Places \cup {Null, Unset}]
  /\ argc \in 0 .. Slots /\ nxt \in Places \cup {Null}
  /\ typed \in Seq(Keys) /\ Len(typed) = p

LineInBuffer ==
  \A j \in Places :
    IF j < p /\ ~IsCut(j) THEN buffer[j] = [c |-> typed[j + 1], line |-> "now"] ELSE buffer[j] = Nul

FieldsSplit ==
  pc # "gets" =>
    /\ argc > 0 /\ nxt # Null => nxt \in FieldStarts
    /\ \A k \in 0 .. argc - 1 :
         argv[k] \in FieldStarts /\ argv[k] < Cut /\ (k > 0 => argv[k - 1] < argv[k])
    /\ Cardinality({f \in FieldStarts : f < Cut}) = argc
    /\ pc = "run" => argc > 0 /\ (argc = Slots \/ nxt = Null)

ShellInv == ShellTypes /\ LineInBuffer /\ FieldsSplit
=============================================================================
