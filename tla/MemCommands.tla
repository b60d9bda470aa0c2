---------------------------- MODULE MemCommands ----------------------------
(***************************************************************************)
(* The commands of the two Amber boot loaders that look at memory or       *)
(* change it: r, w, d and p of the serial loader (parse in                 *)
(* boot-loader-serial.c) and r of the Ethernet loader (parse_command in    *)
(* telnet.c), with the hexadecimal numbers they are given (get_hex).       *)
(*                                                                         *)
(* A word has Digits digits, and memory is a word per address; the loops   *)
(* go through it by Stride.                                                *)
(***************************************************************************)
EXTENDS Integers, Sequences, SequencesExt

CONSTANTS
  Base, Digits, \* 16 and 8
  Stride,       \* 4
  MaxPrint,     \* 0x1000, the most that p reads
  Texts,        \* what is typed behind the command and a space
  Rests,        \* what has been received behind that line
  Memories      \* the contents of memory to start with

MemCommandsAssumption ==
  /\ Base \in Nat \ {0, 1} /\ Digits \in Nat \ {0} /\ Stride \in Nat \ {0} /\ MaxPrint \in Nat

VARIABLES
  loader, cmd, text, rest,   \* the line: "serial" or "ethmac", its command and what follows
  mode,                      \* "parse", "dump", "print", "done"
  mem, mem0,                 \* memory, and as it was (history)
  address, i, last, length,  \* the variables of parse
  shown                      \* what has been sent to the user: pairs of address and word

vars == <<loader, cmd, text, rest, mode, mem, mem0, address, i, last, length, shown>>

M == Base ^ Digits
Words == 0 .. M - 1
Sep == -1          \* any character that is no digit
High(w) == w >= M \div 2

Buffer == text \o <<Sep>> \o rest

(* How many digits there are from place k on, and their value.             *)
DigitsFrom(k) ==
  LET Rest == {j \in k .. Len(Buffer) : Buffer[j] = Sep}
  IN (IF Rest = {} THEN Len(Buffer) + 1 ELSE CHOOSE j \in Rest : \A l \in Rest : j <= l) - k
ValueOf(ds) == FoldLeft(LAMBDA v, d : (v * Base + d) % M, 0, ds)
Field(k, n) == SubSeq(Buffer, k, k + n - 1)
Lesser(a, b) == IF a < b THEN a ELSE b

(* The loop of the serial loader looks at a ninth character and shifts it  *)
(* in if it is a digit, but reports a length of eight.                     *)
SerialCap == Digits + 1

SerialGetHex(k) ==
  LET n == IF k > Len(Buffer) THEN 0 ELSE Lesser(DigitsFrom(k), SerialCap)
  IN [found |-> n > 0, value |-> ValueOf(Field(k, n)), length |-> Lesser(n, Digits)]

EthmacCap == Digits

EthmacGetHex(k) ==
  LET n == IF k > Len(Buffer) THEN 0 ELSE Lesser(DigitsFrom(k), EthmacCap)
  IN [found |-> n > 0, value |-> ValueOf(Field(k, n)), length |-> n]

get_hex(k) == IF loader = "serial" THEN SerialGetHex(k) ELSE EthmacGetHex(k)

(* The second number begins one character behind the first.                *)
SecondAt(len) == 2 + len

A == get_hex(1)
D == get_hex(SecondAt(A.length))

-----------------------------------------------------------------------------
Init ==
  /\ \/ loader = "serial" /\ cmd \in {"r", "w", "d", "p"} /\ rest = <<>>
     \/ loader = "ethmac" /\ cmd = "r" /\ rest \in Rests
  /\ text \in Texts /\ mem \in Memories /\ mem0 = mem
  /\ mode = "parse" /\ address = 0 /\ i = 0 /\ last = 0 /\ length = 0 /\ shown = <<>>

Show(a, m) == Append(shown, <<a, m[a]>>)

Refused ==
  /\ mode = "parse"
  /\ ~A.found \/ (cmd \in {"w", "d"} /\ ~D.found)
  /\ mode' = "done"
  /\ UNCHANGED <<loader, cmd, text, rest, mem, mem0, address, i, last, length, shown>>

Read ==
  /\ mode = "parse" /\ cmd = "r" /\ A.found /\ (loader = "ethmac" => ~D.found)
  /\ shown' = Show(A.value, mem) /\ mode' = "done"
  /\ UNCHANGED <<loader, cmd, text, rest, mem, mem0, address, i, last, length>>

Write ==
  /\ mode = "parse" /\ cmd = "w" /\ A.found /\ D.found
  /\ mem' = [mem EXCEPT ![A.value] = D.value]
  /\ shown' = Show(A.value, mem') /\ mode' = "done"
  /\ UNCHANGED <<loader, cmd, text, rest, mem0, address, i, last, length>>

(* The end of the range is computed with the wrap of an unsigned.          *)
RangeEnd(a, n) == (a + n) % M

DumpRange ==
  /\ mode = "parse" /\ A.found /\ D.found
  /\ cmd = "d" \/ (cmd = "r" /\ loader = "ethmac")
  /\ mode' = "dump" /\ address' = A.value /\ i' = A.value /\ last' = RangeEnd(A.value, D.value)
  /\ UNCHANGED <<loader, cmd, text, rest, mem, mem0, length, shown>>

(* Bound: a dump that starts over at address 0 is followed for M words.    *)
DumpWord ==
  /\ mode = "dump" /\ i < last /\ Len(shown) <= M
  /\ shown' = Show(i, mem) /\ i' = (i + Stride) % M
  /\ UNCHANGED <<loader, cmd, text, rest, mode, mem, mem0, address, last, length>>

DumpEnd ==
  /\ mode = "dump" /\ i >= last /\ mode' = "done"
  /\ UNCHANGED <<loader, cmd, text, rest, mem, mem0, address, i, last, length, shown>>

PrintString ==
  /\ mode = "parse" /\ cmd = "p" /\ A.found
  /\ mode' = "print" /\ address' = A.value /\ length' = 0
  /\ UNCHANGED <<loader, cmd, text, rest, mem, mem0, i, last, shown>>

(* A zero is skipped; a byte above 127 or the bound ends the string.       *)
PrintMore == ~High(mem[address]) /\ length < MaxPrint

PrintByte ==
  /\ mode = "print" /\ PrintMore
  /\ shown' = IF mem[address] = 0 THEN shown ELSE Show(address, mem)
  /\ address' = (address + 1) % M /\ length' = length + 1
  /\ UNCHANGED <<loader, cmd, text, rest, mode, mem, mem0, i, last>>

PrintEnd ==
  /\ mode = "print" /\ ~PrintMore /\ mode' = "done"
  /\ UNCHANGED <<loader, cmd, text, rest, mem, mem0, address, i, last, length, shown>>

Next == \/ Refused \/ Read \/ Write \/ DumpRange \/ DumpWord \/ DumpEnd
        \/ PrintString \/ PrintByte \/ PrintEnd

Spec == Init /\ [][Next]_vars

-----------------------------------------------------------------------------
(* Every variable keeps its type; a command is refused, reads, or runs one *)
(* of the loops.                                                           *)
TypeOK ==
  /\ mode \in {"parse", "dump", "print", "done"}
  /\ mem \in [Words -> Words]
  /\ address \in Words /\ i \in Words /\ last \in Words /\ length \in 0 .. MaxPrint

(* Numbers as the help text means them: one to Digits digits.              *)
Numbers == UNION {[1 .. n -> 0 .. Base - 1] : n \in 1 .. Digits}
Typed(a, b) == text = a \o <<Sep>> \o b
Followed == rest # <<>> /\ Head(rest) # Sep

(* w <address> <value> writes the value that was typed to the address that *)
(* was typed, for all numbers of up to eight digits, and nothing else;     *)
(* the other commands write nothing.                                       *)
WritesWhatIsTyped ==
  mode = "done" =>
    /\ cmd # "w" => mem = mem0
    /\ \A a, b \in Numbers :
         cmd = "w" /\ Typed(a, b) => mem = [mem0 EXCEPT ![ValueOf(a)] = ValueOf(b)]

(* d and the r of the Ethernet loader show the words of the range that was *)
(* typed, in order, as memory holds them, never one beyond it, and in the  *)
(* end all of them - as long as the range does not reach the last words of *)
(* memory, where the loop starts over at address 0 and never ends.         *)
RangeOf(a, b) == [k \in 1 .. (ValueOf(b) + Stride - 1) \div Stride |->
                    <<ValueOf(a) + (k - 1) * Stride, mem[ValueOf(a) + (k - 1) * Stride]>>]
DumpsTheRange ==
  cmd = "d" \/ (cmd = "r" /\ loader = "ethmac") =>
    \A a, b \in Numbers :
      Typed(a, b) /\ ValueOf(a) + ValueOf(b) <= M - Stride =>
        /\ IsPrefix(shown, RangeOf(a, b))
        /\ mode = "done" => shown = RangeOf(a, b)

(* r with one number shows that word - unless the next line has come and   *)
(* begins with a hexadecimal digit, which get_hex takes for a range.       *)
ReadsOneWord ==
  mode = "done" /\ cmd = "r" /\ ~Followed =>
    \A a \in Numbers : text = a => shown = <<<<ValueOf(a), mem[ValueOf(a)]>>>>
=============================================================================
