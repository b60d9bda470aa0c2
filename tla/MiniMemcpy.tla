----------------------------- MODULE MiniMemcpy -----------------------------
(***************************************************************************)
(* memcpy of the mini-libc of amber_cpu: bytes until the destination is    *)
(* aligned, then words - as they are, or put together from two words of    *)
(* the source - singly and in groups of Unroll, then the bytes that are    *)
(* left.  It is built with LITTLE_ENDIAN and INDEXED_COPY (memcpy.c:59).   *)
(*                                                                         *)
(* The byte at an address is at first the address itself.                  *)
(***************************************************************************)
EXTENDS Integers, FiniteSets

CONSTANTS
  Width,      \* TYPE_WIDTH, bytes of a word (4)
  Unroll,     \* words of a group (8)
  Size,       \* addresses of the memory: the source is in the lower half
  Counts      \* the sizes that are asked for

Addrs == 0 .. Size - 1

MiniMemcpyAssumption ==
  /\ {Width, Unroll, Size} \subseteq Nat \ {0} /\ Size % (2 * Width) = 0
  /\ \A n \in Counts : n \in Nat /\ n + 2 * Width <= Size \div 2

VARIABLES
  args,       \* [dest, src, count] of the call
  at,         \* the loop it is in
  dst8, src8, count,
  length,     \* the words to go
  shift,      \* bytes of srcWord that are copied already; 0: words are copied as they are
  srcWord,    \* the word that was read last
  read,       \* the addresses that have been read
  mem

vars == <<args, at, dst8, src8, count, length, shift, srcWord, read, mem>>

WordAt(a) == [i \in 0 .. Width - 1 |-> mem[a + i]]
BytesOf(a) == a .. a + Width - 1
Aligned(a) == a - (a % Width)

-----------------------------------------------------------------------------
Small == count < 8

Begin ==
  /\ at = "begin" /\ at' = IF Small THEN "rest" ELSE "align"
  /\ UNCHANGED <<args, dst8, src8, count, length, shift, srcWord, read, mem>>

CopyByte ==
  /\ mem' = [mem EXCEPT ![dst8] = mem[src8]] /\ read' = read \cup {src8}
  /\ dst8' = dst8 + 1 /\ src8' = src8 + 1 /\ count' = count - 1

Align ==
  /\ at = "align" /\ dst8 % Width # 0
  /\ CopyByte /\ UNCHANGED <<args, at, length, shift, srcWord>>

(* The switch.  With a shift the word that holds the next byte is read     *)
(* before the loop.                                                        *)
Words ==
  /\ at = "align" /\ dst8 % Width = 0
  /\ at' = "words" /\ length' = count \div Width /\ count' = count % Width
  /\ shift' = src8 % Width
  /\ IF shift' = 0 THEN UNCHANGED <<srcWord, read>>
     ELSE srcWord' = WordAt(Aligned(src8)) /\ read' = read \cup BytesOf(Aligned(src8))
  /\ UNCHANGED <<args, dst8, src8, mem>>

(* The words that are read are those from which the next n words of the    *)
(* destination are put together.                                           *)
First == IF shift = 0 THEN src8 ELSE Aligned(src8) + Width
Joined(low, high) ==
  [i \in 0 .. Width - 1 |-> IF i < Width - shift THEN low[i + shift] ELSE high[i - (Width - shift)]]
DstWord(k) ==
  CASE shift = 0 -> WordAt(src8 + k * Width)
    [] k = 0 -> Joined(srcWord, WordAt(First))
    [] OTHER -> Joined(WordAt(First + (k - 1) * Width), WordAt(First + k * Width))

CopyWords(n) ==
  /\ mem' = [a \in Addrs |-> IF a \in dst8 .. dst8 + n * Width - 1
                             THEN DstWord((a - dst8) \div Width)[(a - dst8) % Width] ELSE mem[a]]
  /\ read' = read \cup First .. First + n * Width - 1
  /\ srcWord' = WordAt(First + (n - 1) * Width)
  /\ dst8' = dst8 + n * Width /\ src8' = src8 + n * Width /\ length' = length - n

Single ==
  /\ at = "words" /\ length % Unroll # 0
  /\ CopyWords(1) /\ UNCHANGED <<args, at, count, shift>>

Group ==
  /\ at = "words" /\ length % Unroll = 0 /\ length > 0
  /\ CopyWords(Unroll) /\ UNCHANGED <<args, at, count, shift>>

WordsEnd ==
  /\ at = "words" /\ length = 0 /\ at' = "rest"
  /\ UNCHANGED <<args, dst8, src8, count, length, shift, srcWord, read, mem>>

Rest ==
  /\ at = "rest" /\ count > 0
  /\ CopyByte /\ UNCHANGED <<args, at, length, shift, srcWord>>

Return ==
  /\ at = "rest" /\ count = 0 /\ at' = "done"
  /\ UNCHANGED <<args, dst8, src8, count, length, shift, srcWord, read, mem>>

-----------------------------------------------------------------------------
Init ==
  /\ args \in [dest : Size \div 2 + Width .. Size \div 2 + 2 * Width - 1,
               src : Width .. 2 * Width - 1, count : Counts]
  /\ at = "begin" /\ dst8 = args.dest /\ src8 = args.src /\ count = args.count
  /\ length = 0 /\ shift = 0 /\ srcWord = [i \in 0 .. Width - 1 |-> 0] /\ read = {}
  /\ mem = [a \in Addrs |-> a]

Next == Begin \/ Align \/ Words \/ Single \/ Group \/ WordsEnd \/ Rest \/ Return

Spec == Init /\ [][Next]_vars

-----------------------------------------------------------------------------
TypeOK ==
  /\ at \in {"begin", "align", "words", "rest", "done"}
  /\ {dst8, src8} \subseteq Addrs /\ count \in Nat /\ length \in Nat
  /\ shift \in 0 .. Width - 1 /\ mem \in [Addrs -> Addrs] /\ read \subseteq Addrs

(* The destination receives the source, for every pair of alignments, and  *)
(* not a byte around it changes (memcpy.c:314-338).                        *)
Copied ==
  \A a \in Addrs :
    IF a \in args.dest .. args.dest + args.count - 1
    THEN at = "done" => mem[a] = args.src + a - args.dest
    ELSE mem[a] = a

(* Words are read ahead of what is copied, and yet none is read that does  *)
(* not hold a byte of the source: the read ahead never leaves the memory   *)
(* of the caller (memcpy.c:157-180, 260-296).                              *)
ReadsOnlyItsWords ==
  \A a \in read : BytesOf(Aligned(a)) \cap args.src .. args.src + args.count - 1 # {}
=============================================================================
