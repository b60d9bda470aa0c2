------------------------------ MODULE LineFifo ------------------------------
(***************************************************************************)
(* What a line buffer of the Ethernet boot loader promises to its two      *)
(* sides: a queue of characters.  The writer appends, the reader takes     *)
(* characters from the front, and nothing is lost, invented or reordered.  *)
(* Where a line ends is not part of the promise, and the promise ends when *)
(* the queue is spoilt.                                                    *)
(***************************************************************************)
EXTENDS Naturals, Sequences

CONSTANTS Chars,   \* the characters that may be written
          MaxTake  \* the most characters that one read takes

VARIABLES queue,   \* written and not yet read
          taken,   \* everything read so far
          spoilt   \* the promise is off

vars == <<queue, taken, spoilt>>

Init == queue = <<>> /\ taken = <<>> /\ spoilt = FALSE

Write == /\ Len(queue') > Len(queue)
         /\ SubSeq(queue', 1, Len(queue)) = queue
         /\ queue' \in Seq(Chars)
         /\ UNCHANGED <<taken, spoilt>>

Read(n) == /\ n \in 1 .. Len(queue)
           /\ taken' = taken \o SubSeq(queue, 1, n)
           /\ queue' = SubSeq(queue, n + 1, Len(queue))
           /\ UNCHANGED spoilt

Spoil == spoilt'

Next == Write \/ (\E n \in 1 .. MaxTake : Read(n)) \/ Spoil

Spec == Init /\ [][Next]_vars
=============================================================================
