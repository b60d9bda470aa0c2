----------------------------- MODULE LineBuffer -----------------------------
(***************************************************************************)
(* The line buffers of the Ethernet boot loader (line-buffer.c).  One      *)
(* buffer is written by put_byte, from the interrupt that receives a       *)
(* telnet packet, and read by get_line, from the main loop; the other is   *)
(* written by put_line and drained by telnet_tx, both from the main loop.  *)
(* A marker behind the last character, 0 after a complete line and 1       *)
(* otherwise, is all that says whether a line is complete.                 *)
(*                                                                         *)
(* get_line is three steps, because the interrupt may come between its     *)
(* accesses to the buffer: it copies write_ptr, it looks for the end of    *)
(* the line, it looks at the marker there.                                 *)
(***************************************************************************)
EXTENDS Integers, Sequences, FiniteSetsExt, SequencesExt

CONSTANTS
  LenBytes,   \* len_bytes: 0x1000 for rxbuf, 0x80000 for txbuf
  MaxLine,    \* MAX_LINE (128)
  MaxTx,      \* MAX_TELNET_TX (1024)
  Packets,    \* what one received packet may hold: sequences of "char", "cr"
  Texts,      \* lengths of the lines that put_line may be given
  MaxPut,     \* bound on the characters written in a behaviour
  Junk        \* what malloc's memory may hold

LineBufferAssumption ==
  /\ {LenBytes, MaxLine, MaxTx, MaxPut} \subseteq Nat \ {0}
  /\ MaxLine < LenBytes
  /\ Packets \subseteq Seq({"char", "cr"})
  /\ Texts \subseteq 1 .. MaxLine

(* Characters are told apart by the order in which they are written: the   *)
(* n-th one is 2n, or 2n+1 if it is a carriage return.  0 and 1 are left   *)
(* for the markers.                                                        *)
Char(n, kind) == IF kind = "cr" THEN 2 * n + 1 ELSE 2 * n
IsCr(c) == c > 1 /\ c % 2 = 1
Chars == {Char(n, k) : n \in 1 .. MaxPut, k \in {"char", "cr"}}

VARIABLES
  lb,      \* line_buf_t: write_ptr, read_ptr, buf
  put,     \* history: the characters written
  got,     \* history: the lines read
  reader,  \* get_line in progress: where it is, its write_ptr and len
  side,    \* which of the two buffers this is
  spoilt   \* history: the buffer has wrapped where it cannot, or overflowed

vars == <<lb, put, got, reader, side, spoilt>>

Idle == [at |-> "idle", write_ptr |-> 0, len |-> 0]

-----------------------------------------------------------------------------
(* line-buffer.c:64-81                                                     *)
WrapAt(p) == IF p + MaxLine >= LenBytes THEN 0 ELSE p

PutByte(b, byte, last) ==
  [b EXCEPT !.buf = [@ EXCEPT ![b.write_ptr] = byte,
                              ![b.write_ptr + 1] = IF last THEN 0 ELSE 1],
            !.write_ptr = WrapAt(@ + 1)]

(* line-buffer.c:85-107.  print moves the pointer that is then indexed     *)
(* with len, so the first 0 lands a whole line behind the line.            *)
Stray(p, len) == p + 2 * len

PutLine(b, line) ==
  LET len  == Len(line)
      end  == WrapAt(b.write_ptr + len)
      text == [i \in DOMAIN b.buf |->
                 IF i - b.write_ptr \in 0 .. len - 1 THEN line[i - b.write_ptr + 1]
                 ELSE IF i = Stray(b.write_ptr, len) THEN 0
                 ELSE b.buf[i]]
  IN [b EXCEPT !.buf = [text EXCEPT ![end] = 0], !.write_ptr = end]

(* line-buffer.c:128-133: how far the scan for the end of the line gets.   *)
ScanLen(b, write_ptr) ==
  Min({n \in 0 .. MaxLine : \/ b.read_ptr + n = write_ptr
                            \/ b.buf[b.read_ptr + n] \in {0, 1}
                            \/ n = MaxLine})

Slice(b, from, len) == [i \in 1 .. len |-> b.buf[from + i - 1]]

(* get_line without an interrupt in it: the text buffer, whose two sides   *)
(* are the main loop.  Returns the buffer and the length.                  *)
GetLine(b0) ==
  LET b == [b0 EXCEPT !.read_ptr = WrapAt(@)]
      n == ScanLen(b, b.write_ptr)
  IN IF b.read_ptr = b.write_ptr \/ b.buf[b.read_ptr + n] = 1
     THEN [b |-> b, len |-> 0]
     ELSE [b |-> [b EXCEPT !.read_ptr = @ + n], len |-> n]

(* telnet.c:253-271: as many lines as fit in a packet, sent as one piece   *)
(* of memory that starts at the first of them.                             *)
Grabs == [b : [write_ptr : Nat, read_ptr : Nat, buf : [0 .. LenBytes - 1 -> Nat]], len : Nat]

GrabLines[r \in Grabs] ==
  LET g == GetLine(r.b)
  IN IF r.len < MaxTx /\ g.len # 0 THEN GrabLines[[b |-> g.b, len |-> r.len + g.len]]
     ELSE IF r.len < MaxTx THEN [b |-> g.b, len |-> r.len]
     ELSE r

-----------------------------------------------------------------------------
Init ==
  /\ \E junk \in Junk :
       lb = [write_ptr |-> 0, read_ptr |-> 0, buf |-> [i \in 0 .. LenBytes - 1 |-> junk]]
  /\ put = <<>> /\ got = <<>> /\ reader = Idle
  /\ side \in {"rx", "tx"}
  /\ spoilt = FALSE

Taken == FlattenSeq(got)

(* The buffer has no check of its fill, and it wraps well only between two *)
(* typed lines: in the middle of one, the marker 1 stays behind and the    *)
(* reader waits there for ever; behind put_line's last line no 0 is left.  *)
Capacity == LenBytes - MaxLine
Overfills(cs) == Len(put) + Len(cs) - Len(Taken) >= Capacity

(* telnet.c:215-229: the interrupt stores the characters of one packet.    *)
ReceivePacket ==
  /\ side = "rx"
  /\ \E p \in Packets :
       LET cs    == [i \in DOMAIN p |-> Char(Len(put) + i, p[i])]
           After == [i \in 0 .. Len(p) |->
                      FoldLeft(LAMBDA b, c : PutByte(b, c, IsCr(c)), lb, SubSeq(cs, 1, i))]
       IN /\ Len(put) + Len(p) <= MaxPut
          /\ put' = put \o cs
          /\ lb' = After[Len(p)]
          /\ spoilt' = \/ spoilt
                       \/ \E i \in 1 .. Len(p) : After[i].write_ptr = 0 /\ ~IsCr(cs[i])
                       \/ Overfills(cs)
  /\ UNCHANGED <<got, reader, side>>

(* line-buffer.c:115-127 *)
GetLineBegin ==
  /\ side = "rx" /\ reader.at = "idle"
  /\ lb' = [lb EXCEPT !.read_ptr = WrapAt(@)]
  /\ lb'.read_ptr # lb.write_ptr
  /\ reader' = [at |-> "scan", write_ptr |-> lb.write_ptr, len |-> 0]
  /\ UNCHANGED <<put, got, side, spoilt>>

GetLineScan ==
  /\ reader.at = "scan"
  /\ reader' = [reader EXCEPT !.at = "check", !.len = ScanLen(lb, reader.write_ptr)]
  /\ UNCHANGED <<lb, put, got, side, spoilt>>

(* A bug: write_ptr is read again after the scan.                          *)
GetLineCheck_Reread ==
  /\ reader.at = "check"
  /\ got' = Append(got, Slice(lb, lb.read_ptr, reader.len + 1))
  /\ lb' = [lb EXCEPT !.read_ptr = lb.write_ptr]
  /\ reader' = Idle
  /\ UNCHANGED <<put, side, spoilt>>

(* line-buffer.c:135-144: the marker decides.                              *)
GetLineCheck ==
  /\ reader.at = "check"
  /\ IF lb.buf[lb.read_ptr + reader.len] = 1 \/ reader.len = 0
     THEN UNCHANGED <<lb, got>>
     ELSE /\ got' = Append(got, Slice(lb, lb.read_ptr, reader.len))
          /\ lb' = [lb EXCEPT !.read_ptr = @ + reader.len]
  /\ reader' = Idle
  /\ UNCHANGED <<put, side, spoilt>>

(* process_telnet and parse_command write the answers, telnet_tx sends     *)
(* them, in the same loop.                                                 *)
WriteLine ==
  /\ side = "tx"
  /\ \E n \in Texts :
       LET cs == [i \in 1 .. n |-> Char(Len(put) + i, "char")]
       IN /\ Len(put) + n <= MaxPut
          /\ put' = put \o cs
          /\ lb' = PutLine(lb, cs)
          /\ spoilt' = (spoilt \/ lb'.write_ptr = 0 \/ Overfills(cs))
  /\ UNCHANGED <<got, reader, side>>

TelnetTx ==
  /\ side = "tx"
  /\ LET g == GetLine(lb)
         r == GrabLines[g]
     IN /\ g.len # 0
        /\ lb' = r.b
        /\ got' = Append(got, Slice(g.b, WrapAt(lb.read_ptr), r.len))
  /\ UNCHANGED <<put, reader, side, spoilt>>

Next == \/ ReceivePacket \/ GetLineBegin \/ GetLineScan \/ GetLineCheck
        \/ WriteLine \/ TelnetTx

Spec == Init /\ [][Next]_vars

(* The main loop calls get_line and telnet_tx again and again.             *)
FairSpec ==
  /\ Spec
  /\ WF_vars(GetLineBegin) /\ WF_vars(GetLineScan)
  /\ WF_vars(GetLineCheck) /\ WF_vars(TelnetTx)

-----------------------------------------------------------------------------
TypeOK ==
  /\ lb \in [write_ptr : 0 .. LenBytes - 1, read_ptr : 0 .. LenBytes - 1,
             buf : [0 .. LenBytes - 1 -> Chars \cup {0, 1} \cup Junk]]
  /\ put \in Seq(Chars)
  /\ got \in Seq(Seq(Chars \cup {0, 1} \cup Junk))
  /\ reader.at \in {"idle", "scan", "check"}
  /\ side \in {"rx", "tx"}

(* Whatever the moments at which the interrupt comes between the steps of  *)
(* get_line, and wherever lines are cut or run together, what the main     *)
(* loop reads is, end to end, what was written, until the buffer is spoilt *)
(* (line-buffer.c:64-145, telnet.c:253-271).                               *)
Unread == SubSeq(put, Len(Taken) + 1, Len(put))
Fifo == INSTANCE LineFifo WITH queue <- IF spoilt THEN <<>> ELSE Unread,
                               taken <- IF spoilt THEN <<>> ELSE Taken,
                               MaxTake <- MaxPut
FifoSpec == Fifo!Spec

(* What ends with a carriage return, and every answer, is eventually read, *)
(* unless more is written behind it: the marker says nothing of an earlier *)
(* line end, so a line waits for the end of the one that follows it.       *)
LineArrives ==
  \A n \in 1 .. MaxPut :
    (Len(put) = n /\ (side = "rx" => IsCr(Last(put))))
      ~> (Len(Taken) >= n \/ Len(put) > n \/ spoilt)
=============================================================================
