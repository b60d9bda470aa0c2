---------------------------- MODULE EthChecksum ----------------------------
(***************************************************************************)
(* The checksum of the Ethernet boot loader (header_checksum16) and the    *)
(* routines that put it into the frames they build (ip_header, ping_reply, *)
(* udp_reply, tcp_header) or check it (parse_udp_packet,                   *)
(* parse_tcp_packet; IP and ICMP checksums are not looked at).             *)
(*                                                                         *)
(* A frame is its bytes, of which the first two are the checksum; the rest *)
(* of its layout is left out.  The other station computes and verifies     *)
(* checksums as the standard says.                                         *)
(***************************************************************************)
EXTENDS Integers, Sequences, FiniteSetsExt

CONSTANTS
  B,          \* the values of a byte (256)
  Lengths,    \* of frames
  AddrSums    \* the sums of the addresses of pseudo headers

EthChecksumAssumption ==
  B \in Nat \ {0, 1} /\ Lengths \subseteq Nat \ {0, 1} /\ AddrSums \subseteq Nat

VARIABLES
  kind,      \* "ip", "icmp", "udp", "tcp"
  dir,       \* "out": built by the loader; "in": received by it
  addr,      \* the sum of the addresses
  buf, damaged,
  pc,        \* "start", "add", "fold", "done", "sent", "dropped", "accepted"
  sum, at,   \* header_checksum16: the sum so far, and the next byte
  result

vars == <<kind, dir, addr, buf, damaged, pc, sum, at, result>>

W == B * B
Byte == 0 .. B - 1
Word(bytes, i) == B * bytes[i] + (IF i < Len(bytes) THEN bytes[i + 1] ELSE 0)
WithChecksum(bytes, c) == [bytes EXCEPT ![1] = c \div B, ![2] = c % B]

(* What the sum begins with: the pseudo header of UDP (17) and TCP (6).    *)
Pseudo(k, a, len) == CASE k = "udp" -> a + 17 + len [] k = "tcp" -> a + 6 + len [] OTHER -> 0

-----------------------------------------------------------------------------
(* The standard: the one's complement sum of a good frame is minus zero.   *)
Standard(k, a, len) == (CASE k = "udp" -> a + 17 [] k = "tcp" -> a + 6 [] OTHER -> 0)
                       + (IF k \in {"udp", "tcp"} THEN len ELSE 0)
TotalOf(bytes) ==
  Standard(kind, addr, Len(bytes))
  + MapThenSumSet(LAMBDA i : Word(bytes, i), {i \in 1 .. Len(bytes) : i % 2 = 1})
Good(bytes) == TotalOf(bytes) > 0 /\ TotalOf(bytes) % (W - 1) = 0
Checksums == {c \in 1 .. W - 1 : Good(WithChecksum(buf, c))}

-----------------------------------------------------------------------------
(* The bytes of the buffer behind the checksum are the frame; those of the *)
(* checksum are what an earlier frame has left there.                      *)
Init ==
  /\ kind \in {"ip", "icmp", "udp", "tcp"} /\ dir \in {"in", "out"}
  /\ dir = "in" => kind \in {"udp", "tcp"}
  /\ \E n \in Lengths : buf \in [1 .. n -> Byte] /\ (kind = "ip" => n % 2 = 0)
  /\ addr \in AddrSums /\ (kind \in {"ip", "icmp"} => \A a \in AddrSums : addr <= a)
  /\ damaged = FALSE /\ pc = "start" /\ sum = 0 /\ at = 1 /\ result = 0

Cleared(bytes) == WithChecksum(bytes, 0)

Build ==
  /\ dir = "out" /\ pc = "start"
  /\ buf' = Cleared(buf) /\ sum' = Pseudo(kind, addr, Len(buf)) /\ pc' = "add"
  /\ UNCHANGED <<kind, dir, addr, damaged, at, result>>

(* A frame comes from the other station, with at most one byte changed on  *)
(* the way.                                                                *)
Arrive ==
  /\ dir = "in" /\ pc = "start"
  /\ \E c \in Checksums, i \in 1 .. Len(buf), b \in Byte :
       /\ buf' = [WithChecksum(buf, c) EXCEPT ![i] = b]
       /\ damaged' = (buf' # WithChecksum(buf, c))
  /\ sum' = Pseudo(kind, addr, Len(buf)) /\ pc' = "add"
  /\ UNCHANGED <<kind, dir, addr, at, result>>

(* header_checksum16: whole words, then a byte that is left, then the      *)
(* carries.                                                                *)
AddWord ==
  /\ pc = "add" /\ at < Len(buf)
  /\ sum' = sum + Word(buf, at) /\ at' = at + 2
  /\ UNCHANGED <<kind, dir, addr, buf, damaged, pc, result>>

(* A bug: an odd last byte is added as a low byte.                         *)
LastByte_Low == IF at = Len(buf) THEN buf[at] ELSE 0

LastByte == IF at = Len(buf) THEN Word(buf, at) ELSE 0

AddLast ==
  /\ pc = "add" /\ at >= Len(buf)
  /\ sum' = sum + LastByte /\ pc' = "fold"
  /\ UNCHANGED <<kind, dir, addr, buf, damaged, at, result>>

Carried == (sum % W) + sum \div W

Folded == sum < W

Fold ==
  /\ pc = "fold" /\ ~Folded
  /\ sum' = Carried
  /\ UNCHANGED <<kind, dir, addr, buf, damaged, pc, at, result>>

Complement ==
  /\ pc = "fold" /\ Folded
  /\ result' = W - 1 - sum /\ pc' = "done"
  /\ UNCHANGED <<kind, dir, addr, buf, damaged, sum, at>>

Store ==
  /\ dir = "out" /\ pc = "done"
  /\ buf' = WithChecksum(buf, result) /\ pc' = "sent"
  /\ UNCHANGED <<kind, dir, addr, damaged, sum, at, result>>

Passes == result = 0

Check ==
  /\ dir = "in" /\ pc = "done"
  /\ pc' = IF Passes THEN "accepted" ELSE "dropped"
  /\ UNCHANGED <<kind, dir, addr, buf, damaged, sum, at, result>>

Next == \/ Build \/ Arrive \/ AddWord \/ AddLast \/ Fold \/ Complement \/ Store \/ Check

Spec == Init /\ [][Next]_vars

-----------------------------------------------------------------------------
(* Every variable keeps its type: the result fits its two bytes.           *)
TypeOK ==
  /\ pc \in {"start", "add", "fold", "done", "sent", "dropped", "accepted"}
  /\ sum \in Nat /\ at \in 1 .. Len(buf) + 1 /\ result \in 0 .. W - 1
  /\ buf \in [1 .. Len(buf) -> Byte] /\ Len(buf) \in Lengths

(* The other station accepts the checksum of every frame the loader sends, *)
(* of an even or odd length, whatever its buffer held before.              *)
SentIsValid == pc = "sent" => Good(buf)

(* The loader drops a frame exactly if it was changed on the way.          *)
DroppedIfDamaged ==
  /\ pc = "accepted" => ~damaged
  /\ pc = "dropped" => damaged
=============================================================================
